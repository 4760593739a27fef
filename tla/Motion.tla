------------------------------- MODULE Motion -------------------------------
(***************************************************************************)
(* Motion compensation and the coverage clip of src/src/radar-player.ts:    *)
(* the snapshot of each frame's tiles, the vector by which the rain moved   *)
(* into a frame from the one before it (lk-worker.ts measures it, in a      *)
(* worker or not), and the clip cut from the coverage mask's tiles.         *)
(*                                                                          *)
(* Each of them is the outcome of waits (tiles that decode, a worker that   *)
(* answers) during which the map may move and the frames may be renumbered, *)
(* replaced or dropped.  FrameLoop has the loop itself: here a frame is     *)
(* renumbered, replaced or dropped at any time it could be.                 *)
(***************************************************************************)
EXTENDS Arrays, Naturals, Sequences, FiniteSets, FiniteSetsExt

CONSTANTS Configs,     \* motion: motion_compensation; dwd: the source is DWD, with a mask
          Shows,       \* what the layers show, in the order they are made
          NumFrames,   \* frameCount
          MaxViews,    \* bound: values of _snapshotGen
          MaxJobs,     \* bound: captures and estimates under way
          Null

\* Null is told apart from a layer.
ASSUME MotionAssumption ==
    /\ NumFrames \in Nat /\ Len(Shows) \in Nat
    /\ \A n \in 1..Len(Shows) : [id |-> n, shows |-> Shows[n]] # Null

VARIABLES arrays,    \* the per-frame arrays: _radarImage, _frameSnapshot, _frameMotion
          captures,  \* snapshots under way, each with what follows it
          requests,  \* estimates under way
          player,    \* _snapshotGen, _frameGeneration, the debounce, the worker; layers made
          cover      \* the mask, the pane's clip, the clips under way

motionVars == <<arrays, captures, requests, player, cover>>

\* A layer is told apart by its number and shows a scene.
Made == [id |-> player.made + 1, shows |-> Shows[player.made + 1]]

NoFrame == [layer |-> Null, loops |-> FALSE, snap |-> Null, motion |-> Null]

At(ss, i) == IF i \in DOMAIN ss THEN ss[i] ELSE NoFrame

-----------------------------------------------------------------------------
(* Estimates                                                                 *)

\* pairIndex: where the two layers are by now, 0 when they are no pair.
PairIndex(r, ss) ==
    LET at == {i \in 2 .. Len(ss) : r.cur # Null /\ ss[i].layer = r.cur /\ ss[i - 1].layer = r.prev}
    IN  IF at = {} THEN 0 ELSE Min(at)

\* What an answer makes of the vectors: m, None for an error, a low confidence
\* or a shift of a whole grid.
Adopted(r, ss, m) ==
    LET at == PairIndex(r, ss)
    IN  IF r.view # player.view \/ at = 0 THEN ss ELSE [ss EXCEPT ![at].motion = m]

Measured(r) == [from |-> r.prev, to |-> r.cur, view |-> r.seen]

\* _computeMotionForFrame's guards: a pair without both snapshots has no vector.
Lacks(ss, i) == i < 2 \/ At(ss, i).snap = Null \/ At(ss, i - 1).snap = Null

Unmoved(ss, is) == [i \in DOMAIN ss |-> IF i \in is /\ Lacks(ss, i) THEN [ss[i] EXCEPT !.motion = Null] ELSE ss[i]]

\* The pairs that pass the gate (compares) are sent to be estimated.
Asked(ss, compares, on) ==
    {[prev |-> ss[i - 1].layer, cur |-> ss[i].layer, view |-> player.view,
      seen |-> Min({ss[i - 1].snap, ss[i].snap}), on |-> on] : i \in compares}

\* Of the pairs of is, those that have both snapshots.
Comparable(ss, is) == {i \in is \cap DOMAIN ss : ~Lacks(ss, i)}

\* The first pair that passes creates the worker, where one can be.
WorkerAfter(compares) ==
    IF player.worker = "untried" /\ compares # {} THEN {"worker", "sync"} ELSE {player.worker}

\* _computeMotionForFrame for each of is, over the frames as they are.
Compute(ss, is) ==
    \E compares \in SUBSET Comparable(ss, is) :
        \E worker \in WorkerAfter(compares) :
            /\ arrays' = Unmoved(ss, is)
            /\ requests' = requests \cup Asked(ss, compares, worker)
            /\ player' = [player EXCEPT !.worker = worker]

\* The worker answers, or the estimate made without one does.
LkAnswers(r) ==
    /\ requests' = requests \ {r}
    /\ arrays' \in {Adopted(r, arrays, Null), Adopted(r, arrays, Measured(r))}
    /\ UNCHANGED <<captures, player, cover>>

\* The worker's 'error': all that is pending fails, and all later estimates
\* are made without it.
WorkerFails ==
    /\ player.worker = "worker"
    /\ LET failed == {r \in requests : r.on = "worker"}
       IN  /\ requests' = requests \ failed
           /\ arrays' = [i \in DOMAIN arrays |->
                          IF \E r \in failed : r.view = player.view /\ PairIndex(r, arrays) = i
                          THEN [arrays[i] EXCEPT !.motion = Null] ELSE arrays[i]]
    /\ player' = [player EXCEPT !.worker = "sync"]
    /\ UNCHANGED <<captures, cover>>

-----------------------------------------------------------------------------
(* Snapshots                                                                 *)

\* _captureFrameSnapshot up to its wait; by: what follows, and for whom.
Capture(i, layer, by) == [fi |-> i, layer |-> layer, view |-> player.view, by |-> by]

\* Without motion compensation nothing is captured.
Captures(is, by) == IF player.config.motion THEN {Capture(i, arrays[i].layer, by) : i \in is} ELSE {}

\* Mutant: a snapshot is taken of the view the map has left.
CountsUnviewed(c) == At(arrays, c.fi).layer = c.layer

\* The snapshot counts if neither the view nor the frame's layer changed.
Counts(c) == c.view = player.view /\ At(arrays, c.fi).layer = c.layer

Snapped(c) == IF Counts(c) THEN [arrays EXCEPT ![c.fi].snap = c.view] ELSE arrays

\* _onLayerLoaded after its wait.
Pairs(c) == IF At(arrays, c.fi).layer = c.layer THEN {c.fi, c.fi + 1} ELSE {}

\* What is computed after it: _onLayerLoaded's pairs if the layer is still
\* there, init's and the shift's if the frames are still those, _resnapshotAll's
\* after the last of its captures.
PairsAfter(c) ==
    CASE c.by = "load"  -> Pairs(c)
      [] c.by = "init"  -> IF c.view >= player.cleared THEN {c.fi, c.fi + 1} ELSE {}
      [] c.by = "shift" -> IF c.view >= player.cleared THEN Pairs(c) \cup {c.fi} ELSE {}
      [] c.by = "all"   -> IF \E d \in captures \ {c} : d.by = "all" /\ d.view = c.view
                           THEN {} ELSE 2 .. Len(arrays)

\* The tiles have decoded; drawn: there was something to draw.
Captured(c, drawn) ==
    /\ captures' = captures \ {c}
    /\ Compute(IF drawn THEN Snapped(c) ELSE arrays, PairsAfter(c))
    /\ UNCHANGED cover

-----------------------------------------------------------------------------
(* Frames                                                                    *)

\* DWD's coverage mask; its number is that of the frames it came with.
Mask == IF player.config.dwd THEN player.cleared ELSE Null

Unmasked(c) == [c EXCEPT !.mask = Null, !.clip = Null]

\* init: the arrays of the listed frames, and the mask.
InitRadar ==
    /\ arrays = <<>>
    /\ arrays' = [i \in 1 .. NumFrames |-> NoFrame]
    /\ cover' = [cover EXCEPT !.mask = Mask]
    /\ player' = [player EXCEPT !.next = NumFrames, !.loading = TRUE]
    /\ UNCHANGED <<captures, requests>>

Waiting == {i \in DOMAIN arrays : arrays[i].layer # Null /\ ~arrays[i].loops}

\* A frame's layer is added when the one before has settled, from the newest
\* on; one that fails is the last.
AddFrame ==
    /\ player.next > 0 /\ Waiting = {}
    /\ arrays' = [arrays EXCEPT ![player.next].layer = Made]
    /\ player' = [player EXCEPT !.made = @ + 1, !.next = @ - 1]
    /\ UNCHANGED <<captures, requests, cover>>

\* Its tiles are settled and it is in the loop: captured by its 'load' and by who
\* waited for it, which is one capture here, of the same tiles at the same time.
LayerSettles(i) ==
    /\ i \in Waiting
    /\ arrays' = [arrays EXCEPT ![i].loops = TRUE]
    /\ captures' = captures \cup Captures({i}, IF player.loading THEN "init" ELSE "shift")
    /\ UNCHANGED <<requests, player, cover>>

\* _dropFailedLayer: what was captured of it stays.
LayerFails(i) ==
    /\ i \in Waiting
    /\ arrays' = [arrays EXCEPT ![i].layer = Null]
    /\ captures' = captures \cup Captures({i}, "load")
    /\ player' = [player EXCEPT !.next = 0]
    /\ UNCHANGED <<requests, cover>>

\* 'load' of a frame's layer again, after a pan that needed tiles.
_onLayerLoaded(i) ==
    /\ arrays[i].loops
    /\ captures' = captures \cup Captures({i}, "load")
    /\ UNCHANGED <<arrays, requests, player, cover>>

SameSnapshot(i, j) == arrays[i].snap # Null /\ arrays[j].snap # Null /\ arrays[i].layer.shows = arrays[j].layer.shows

\* lastKeptFi when the walk has passed frame i, 0 before the first it keeps.
LastKept ==
    LET last[i \in 0..Len(arrays)] ==
            IF i = 0 THEN 0
            ELSE IF arrays[i].loops /\ ~(last[i - 1] # 0 /\ SameSnapshot(i, last[i - 1])) THEN i
            ELSE last[i - 1]
    IN  last

\* _dedupFrames: of frames that show the same the first stays; if any goes, those
\* that are not in the loop go too.
Deduped ==
    LET looping == {i \in DOMAIN arrays : arrays[i].loops}
        kept == Ascending({i \in looping : LastKept[i] = i})
    IN  IF \A i \in looping : LastKept[i] = i THEN arrays ELSE [k \in DOMAIN kept |-> arrays[kept[k]]]

\* The end of init, after its captures.
InitEnds ==
    /\ player.loading /\ player.next = 0 /\ Waiting = {}
    /\ ~\E c \in captures : c.by = "init" /\ c.view >= player.cleared
    /\ arrays' = IF player.config.motion THEN Deduped ELSE arrays
    /\ player' = [player EXCEPT !.loading = FALSE]
    /\ UNCHANGED <<captures, requests, cover>>

\* _updateRadar's shift of one frame; the oldest and the vector out of it go.
Shift ==
    /\ ~player.loading /\ arrays # <<>>
    /\ arrays' = [i \in DOMAIN arrays |->
                    IF i = Len(arrays)
                    THEN [NoFrame EXCEPT !.layer = Made]
                    ELSE [arrays[i + 1] EXCEPT !.motion = IF i = 1 THEN Null ELSE @]]
    /\ player' = [player EXCEPT !.made = @ + 1]
    /\ UNCHANGED <<captures, requests, cover>>

\* _swapStagedFrames for one frame: the vectors into and out of it go.
Swapped(ss, i, layer) ==
    [j \in DOMAIN ss |->
        IF j = i THEN [layer |-> layer, loops |-> TRUE, snap |-> Null, motion |-> Null]
        ELSE IF j = i + 1 THEN [ss[j] EXCEPT !.motion = Null] ELSE ss[j]]

SwapFrame(i) ==
    /\ ~player.loading
    /\ arrays' = Swapped(arrays, i, Made)
    /\ captures' = captures \cup (IF player.config.motion THEN {Capture(i, Made, "load")} ELSE {})
    /\ player' = [player EXCEPT !.made = @ + 1]
    /\ UNCHANGED <<requests, cover>>

\* _clearLayers
ClearLayers ==
    /\ arrays # <<>> /\ player.view < MaxViews
    /\ arrays' = <<>>
    /\ player' = [player EXCEPT !.view = @ + 1, !.cleared = player.view + 1,
                                !.loading = FALSE, !.next = 0]
    /\ cover' = Unmasked(cover)
    /\ UNCHANGED <<captures, requests>>

-----------------------------------------------------------------------------
(* The view                                                                  *)

\* _invalidateSnapshots; its generation is the number of the view.
Invalidated(ss) == [i \in DOMAIN ss |-> [ss[i] EXCEPT !.snap = Null, !.motion = Null]]

\* _onZoomEnd and its like, then _scheduleViewRefresh: a zoom, a pan or a resize.
ViewChanges ==
    /\ player.view < MaxViews
    /\ arrays' = Invalidated(arrays)
    /\ player' = [player EXCEPT !.view = @ + 1, !.due = TRUE]
    /\ UNCHANGED <<captures, requests, cover>>

\* _updateCoverageClip up to its wait; a mask that never loaded has no tiles.
ClipCall == IF cover.mask = Null THEN {} ELSE {[mask |-> cover.mask, view |-> player.view]}

\* The debounce ends: _resnapshotAll and _updateCoverageClip.
RefreshView ==
    /\ player.due
    /\ player' = [player EXCEPT !.due = FALSE]
    /\ captures' = captures \cup Captures({i \in DOMAIN arrays : arrays[i].layer # Null}, "all")
    /\ cover' = [cover EXCEPT !.clips = @ \cup ClipCall]
    /\ UNCHANGED <<arrays, requests>>

\* The mask's 'load'.
MaskLoads ==
    /\ cover.mask # Null
    /\ cover' = [cover EXCEPT !.clips = @ \cup ClipCall]
    /\ UNCHANGED <<arrays, captures, requests, player>>

\* The mask's tiles have decoded.
Clipped(c) ==
    /\ cover' = [cover EXCEPT !.clips = @ \ {c},
                              !.clip = IF c.view = player.view /\ c.mask = cover.mask THEN c ELSE @]
    /\ UNCHANGED <<arrays, captures, requests, player>>

-----------------------------------------------------------------------------
InitMotion ==
    /\ arrays = <<>> /\ captures = {} /\ requests = {}
    /\ \E config \in Configs : player = [config |-> config, view |-> 0, cleared |-> 0, due |-> FALSE, worker |-> "untried", made |-> 0,
                                          loading |-> FALSE, next |-> 0]
    /\ cover = [mask |-> Null, clip |-> Null, clips |-> {}]

\* Bounds
FewLayers == player.made < Len(Shows)
FewJobs   == Cardinality(captures) + Cardinality(requests) < MaxJobs

LoopStep ==
    \/ InitRadar
    \/ FewLayers /\ (AddFrame \/ Shift)
    \/ FewLayers /\ FewJobs /\ \E i \in DOMAIN arrays : SwapFrame(i)
    \/ FewJobs /\ \E i \in DOMAIN arrays : LayerSettles(i) \/ LayerFails(i) \/ _onLayerLoaded(i)
    \/ InitEnds
    \/ ClearLayers

NextMotion ==
    \/ LoopStep
    \/ ViewChanges \/ MaskLoads \/ (FewJobs /\ RefreshView)
    \/ \E c \in captures, drawn \in BOOLEAN : Captured(c, drawn)
    \/ \E r \in requests : LkAnswers(r)
    \/ WorkerFails
    \/ \E c \in cover.clips : Clipped(c)

SpecMotion == InitMotion /\ [][NextMotion]_motionVars

-----------------------------------------------------------------------------
\* The vector into a frame is of snapshots taken in the view the map has, from what the
\* frame before it shows, "so stale vectors can't be applied while the refresh
\* is pending"; the frames are renumbered and replaced meanwhile.
VectorsFit ==
    \A i \in 2 .. Len(arrays) :
        LET m == arrays[i].motion
        IN  m # Null /\ arrays[i].loops /\ arrays[i - 1].loops =>
                /\ m.view = player.view
                /\ m.to = arrays[i].layer
                /\ m.from.shows = arrays[i - 1].layer.shows

\* The clip is of the mask there is, and, when nothing is due, of the view.
ClipFits ==
    cover.clip # Null =>
        /\ cover.clip.mask = cover.mask
        /\ ~player.due /\ cover.clips = {} => cover.clip.view = player.view

\* What a wait left behind is of the frames, the mask and the view there are.
MotionFits == VectorsFit /\ ClipFits
=============================================================================
