--------------------------- MODULE FrameLoop_proofs ---------------------------
(***************************************************************************)
(* LoopIntact and PlaybackKeepsPlace of FrameLoop from the invariant IInv, *)
(* action by action, with the facts of FrameFacts_proofs about what the    *)
(* actions are made of; and, last, MotionFits of Motion.                   *)
(***************************************************************************)
EXTENDS FrameFacts_proofs, Motion

-----------------------------------------------------------------------------
(* The inductive invariant.                                                *)

\* The fields of one value v of p between two steps, with the layers S of the
\* shifted-in frames that are still loading.
Held(v, away, S, upd) ==
  /\ Good(v, away) /\ Staffed(v)
  /\ S \subseteq LayerIds \ {None} /\ S \cap (LayersOf(v.staged) \cup LayersOf(away)) = {} /\ Apart(v, S)
  /\ upd \/ S # {} => v.ready
  /\ v.tick => MayTick(v)

\* The load loop awaits its frame's layer, and the frames to come have none.
ToCome(i, v) ==
  /\ Len(v.times) = Frames /\ i.at \in 1..Frames
  /\ i.order \in Seq(1..Frames) /\ Len(i.order) = Frames
  /\ \A j, k \in 1..Frames : i.order[j] = i.order[k] => j = k
  /\ \A k \in 1..Frames : k > i.at => v.img[i.order[k]] = None
  /\ v.img[i.order[i.at]] = i.layer /\ i.layer # None
  /\ i.order[i.at] \notin ToSet(v.loaded)
  /\ ~i.firstShown => v.loaded = <<>>

Loading(i, v) ==
  /\ DOMAIN i = {"order", "at", "layer", "stage", "firstShown"}
  /\ i.stage \in {"frames", "snapshots", "done"} /\ i.firstShown \in BOOLEAN
  /\ i.stage # "done" => v.staged = {}
  /\ i.stage = "frames" => ToCome(i, v)

IInv ==
  /\ Held(p, staging, shifting, updating) /\ Loading(init, p)
  /\ clock \in Int /\ updating \in BOOLEAN /\ owed \in BOOLEAN
  \* nothing else runs before the load has ended
  /\ init.stage # "done" => ~updating /\ ~owed /\ shifting = {} /\ staging = {}

\* Only the switches differ.
Same(v, w) ==
  /\ DOMAIN w = Fields
  /\ w.times = v.times /\ w.img = v.img /\ w.loaded = v.loaded /\ w.cur = v.cur
  /\ w.prev1 = v.prev1 /\ w.now = v.now /\ w.shown = v.shown /\ w.attached = v.attached
  /\ w.staged = v.staged /\ w.ready = v.ready /\ w.missed = v.missed

\* A switch is thrown, the loop goes on, a switch is thrown.
Plays(v, w, away) ==
  \E u, x : Good(u, away) /\ Good(x, away) /\ Same(v, u) /\ Follows(u, x) /\ Same(x, w)

\* What Plays keeps of the frames and their layers.
LEMMA PlaysFacts ==
  ASSUME NEW v, NEW w, NEW away, Good(v, away), Plays(v, w, away)
  PROVE  /\ w.times = v.times /\ Len(w.img) = Len(v.img) /\ w.staged \subseteq v.staged
         /\ ToSet(v.loaded) \subseteq ToSet(w.loaded) /\ (v.ready => w.ready)
         /\ \A i \in 1..Len(v.img) : w.img[i] = v.img[i] \/ w.img[i] \in LayersOf(v.staged)
         /\ \A i \in ToSet(w.loaded) \ ToSet(v.loaded) : w.img[i] \in LayersOf(v.staged)
         /\ v.staged = {} => w.img = v.img /\ w.loaded = v.loaded
                             /\ w.now \in {v.now, NearestIndex(v.times, clock)}
<1>1. PICK u, x : Good(u, away) /\ Good(x, away) /\ Same(v, u) /\ Follows(u, x) /\ Same(x, w)
  BY DEF Plays
<1>2. v.staged = {} => Idle(u)
  BY <1>1 DEF Same, Idle
<1> QED
  BY <1>1, <1>2 DEF Same, Follows

LEMMA PlaysApart ==
  ASSUME NEW v, NEW w, NEW away, Good(v, away), Plays(v, w, away),
         NEW S, S \cap LayersOf(v.staged) = {}, Apart(v, S)
  PROVE  Apart(w, S)
<1> SUFFICES ASSUME NEW i \in ToSet(w.loaded), w.img[i] \in S PROVE FALSE
  BY DEF Apart
<1>1. w.img[i] \notin LayersOf(v.staged)
  OBVIOUS
<1>2. i \in ToSet(v.loaded)
  BY <1>1, PlaysFacts
<1>3. i \in 1..Len(v.img)
  BY <1>2, LoadedFacts
<1>4. w.img[i] = v.img[i]
  BY <1>1, <1>3, PlaysFacts
<1> QED
  BY <1>2, <1>4 DEF Apart

LEMMA PlaysHeld ==
  ASSUME NEW v, NEW away, NEW S, NEW upd, Held(v, away, S, upd), NEW w, Plays(v, w, away),
         Good(w, away), Staffed(w), w.tick => MayTick(w)
  PROVE  Held(w, away, S, upd)
<1>1. Good(v, away) /\ S \cap LayersOf(v.staged) = {} /\ S \cap LayersOf(away) = {} /\ Apart(v, S)
  BY DEF Held
<1>2. w.staged \subseteq v.staged /\ (v.ready => w.ready)
  BY <1>1, PlaysFacts
<1>3. LayersOf(w.staged) \subseteq LayersOf(v.staged)
  BY <1>2 DEF LayersOf
<1>4. Apart(w, S)
  BY <1>1, PlaysApart
<1> QED
  BY <1>1, <1>2, <1>3, <1>4 DEF Held

LEMMA PlaysLoading ==
  ASSUME NEW v, NEW away, Good(v, away), NEW w, Plays(v, w, away), NEW i, Loading(i, v)
  PROVE  Loading(i, w)
<1>1. w.times = v.times /\ w.staged \subseteq v.staged
  BY PlaysFacts
<1>2. CASE v.staged = {}
  <2>1. w.img = v.img /\ w.loaded = v.loaded /\ w.staged = {}
    BY <1>1, <1>2, PlaysFacts
  <2> QED
    BY <1>1, <2>1 DEF Loading, ToCome
<1>3. CASE v.staged # {}
  BY <1>3 DEF Loading
<1> QED
  BY <1>2, <1>3

\* A step of playback.
LEMMA PlayStep ==
  ASSUME IInv, Plays(p, p', staging), Good(p', staging), Staffed(p'), p'.tick => MayTick(p'),
         UNCHANGED <<init, shifting, staging, updating, owed, clock>>
  PROVE  IInv'
<1>1. Held(p', staging, shifting, updating)
  BY PlaysHeld DEF IInv
<1>2. Loading(init, p')
  BY PlaysLoading DEF IInv, Held
<1>3. Held(p', staging', shifting', updating') /\ Loading(init', p')
  BY <1>1, <1>2
<1> QED
  BY <1>3 DEF IInv

\* The same for the place: the cursor is put on a frame, or moves up.
Played ==
  /\ Plays(p, p', staging) /\ (p'.cur >= p.cur \/ p'.cur >= 1)
  /\ UNCHANGED <<init, clock>>

LEMMA SameRefl ==
  ASSUME NEW v, NEW away, Good(v, away)
  PROVE  Same(v, v)
BY DEF Good, Same

\* A step that only follows.
LEMMA FollowsPlays ==
  ASSUME NEW v, NEW w, NEW away, Good(v, away), Good(w, away), Follows(v, w)
  PROVE  Plays(v, w, away)
<1>1. Same(v, v) /\ Same(w, w)
  BY SameRefl
<1> QED
  BY <1>1 DEF Plays

\* The timer is armed only for a loop that may tick.
LEMMA TickFollows ==
  ASSUME NEW v, NEW w, NEW away, Good(v, away), Good(w, away), Follows(v, w), v.tick => MayTick(v)
  PROVE  w.tick => MayTick(w)
<1>1. Len(v.loaded) \in Nat /\ Len(w.loaded) \in Nat
  BY LoadedFacts
<1> QED
  BY <1>1 DEF Follows, MayTick

\* The switches are thrown.
LEMMA SwitchGood ==
  ASSUME NEW v, NEW away, Good(v, away), NEW w, Same(v, w),
         w.run \in BOOLEAN, w.paused \in BOOLEAN, w.tick \in BOOLEAN
  PROVE  Good(w, away) /\ (Staffed(v) => Staffed(w))
<1>1. Good(w, away)
  BY DEF Good, CursorGood, Same
<1> QED
  BY <1>1 DEF Same, Staffed

LEMMA RunPut ==
  ASSUME NEW v, NEW away, Good(v, away), NEW run \in BOOLEAN, NEW w, w = [v EXCEPT !.run = run]
  PROVE  /\ Good(w, away) /\ Same(v, w) /\ w.run = run /\ w.paused = v.paused /\ w.tick = v.tick
         /\ Staffed(v) => Staffed(w)
<1>1. DOMAIN v = Fields
  BY DEF Good
<1>2. Same(v, w) /\ w.run = run /\ w.paused = v.paused /\ w.tick = v.tick
  BY <1>1 DEF Fields, Same
<1> QED
  BY <1>2, SwitchGood DEF Good, CursorGood

LEMMA PausePut ==
  ASSUME NEW v, NEW away, Good(v, away), NEW paused \in BOOLEAN, NEW w, w = [v EXCEPT !.paused = paused]
  PROVE  /\ Good(w, away) /\ Same(v, w) /\ w.run = v.run /\ w.paused = paused /\ w.tick = v.tick
         /\ Staffed(v) => Staffed(w)
<1>1. DOMAIN v = Fields
  BY DEF Good
<1>2. Same(v, w) /\ w.run = v.run /\ w.paused = paused /\ w.tick = v.tick
  BY <1>1 DEF Fields, Same
<1> QED
  BY <1>2, SwitchGood DEF Good, CursorGood

-----------------------------------------------------------------------------
(* The steps of playback keep the invariant.                               *)

LEMMA CursorType ==
  ASSUME NEW v, NEW away, Good(v, away)
  PROVE  v.cur \in Nat
BY DEF Good, CursorGood, InLoop

LEMMA NextSlot ==
  ASSUME NEW a \in Nat, NEW n \in Nat, n >= 1
  PROVE  (a % n) + 1 \in 1..n
OBVIOUS

CursorAt(v, slot) == [v EXCEPT !.cur = slot]

\* A slot is brought on screen after the cursor was put on it.
LEMMA PutAndShow ==
  ASSUME NEW v, NEW away, Good(v, away), Staffed(v), clock \in Int, NEW slot, slot \in 1..Len(v.loaded),
         NEW snap, NEW w, w = ShowSlot(CursorAt(v, slot), slot, snap)
  PROVE  Good(w, away) /\ Follows(v, w) /\ Staffed(w) /\ (w.tick => v.tick) /\ w.cur >= slot
<1> DEFINE u == [v EXCEPT !.cur = slot]
<1>1. InLoop(Len(v.loaded), slot)
  BY LoadedFacts DEF InLoop
<1>2. /\ Good(u, away) /\ Follows(v, u) /\ u.cur = slot /\ u.tick = v.tick
      /\ u.loaded = v.loaded /\ u.staged = v.staged /\ u.missed = v.missed
  BY <1>1, CursorPut
<1>3. w = ShowSlot(u, slot, snap)
  BY DEF CursorAt
<1> HIDE DEF u
<1>4. Good(w, away) /\ Swaps(u, w)
  BY <1>2, <1>3, ShowSlotGood
<1>5. Staffed(u)
  BY <1>2 DEF Staffed
<1>6. Follows(u, w) /\ Staffed(w) /\ w.tick = u.tick /\ w.cur >= u.cur
  BY <1>4, <1>5 DEF Swaps
<1>7. Follows(v, w)
  BY <1>2, <1>4, <1>6, FollowsTrans
<1> QED
  BY <1>2, <1>4, <1>6, <1>7

\* Stopping the loop: nothing is left to swap in.
LEMMA StopStep ==
  ASSUME NEW v, NEW away, Good(v, away), Staffed(v), clock \in Int, NEW w, w = StopLoop(v)
  PROVE  Good(w, away) /\ Follows(v, w) /\ Idle(w) /\ Staffed(w) /\ ~w.tick /\ w.cur >= v.cur
BY StopLoopGood DEF Idle, Staffed

\* Starting it at a slot.
LEMMA StartStep ==
  ASSUME NEW v, NEW away, Good(v, away), Staffed(v), clock \in Int, NEW slot, InLoop(Len(v.loaded), slot),
         NEW w, w = StartLoop(v, slot)
  PROVE  Good(w, away) /\ Follows(v, w) /\ Staffed(w) /\ (w.tick => MayTick(w)) /\ w.cur >= slot
BY StartLoopGood DEF Starts

LEMMA HeldFacts ==
  ASSUME IInv
  PROVE  /\ Good(p, staging) /\ Staffed(p) /\ (p.tick => MayTick(p)) /\ clock \in Int
         /\ p.run \in BOOLEAN /\ p.paused \in BOOLEAN /\ p.tick \in BOOLEAN
         /\ InLoop(Len(p.loaded), p.cur) /\ p.cur \in Nat /\ Len(p.loaded) \in Nat
<1>1. Good(p, staging) /\ Staffed(p) /\ (p.tick => MayTick(p)) /\ clock \in Int
  BY DEF IInv, Held
<1>2. Len(p.loaded) \in Nat
  BY <1>1, LoadedFacts
<1> QED
  BY <1>1, <1>2 DEF Good, CursorGood, InLoop

LEMMA TickGood ==
  ASSUME IInv, Tick
  PROVE  IInv' /\ Played
<1> DEFINE n == Len(p.loaded)
           next == (p.cur % n) + 1
           v == ShowSlot(CursorAt(p, next), next, p.cur = n)
<1>1. /\ Good(p, staging) /\ Staffed(p) /\ (p.tick => MayTick(p)) /\ clock \in Int
      /\ p.cur \in Nat /\ n \in Nat
  BY HeldFacts
<1>2. p.tick /\ p' = [v EXCEPT !.tick = MayTick(v)] /\ UNCHANGED <<init, shifting, staging, updating, owed, clock>>
  BY DEF Tick, Armed, CursorAt
<1>3. n >= 1
  BY <1>1, <1>2 DEF MayTick
<1> HIDE DEF n
<1>4. next \in 1..n
  BY <1>1, <1>3, NextSlot
<1> HIDE DEF next
<1>5. Good(v, staging) /\ Follows(p, v) /\ Staffed(v) /\ v.cur >= next
  BY <1>1, <1>4, PutAndShow DEF n
<1> HIDE DEF v
<1>6. /\ Good(p', staging) /\ Follows(v, p') /\ p'.tick = MayTick(p')
      /\ p'.loaded = v.loaded /\ p'.staged = v.staged /\ p'.missed = v.missed /\ p'.cur = v.cur
  BY <1>2, <1>5, TickPut
<1>7. Follows(p, p') /\ Staffed(p')
  BY <1>1, <1>5, <1>6, FollowsTrans DEF Staffed
<1>8. Plays(p, p', staging)
  BY <1>1, <1>6, <1>7, FollowsPlays
<1>9. p'.cur >= 1
  <2>1. v.cur \in Nat /\ next \in Nat /\ next >= 1
    BY <1>1, <1>4, <1>5, CursorType
  <2> QED
    BY <1>5, <1>6, <2>1
<1> QED
  BY <1>1, <1>2, <1>6, <1>7, <1>8, <1>9, PlayStep DEF Played

LEMMA TogglePlayGood ==
  ASSUME IInv, TogglePlay
  PROVE  IInv' /\ Played
<1>1. Good(p, staging) /\ Staffed(p) /\ clock \in Int /\ p.run \in BOOLEAN /\ InLoop(Len(p.loaded), p.cur)
  BY HeldFacts
<1>2. UNCHANGED <<init, shifting, staging, updating, owed, clock>>
  BY DEF TogglePlay
<1> DEFINE u == IF p.run THEN [p EXCEPT !.run = FALSE] ELSE [p EXCEPT !.run = TRUE]
<1>3. Good(u, staging) /\ Same(p, u) /\ Staffed(u)
  <2>1. FALSE \in BOOLEAN /\ TRUE \in BOOLEAN
    OBVIOUS
  <2> QED
    BY <1>1, <2>1, RunPut
<1>4. p' = IF p.run THEN StopLoop(u) ELSE StartLoop(u, u.cur)
  BY DEF TogglePlay
<1>5. InLoop(Len(u.loaded), u.cur)
  BY <1>1, <1>3 DEF Same
<1> HIDE DEF u
<1>6. Good(p', staging) /\ Follows(u, p') /\ Staffed(p') /\ (p'.tick => MayTick(p')) /\ p'.cur >= u.cur
  <2>1. CASE p.run
    BY <1>1, <1>3, <1>4, <2>1, StopStep
  <2>2. CASE ~p.run
    BY <1>1, <1>3, <1>4, <1>5, <2>2, StartStep
  <2> QED
    BY <2>1, <2>2
<1>7. Plays(p, p', staging)
  BY <1>3, <1>6, SameRefl DEF Plays
<1> QED
  BY <1>2, <1>3, <1>6, <1>7, PlayStep DEF Played, Same

LEMMA ScrubToGood ==
  ASSUME IInv, NEW slot, slot \in DOMAIN p.loaded, ScrubTo(slot)
  PROVE  IInv' /\ Played
<1> DEFINE v == StopLoop(p)
<1>1. Good(p, staging) /\ Staffed(p) /\ clock \in Int
  BY HeldFacts
<1>2. /\ p' = ShowSlot(CursorAt(v, slot), slot, FALSE)
      /\ UNCHANGED <<init, shifting, staging, updating, owed, clock>>
  BY DEF ScrubTo, CursorAt
<1>3. Good(v, staging) /\ Follows(p, v) /\ Staffed(v) /\ ~v.tick
  BY <1>1, StopStep
<1>4. slot \in 1..Len(p.loaded) /\ Len(p.loaded) \in Nat
  BY <1>1, LoadedFacts
<1> HIDE DEF v
<1>5. slot \in 1..Len(v.loaded)
  <2>1. Len(p.loaded) <= Len(v.loaded) /\ Len(v.loaded) \in Nat
    BY <1>3, LoadedFacts DEF Follows
  <2> QED
    BY <1>4, <2>1
<1>6. Good(p', staging) /\ Follows(v, p') /\ Staffed(p') /\ (p'.tick => v.tick) /\ p'.cur >= slot
  BY <1>1, <1>2, <1>3, <1>5, PutAndShow
<1>7. Follows(p, p')
  BY <1>1, <1>3, <1>6, FollowsTrans
<1>8. Plays(p, p', staging)
  BY <1>1, <1>6, <1>7, FollowsPlays
<1>9. p'.cur >= 1
  <2>1. p'.cur \in Nat
    BY <1>6, CursorType
  <2> QED
    BY <1>4, <1>6, <2>1
<1> QED
  BY <1>1, <1>2, <1>3, <1>6, <1>7, <1>8, <1>9, PlayStep DEF Played

LEMMA ScrubEndGood ==
  ASSUME IInv, ScrubEnd
  PROVE  IInv' /\ Played
<1>1. Good(p, staging) /\ Staffed(p) /\ clock \in Int /\ InLoop(Len(p.loaded), p.cur)
  BY HeldFacts
<1>2. p' = StartLoop(p, p.cur) /\ UNCHANGED <<init, shifting, staging, updating, owed, clock>>
  BY DEF ScrubEnd
<1>3. Good(p', staging) /\ Follows(p, p') /\ Staffed(p') /\ (p'.tick => MayTick(p')) /\ p'.cur >= p.cur
  BY <1>1, <1>2, StartStep
<1>4. Plays(p, p', staging)
  BY <1>1, <1>3, FollowsPlays
<1> QED
  BY <1>1, <1>2, <1>3, <1>4, PlayStep DEF Played

LEMMA SkipNextGood ==
  ASSUME IInv, SkipNext
  PROVE  IInv' /\ Played
<1> DEFINE n == Len(p.loaded)
           next == (p.cur % n) + 1
           u == ShowSlot(CursorAt(p, next), next, FALSE)
           v == StopLoop(u)
<1>1. Good(p, staging) /\ Staffed(p) /\ clock \in Int /\ p.cur \in Nat /\ n \in Nat
  BY HeldFacts
<1>2. /\ n >= 1 /\ p' = [v EXCEPT !.run = FALSE, !.tick = FALSE]
      /\ UNCHANGED <<init, shifting, staging, updating, owed, clock>>
  BY <1>1 DEF SkipNext, CursorAt
<1> HIDE DEF n
<1>3. next \in 1..n
  BY <1>1, <1>2, NextSlot
<1> HIDE DEF next
<1>4. Good(u, staging) /\ Follows(p, u) /\ Staffed(u) /\ u.cur >= next
  BY <1>1, <1>3, PutAndShow DEF n
<1> HIDE DEF u
<1>5. Good(v, staging) /\ Follows(u, v) /\ Staffed(v) /\ v.cur >= u.cur
  BY <1>1, <1>4, StopStep
<1> HIDE DEF v
<1>6. Same(v, p') /\ p'.run = FALSE /\ p'.paused = v.paused /\ p'.tick = FALSE
  <2>1. DOMAIN v = Fields
    BY <1>5 DEF Good
  <2> QED
    BY <1>2, <2>1 DEF Same, Fields
<1>7. v.paused \in BOOLEAN
  BY <1>5 DEF Good, CursorGood
<1>8. Good(p', staging) /\ Staffed(p')
  BY <1>5, <1>6, <1>7, SwitchGood
<1>9. Follows(p, v) /\ Same(p, p)
  BY <1>1, <1>4, <1>5, FollowsTrans, SameRefl
<1>10. Plays(p, p', staging)
  BY <1>1, <1>5, <1>6, <1>9 DEF Plays
<1>11. p'.cur >= 1
  <2>1. u.cur \in Nat /\ v.cur \in Nat /\ next \in Nat /\ next >= 1
    BY <1>1, <1>3, <1>4, <1>5, CursorType
  <2>2. p'.cur = v.cur
    BY <1>6 DEF Same
  <2> QED
    BY <1>4, <1>5, <2>1, <2>2
<1> QED
  BY <1>2, <1>6, <1>8, <1>10, <1>11, PlayStep DEF Played

LEMMA PauseGood ==
  ASSUME IInv, Pause
  PROVE  IInv' /\ Played
<1> DEFINE u == [p EXCEPT !.paused = TRUE]
<1>1. Good(p, staging) /\ Staffed(p) /\ clock \in Int
  BY HeldFacts
<1>2. p' = StopLoop(u) /\ UNCHANGED <<init, shifting, staging, updating, owed, clock>>
  BY DEF Pause
<1>3. Good(u, staging) /\ Same(p, u) /\ Staffed(u)
  BY <1>1, PausePut
<1> HIDE DEF u
<1>4. Good(p', staging) /\ Follows(u, p') /\ Staffed(p') /\ ~p'.tick /\ p'.cur >= u.cur
  BY <1>1, <1>2, <1>3, StopStep
<1>5. Plays(p, p', staging)
  BY <1>3, <1>4, SameRefl DEF Plays
<1> QED
  BY <1>2, <1>3, <1>4, <1>5, PlayStep DEF Played, Same

\* A refresh that a pause had put off may begin.
LEMMA ResumeGood ==
  ASSUME IInv, Resume
  PROVE  IInv' /\ Played
<1> DEFINE v == [p EXCEPT !.paused = FALSE]
<1>1. Good(p, staging) /\ Staffed(p) /\ clock \in Int /\ InLoop(Len(p.loaded), p.cur) /\ ~(~p.paused)
  BY HeldFacts DEF Resume
<1>2. /\ UNCHANGED <<init, shifting, staging, clock>>
      /\ updating' = (updating \/ (owed /\ p.ready /\ ~updating))
      /\ owed' = (owed /\ ~(owed /\ p.ready /\ ~updating))
  BY DEF Resume, Armed
<1>3. p' = v \/ p' = StartLoop(v, v.cur) \/ p' = [v EXCEPT !.tick = MayTick(v)]
  BY DEF Resume, Armed
<1>4. Good(v, staging) /\ Same(p, v) /\ Staffed(v) /\ v.tick = p.tick /\ v.run = p.run /\ ~v.paused
  BY <1>1, PausePut
<1>5. InLoop(Len(v.loaded), v.cur)
  BY <1>1, <1>4 DEF Same
<1>6. v.tick => MayTick(v)
  <2>1. p.tick => MayTick(p)
    BY HeldFacts
  <2> QED
    BY <1>1, <1>4, <2>1 DEF MayTick
<1> HIDE DEF v
<1>7. Good(p', staging) /\ Follows(v, p') /\ Staffed(p') /\ (p'.tick => MayTick(p')) /\ p'.cur >= v.cur
  <2>1. CASE p' = v
    <3>1. Follows(v, v)
      BY <1>4, SwapsRefl DEF Swaps
    <3> QED
      BY <1>4, <1>6, <2>1, <3>1, CursorType
  <2>2. CASE p' = StartLoop(v, v.cur)
    BY <1>1, <1>4, <1>5, <2>2, StartStep
  <2>3. CASE p' = [v EXCEPT !.tick = MayTick(v)]
    <3>1. /\ Good(p', staging) /\ Follows(v, p') /\ p'.tick = MayTick(p') /\ p'.cur = v.cur
          /\ p'.loaded = v.loaded /\ p'.staged = v.staged /\ p'.missed = v.missed
      BY <1>4, <2>3, TickPut
    <3>2. Staffed(p')
      BY <1>4, <3>1 DEF Staffed
    <3>3. v.cur \in Nat
      BY <1>4, CursorType
    <3> QED
      BY <3>1, <3>2, <3>3
  <2> QED
    BY <1>3, <2>1, <2>2, <2>3
<1>8. Plays(p, p', staging)
  BY <1>4, <1>7, SameRefl DEF Plays
<1>9. Held(p', staging, shifting, updating)
  BY <1>7, <1>8, PlaysHeld DEF IInv
<1>10. Loading(init, p')
  BY <1>1, <1>8, PlaysLoading DEF IInv
<1>11. p.ready => p'.ready
  BY <1>1, <1>8, PlaysFacts
<1>12. Held(p', staging', shifting', updating')
  BY <1>2, <1>9, <1>11 DEF Held
<1>13. Loading(init', p')
  BY <1>2, <1>10
<1>14. /\ clock \in Int /\ updating \in BOOLEAN /\ owed \in BOOLEAN
       /\ init.stage # "done" => ~updating /\ ~owed /\ shifting = {} /\ staging = {}
  BY DEF IInv
<1>15. Played
  BY <1>2, <1>4, <1>7, <1>8 DEF Played, Same
<1> QED
  BY <1>2, <1>12, <1>13, <1>14, <1>15 DEF IInv

-----------------------------------------------------------------------------
(* The steps of the initial load keep the invariant.                       *)

LEMMA ReadyPut ==
  ASSUME NEW v, NEW away, Good(v, away), NEW r \in BOOLEAN, v.ready => r, NEW w, w = [v EXCEPT !.ready = r]
  PROVE  /\ Good(w, away)
         /\ w.times = v.times /\ w.img = v.img /\ w.loaded = v.loaded /\ w.cur = v.cur /\ w.now = v.now
         /\ w.staged = v.staged /\ w.missed = v.missed
         /\ w.run = v.run /\ w.paused = v.paused /\ w.tick = v.tick /\ w.ready = r
<1>1. DOMAIN v = Fields
  BY DEF Good
<1>2. /\ DOMAIN w = Fields
      /\ w.times = v.times /\ w.img = v.img /\ w.loaded = v.loaded /\ w.cur = v.cur
      /\ w.prev1 = v.prev1 /\ w.now = v.now /\ w.shown = v.shown
      /\ w.attached = v.attached /\ w.staged = v.staged
      /\ w.ready = r /\ w.run = v.run /\ w.paused = v.paused
      /\ w.tick = v.tick /\ w.missed = v.missed
  BY <1>1 DEF Fields
<1> QED
  BY <1>2 DEF Good, CursorGood

\* While nothing else runs, the fields alone must be good.
LEMMA QuietHeld ==
  ASSUME NEW v, Good(v, {}), v.staged = {}, v.tick => MayTick(v)
  PROVE  Held(v, {}, {}, FALSE)
BY DEF Held, Staffed, Apart

LEMMA QuietStep ==
  ASSUME IInv, init.stage # "done", Good(p', {}), p'.staged = {}, p'.tick => MayTick(p'),
         Loading(init', p'), UNCHANGED <<shifting, staging, updating, owed, clock>>
  PROVE  IInv'
<1>1. /\ clock \in Int /\ updating \in BOOLEAN /\ owed \in BOOLEAN
      /\ ~updating /\ ~owed /\ shifting = {} /\ staging = {} /\ updating = FALSE
  BY DEF IInv
<1>2. Held(p', {}, {}, FALSE)
  BY QuietHeld
<1>3. Held(p', staging', shifting', updating')
  BY <1>1, <1>2
<1> QED
  BY <1>1, <1>3 DEF IInv

\* What ContinueAt starts from: the frames after the k-th have no layer yet.
Continues(v, k, firstShown) ==
  /\ Good(v, {}) /\ v.staged = {} /\ (v.tick => MayTick(v))
  /\ Len(v.times) = Frames
  /\ k = None \/ k \in (init.at + 1)..(Frames + 1)
  /\ \A j \in 1..Frames : j > init.at => v.img[init.order[j]] = None
  /\ firstShown \in BOOLEAN /\ (~firstShown => v.loaded = <<>>)

LEMMA ContinueRequests ==
  ASSUME FrameAssumption, NEW v, NEW k \in 1..Frames, NEW firstShown \in BOOLEAN,
         Continues(v, k, firstShown), ToCome(init, p), Loading(init, p), init.stage = "frames",
         FreshLayers(v, 1), NEW x, x = FreshIn(v), NEW w, w = Request(v, init.order[k], x),
         NEW i, i = [init EXCEPT !.at = k, !.layer = x, !.firstShown = firstShown]
  PROVE  Good(w, {}) /\ w.staged = {} /\ (w.tick => MayTick(w)) /\ Loading(i, w)
<1> DEFINE fi == init.order[k]
<1>1. /\ Good(v, {}) /\ v.staged = {} /\ (v.tick => MayTick(v)) /\ Len(v.times) = Frames
      /\ k \in (init.at + 1)..(Frames + 1) \/ k = None
      /\ \A j \in 1..Frames : j > init.at => v.img[init.order[j]] = None
      /\ ~firstShown => v.loaded = <<>>
  BY DEF Continues
<1>2. /\ init.at \in 1..Frames /\ init.order \in Seq(1..Frames) /\ Len(init.order) = Frames
      /\ \A j, m \in 1..Frames : init.order[j] = init.order[m] => j = m
  BY DEF ToCome
<1>3. Frames \in Nat /\ k > init.at /\ k # None
  <2>1. Frames \in Nat
    BY DEF FrameAssumption, Frames
  <2> QED
    BY <1>1, <1>2, <2>1 DEF None
<1>4. \A j \in 1..Frames : init.order[j] \in 1..Frames
  BY <1>2, SMTT(30)
<1>5. Len(v.img) = Frames
  BY <1>1, LoadedFacts
<1>6. fi \in 1..Len(v.img) /\ v.img[fi] = None
  BY <1>1, <1>3, <1>4, <1>5
<1>7. x \in Free(v)
  BY FreshFacts
<1>a. w = Request(v, fi, x)
  OBVIOUS
<1> HIDE DEF fi
<1>8. /\ Good(w, {})
      /\ w.times = v.times /\ w.loaded = v.loaded /\ w.staged = v.staged
      /\ w.run = v.run /\ w.paused = v.paused /\ w.tick = v.tick
      /\ w.img[fi] = x /\ x # None
      /\ \A n \in 1..Len(v.img) : n # fi => w.img[n] = v.img[n]
  BY <1>1, <1>6, <1>7, <1>a, RequestGood, SMTT(30)
<1>9. w.tick => MayTick(w)
  BY <1>1, <1>8 DEF MayTick
<1>10. /\ DOMAIN i = {"order", "at", "layer", "stage", "firstShown"}
       /\ i.order = init.order /\ i.at = k /\ i.layer = x /\ i.stage = "frames" /\ i.firstShown = firstShown
  BY DEF Loading
<1>11. \A j \in 1..Frames : j > k => w.img[init.order[j]] = None
  <2> SUFFICES ASSUME NEW j \in 1..Frames, j > k PROVE w.img[init.order[j]] = None
    OBVIOUS
  <2>1. j > init.at /\ j # k
    BY <1>2, <1>3
  <2>2. init.order[j] # fi /\ init.order[j] \in 1..Len(v.img)
    BY <1>2, <1>4, <1>5, <2>1 DEF fi
  <2> QED
    BY <1>1, <1>8, <2>1, <2>2
<1>12. fi \notin ToSet(w.loaded)
  BY <1>1, <1>6, <1>8, LoadedFacts
<1>13. ToCome(i, w)
  BY <1>1, <1>2, <1>8, <1>10, <1>11, <1>12 DEF ToCome, fi
<1> QED
  BY <1>1, <1>8, <1>9, <1>10, <1>13 DEF Loading

LEMMA ContinueEnds ==
  ASSUME FrameAssumption, NEW v, NEW k, NEW firstShown \in BOOLEAN,
         Continues(v, k, firstShown), Loading(init, p),
         NEW w, w = [v EXCEPT !.ready = @ \/ (v.loaded # <<>> /\ ~Motion)],
         NEW i, i = [init EXCEPT !.stage = IF Motion /\ firstShown THEN "snapshots" ELSE "done",
                                 !.firstShown = firstShown]
  PROVE  Good(w, {}) /\ w.staged = {} /\ (w.tick => MayTick(w)) /\ Loading(i, w)
<1>1. Good(v, {}) /\ v.staged = {} /\ (v.tick => MayTick(v))
  BY DEF Continues
<1> DEFINE r == v.ready \/ (v.loaded # <<>> /\ ~Motion)
<1>2. r \in BOOLEAN /\ (v.ready => r) /\ w = [v EXCEPT !.ready = r]
  BY <1>1 DEF Good, CursorGood
<1> HIDE DEF r
<1>3. /\ Good(w, {}) /\ w.loaded = v.loaded /\ w.staged = v.staged
      /\ w.run = v.run /\ w.paused = v.paused /\ w.tick = v.tick
  BY <1>1, <1>2, ReadyPut
<1>4. /\ DOMAIN i = {"order", "at", "layer", "stage", "firstShown"}
      /\ i.stage \in {"snapshots", "done"} /\ i.firstShown = firstShown
  BY DEF Loading
<1> QED
  BY <1>1, <1>3, <1>4 DEF MayTick, Loading

LEMMA ContinueGood ==
  ASSUME FrameAssumption, IInv, init.stage = "frames", NEW v, NEW k, NEW firstShown \in BOOLEAN,
         Continues(v, k, firstShown), ContinueAt(v, k, firstShown),
         UNCHANGED <<shifting, staging, updating, owed, clock>>
  PROVE  IInv'
<1>1. Loading(init, p) /\ ToCome(init, p) /\ init.stage # "done"
  BY DEF IInv, Loading
<1>2. Good(p', {}) /\ p'.staged = {} /\ (p'.tick => MayTick(p')) /\ Loading(init', p')
  <2>1. CASE k = None \/ k > Frames
    <3>1. /\ p' = [v EXCEPT !.ready = @ \/ (v.loaded # <<>> /\ ~Motion)]
          /\ init' = [init EXCEPT !.stage = IF Motion /\ firstShown THEN "snapshots" ELSE "done",
                                  !.firstShown = firstShown]
      BY <2>1 DEF ContinueAt
    <3> QED
      BY <1>1, <3>1, ContinueEnds, ZenonT(40)
  <2>2. CASE ~(k = None \/ k > Frames)
    <3>1. k \in 1..Frames
      <4>1. init.at \in 1..Frames /\ k \in (init.at + 1)..(Frames + 1)
        BY <1>1, <2>2 DEF ToCome, Continues
      <4>2. Frames \in Nat
        BY DEF FrameAssumption, Frames
      <4> QED
        BY <2>2, <4>1, <4>2
    <3> DEFINE x == FreshIn(v)
    <3>2. /\ FreshLayers(v, 1) /\ p' = Request(v, init.order[k], x)
          /\ init' = [init EXCEPT !.at = k, !.layer = x, !.firstShown = firstShown]
      BY <2>2 DEF ContinueAt
    <3>3. x = FreshIn(v)
      OBVIOUS
    <3> HIDE DEF x
    <3> QED
      BY <1>1, <3>1, <3>2, <3>3, ContinueRequests
  <2> QED
    BY <2>1, <2>2
<1> QED
  BY <1>1, <1>2, QuietStep

LEMMA LoadFacts ==
  ASSUME FrameAssumption, IInv, init.stage = "frames"
  PROVE  /\ Good(p, {}) /\ p.staged = {} /\ (p.tick => MayTick(p)) /\ clock \in Int
         /\ ToCome(init, p) /\ init.firstShown \in BOOLEAN /\ Frames \in Nat
         /\ init.order[init.at] \in 1..Len(p.img) /\ p.img[init.order[init.at]] # None
         /\ init.order[init.at] \notin ToSet(p.loaded)
         /\ init.layer \in LayerIds /\ Len(p.img) = Frames /\ Len(p.times) = Frames /\ init.at \in 1..Frames
<1>1. /\ Good(p, {}) /\ p.staged = {} /\ (p.tick => MayTick(p)) /\ clock \in Int
      /\ ToCome(init, p) /\ init.firstShown \in BOOLEAN
  BY DEF IInv, Held, Loading
<1>2. /\ init.at \in 1..Frames /\ init.order \in Seq(1..Frames) /\ Len(init.order) = Frames
      /\ p.img[init.order[init.at]] = init.layer /\ init.layer # None
      /\ init.order[init.at] \notin ToSet(p.loaded) /\ Len(p.times) = Frames
  BY <1>1 DEF ToCome
<1>3. Frames \in Nat
  BY DEF FrameAssumption, Frames
<1>4. Len(p.img) = Frames /\ p.img \in Seq(LayerIds \cup {None})
  BY <1>1, <1>2, LoadedFacts
<1>5. init.order[init.at] \in 1..Len(p.img)
  BY <1>2, <1>4
<1>6. p.img[init.order[init.at]] \in LayerIds \cup {None}
  BY <1>4, <1>5
<1> QED
  BY <1>1, <1>2, <1>3, <1>4, <1>5, <1>6

LEMMA InsertFrameGood ==
  ASSUME NEW v, NEW away, Good(v, away), clock \in Int, NEW fi \in 1..Len(v.img),
         v.img[fi] # None, fi \notin ToSet(v.loaded), NEW w, w = InsertFrame(v, fi)
  PROVE  Inserts(v, fi, w, away)
<1> DEFINE j == Joined(v, fi)
           pos == InsertPosition(v.loaded, fi)
<1>1. w = AfterFrameInserted(j, pos)
  BY DEF InsertFrame, Joined
<1>2. j = Joined(v, fi) /\ pos = InsertPosition(v.loaded, fi)
  OBVIOUS
<1> HIDE DEF j, pos
<1> QED
  BY <1>1, <1>2, InsertGood

\* With nothing to swap in, a frame that joins leaves the other frames alone.
LEMMA InsertIdle ==
  ASSUME NEW v, NEW away, Good(v, away), v.staged = {}, NEW fi, NEW w, Inserts(v, fi, w, away),
         v.tick => MayTick(v)
  PROVE  /\ Good(w, away) /\ w.times = v.times /\ w.img = v.img /\ w.staged = {} /\ (w.tick => MayTick(w))
         /\ Len(w.loaded) = Len(v.loaded) + 1 /\ ToSet(w.loaded) = ToSet(v.loaded) \cup {fi}
         /\ w.now \in {v.now, NearestIndex(v.times, clock)}
<1>1. PICK j : Good(j, away) /\ Adds(v, fi, j) /\ j.now = v.now /\ Follows(j, w)
  BY DEF Inserts
<1>2. Good(w, away)
  BY DEF Inserts
<1>3. Idle(j)
  BY <1>1 DEF Adds, Idle
<1>4. /\ w.img = v.img /\ w.loaded = j.loaded /\ w.times = v.times /\ w.staged = {}
      /\ w.now \in {v.now, NearestIndex(v.times, clock)}
  BY <1>1, <1>3 DEF Adds, Follows
<1>5. j.tick => MayTick(j)
  <2>1. Len(v.loaded) \in Nat /\ Len(j.loaded) = Len(v.loaded) + 1
    BY <1>1, LoadedFacts DEF Adds
  <2> QED
    BY <1>1, <2>1 DEF Adds, MayTick
<1>6. w.tick => MayTick(w)
  BY <1>1, <1>2, <1>5, TickFollows
<1>7. Len(j.loaded) = Len(v.loaded) + 1 /\ ToSet(j.loaded) = ToSet(v.loaded) \cup {fi}
  BY <1>1 DEF Adds
<1> QED
  BY <1>2, <1>4, <1>6, <1>7

\* The state the frame joins: the first one is on screen already.
Before(fi) ==
  IF init.firstShown THEN p ELSE Preview(p, init.layer, InsertPosition(p.loaded, fi))

LEMMA BeforeGood ==
  ASSUME FrameAssumption, IInv, init.stage = "frames", NEW fi \in Int, NEW v, v = Before(fi)
  PROVE  /\ Good(v, {})
         /\ v.times = p.times /\ v.img = p.img /\ v.loaded = p.loaded /\ v.cur = p.cur /\ v.now = p.now
         /\ v.attached = p.attached /\ v.staged = p.staged /\ v.ready = p.ready /\ v.run = p.run
         /\ v.paused = p.paused /\ v.tick = p.tick /\ v.missed = p.missed
<1>1. Good(p, {}) /\ init.layer \in LayerIds /\ init.firstShown \in BOOLEAN
      /\ (~init.firstShown => p.loaded = <<>>)
  BY LoadFacts DEF ToCome
<1>2. CASE init.firstShown
  BY <1>1, <1>2 DEF Before
<1>3. CASE ~init.firstShown
  <2>1. p.loaded = <<>>
    BY <1>1, <1>3
  <2>2. v = Preview(p, init.layer, 1)
    BY <1>3, <2>1, FirstPosition DEF Before
  <2> DEFINE layer == init.layer
  <2>3. layer \in LayerIds /\ v = Preview(p, layer, 1)
    BY <1>1, <2>2
  <2> HIDE DEF layer
  <2>4. Good(v, {})
    BY <1>1, <2>1, <2>3, PreviewGood
  <2> QED
    BY <1>1, <2>1, <2>3, PreviewGood
<1> QED
  BY <1>2, <1>3

LEMMA InitFrameLoadsGood ==
  ASSUME FrameAssumption, IInv, InitFrameLoads
  PROVE  IInv'
<1> DEFINE fi == init.order[init.at]
           v == Before(fi)
           w == InsertFrame(v, fi)
<1>1. /\ init.stage = "frames" /\ ContinueAt(w, init.at + 1, TRUE)
      /\ UNCHANGED <<shifting, staging, updating, owed, clock>>
  BY DEF InitFrameLoads, Before, Preview
<1>2. /\ Good(p, {}) /\ p.staged = {} /\ (p.tick => MayTick(p)) /\ clock \in Int
      /\ ToCome(init, p) /\ Frames \in Nat /\ fi \in 1..Len(p.img) /\ p.img[fi] # None
      /\ fi \notin ToSet(p.loaded) /\ Len(p.img) = Frames /\ Len(p.times) = Frames /\ init.at \in 1..Frames
  BY <1>1, LoadFacts
<1> HIDE DEF fi
<1>3. fi \in Int
  BY <1>2
<1>4. /\ Good(v, {})
      /\ v.times = p.times /\ v.img = p.img /\ v.loaded = p.loaded /\ v.staged = p.staged
      /\ v.run = p.run /\ v.paused = p.paused /\ v.tick = p.tick
  BY <1>1, <1>3, BeforeGood
<1> HIDE DEF v
<1>5. Inserts(v, fi, w, {})
  BY <1>2, <1>4, InsertFrameGood
<1>6. v.tick => MayTick(v)
  BY <1>2, <1>4 DEF MayTick
<1>7. Good(w, {}) /\ w.times = v.times /\ w.img = v.img /\ w.staged = {} /\ (w.tick => MayTick(w))
  BY <1>2, <1>4, <1>5, <1>6, InsertIdle
<1> HIDE DEF w
<1>8. init.at + 1 \in (init.at + 1)..(Frames + 1)
  BY <1>2
<1>9. \A j \in 1..Frames : j > init.at => w.img[init.order[j]] = None
  BY <1>2, <1>4, <1>7 DEF ToCome
<1>10. Continues(w, init.at + 1, TRUE)
  BY <1>2, <1>4, <1>7, <1>8, <1>9 DEF Continues
<1> QED
  BY <1>1, <1>10, ContinueGood

LEMMA InitFrameFailsGood ==
  ASSUME FrameAssumption, IInv, InitFrameFails
  PROVE  IInv'
<1> DEFINE fi == init.order[init.at]
           v == Failed(p, fi)
           k == ResumeAfterFailure(init.order, init.at)
<1>1. /\ init.stage = "frames" /\ ContinueAt(v, k, init.firstShown)
      /\ UNCHANGED <<shifting, staging, updating, owed, clock>>
  BY DEF InitFrameFails, Failed
<1>2. /\ Good(p, {}) /\ p.staged = {} /\ (p.tick => MayTick(p)) /\ clock \in Int
      /\ ToCome(init, p) /\ Frames \in Nat /\ fi \in 1..Len(p.img) /\ init.firstShown \in BOOLEAN
      /\ fi \notin ToSet(p.loaded) /\ Len(p.img) = Frames /\ Len(p.times) = Frames /\ init.at \in 1..Frames
  BY <1>1, LoadFacts
<1>3. /\ init.order \in Seq(1..Frames) /\ Len(init.order) = Frames
      /\ \A j, m \in 1..Frames : init.order[j] = init.order[m] => j = m
      /\ \A j \in 1..Frames : j > init.at => p.img[init.order[j]] = None
      /\ ~init.firstShown => p.loaded = <<>>
  BY <1>2 DEF ToCome
<1>4. k = None \/ k \in (init.at + 1)..Frames
  BY <1>2, <1>3, ResumeFacts
<1>5. k = None \/ k \in (init.at + 1)..(Frames + 1)
  BY <1>2, <1>4
<1> HIDE DEF k
<1>6. \A j \in 1..Frames : j > init.at => init.order[j] # fi /\ init.order[j] \in 1..Len(p.img)
  <2> SUFFICES ASSUME NEW j \in 1..Frames, j > init.at
               PROVE  init.order[j] # fi /\ init.order[j] \in 1..Len(p.img)
    OBVIOUS
  <2>1. j # init.at
    BY <1>2
  <2> QED
    BY <1>2, <1>3, <2>1
<1> HIDE DEF fi
<1>7. /\ Good(v, {})
      /\ v.times = p.times /\ v.loaded = p.loaded /\ v.staged = p.staged
      /\ v.run = p.run /\ v.paused = p.paused /\ v.tick = p.tick
      /\ \A i \in 1..Len(p.img) : i # fi => v.img[i] = p.img[i]
  BY <1>2, FailedGood
<1> HIDE DEF v
<1>8. v.tick => MayTick(v)
  BY <1>2, <1>7 DEF MayTick
<1>9. \A j \in 1..Frames : j > init.at => v.img[init.order[j]] = None
  BY <1>3, <1>6, <1>7
<1>10. Continues(v, k, init.firstShown)
  BY <1>2, <1>3, <1>5, <1>7, <1>8, <1>9 DEF Continues
<1> QED
  BY <1>1, <1>2, <1>10, ContinueGood

\* While nothing is staged, starting and showing keep what QuietStep asks for.
Calm(v) == Good(v, {}) /\ v.staged = {} /\ (v.tick => MayTick(v))

LEMMA CalmFacts ==
  ASSUME NEW v, Calm(v)
  PROVE  Good(v, {}) /\ Staffed(v) /\ InLoop(Len(v.loaded), v.cur) /\ v.staged = {} /\ v.cur \in Nat
BY DEF Calm, Staffed, Good, CursorGood, InLoop

LEMMA CalmStop ==
  ASSUME NEW v, Calm(v), clock \in Int, NEW w, w = StopLoop(v)
  PROVE  Calm(w) /\ ~w.tick /\ w.loaded = v.loaded /\ w.cur >= v.cur
<1>1. Good(v, {}) /\ Staffed(v) /\ Idle(v)
  BY CalmFacts DEF Idle
<1>2. Good(w, {}) /\ Follows(v, w) /\ ~w.tick /\ w.cur >= v.cur
  BY <1>1, StopStep
<1> QED
  BY <1>1, <1>2 DEF Calm, Follows

LEMMA CalmStart ==
  ASSUME NEW v, Calm(v), clock \in Int, NEW slot, slot = v.cur, NEW w, w = StartLoop(v, slot)
  PROVE  Calm(w) /\ w.cur >= v.cur
<1>1. Good(v, {}) /\ Staffed(v) /\ InLoop(Len(v.loaded), slot) /\ v.staged = {}
  BY CalmFacts
<1>2. Good(w, {}) /\ Follows(v, w) /\ (w.tick => MayTick(w)) /\ w.cur >= slot
  BY <1>1, StartStep
<1> QED
  BY <1>1, <1>2 DEF Calm, Follows

LEMMA CalmShow ==
  ASSUME NEW v, Calm(v), clock \in Int, NEW slot, NEW snap, NEW w, w = ShowSlot(v, slot, snap)
  PROVE  Calm(w) /\ w.cur >= v.cur
<1>1. Good(v, {}) /\ Staffed(v) /\ v.staged = {} /\ (v.tick => MayTick(v))
  BY CalmFacts DEF Calm
<1>2. Good(w, {}) /\ Swaps(v, w)
  BY <1>1, ShowSlotGood
<1>3. Follows(v, w) /\ w.cur >= v.cur
  BY <1>1, <1>2 DEF Swaps
<1>4. w.tick => MayTick(w)
  BY <1>1, <1>2, <1>3, TickFollows
<1> QED
  BY <1>1, <1>2, <1>3, <1>4 DEF Calm, Follows

LEMMA InitDedupsCalm ==
  ASSUME FrameAssumption, IInv, InitDedups
  PROVE  Calm(p') /\ (p.cur >= 1 => p'.cur >= 1)
<1> DEFINE running == p.run /\ p.ready /\ Len(p.loaded) >= 2
           v == IF running THEN StopLoop(p) ELSE p
           kept(drop) == Kept(v.loaded, ToSet(v.loaded) \ {v.loaded[s] : s \in drop \ {1}})
           w(drop) == IF Len(kept(drop)) < Len(v.loaded) THEN Dedup(v, kept(drop)) ELSE v
           shown(drop) == IF running /\ Len(w(drop).loaded) >= 2 THEN StartLoop(w(drop), w(drop).cur)
                          ELSE IF Len(kept(drop)) < Len(v.loaded) THEN ShowSlot(w(drop), w(drop).cur, TRUE)
                          ELSE w(drop)
<1>1. Calm(p) /\ clock \in Int /\ p.cur \in Nat
  BY HeldFacts, ZenonT(40) DEF IInv, Held, Loading, Calm, InitDedups
<1>2. PICK drop \in SUBSET DOMAIN p.loaded : p' = [shown(drop) EXCEPT !.ready = TRUE]
  BY DEF InitDedups
<1>3. Calm(v) /\ ~v.tick /\ v.loaded = p.loaded /\ v.cur >= p.cur
  <2>1. CASE running
    BY <1>1, <2>1, CalmStop
  <2>2. CASE ~running
    <3>1. ~p.tick
      BY <1>1, <2>2 DEF Calm, MayTick, Good, CursorGood
    <3> QED
      BY <1>1, <2>2, <3>1
  <2> QED
    BY <2>1, <2>2
<1> HIDE DEF running, v
<1> DEFINE k == kept(drop)
           x == w(drop)
           y == shown(drop)
<1>4. k = Kept(v.loaded, ToSet(v.loaded) \ {v.loaded[s] : s \in drop \ {1}})
      /\ drop \subseteq DOMAIN v.loaded
  BY <1>3
<1>5. x = IF Len(k) < Len(v.loaded) THEN Dedup(v, k) ELSE v
  OBVIOUS
<1>6. y = x \/ y = StartLoop(x, x.cur) \/ y = ShowSlot(x, x.cur, TRUE)
  OBVIOUS
<1>7. p' = [y EXCEPT !.ready = TRUE]
  BY <1>2
<1> HIDE DEF k, x, y
<1>8. Calm(x) /\ (v.cur >= 1 => x.cur >= 1)
  <2>1. CASE Len(k) < Len(v.loaded)
    <3>1. Good(v, {})
      BY <1>3 DEF Calm
    <3>2. v.loaded # <<>>
      <4>1. Len(v.loaded) \in Nat /\ v.loaded \in Seq(Int)
        BY <3>1, LoadedFacts
      <4>2. Len(k) \in Nat
        <5>1. k \in Seq(Int)
          BY <1>4, <4>1, KeptFacts
        <5> QED
          BY <5>1
      <4> QED
        BY <2>1, <4>1, <4>2
    <3>3. Keeps(v, k)
      BY <1>4, <3>1, <3>2, KeepsFacts
    <3>4. x = Dedup(v, k)
      BY <1>5, <2>1
    <3>5. Good(x, {}) /\ x.cur >= 1 /\ x.staged = v.staged /\ x.tick = v.tick
      BY <1>1, <3>1, <3>3, <3>4, DedupGood
    <3> QED
      BY <1>3, <3>5 DEF Calm
  <2>2. CASE ~(Len(k) < Len(v.loaded))
    BY <1>3, <1>5, <2>2
  <2> QED
    BY <2>1, <2>2
<1>9. Calm(y) /\ (v.cur >= 1 => y.cur >= 1)
  <2>1. CASE y = x
    BY <1>8, <2>1
  <2>2. CASE y = StartLoop(x, x.cur)
    <3>1. Calm(y) /\ y.cur >= x.cur
      BY <1>1, <1>8, <2>2, CalmStart
    <3>2. x.cur \in Nat /\ y.cur \in Nat
      BY <1>8, <3>1, CalmFacts
    <3> QED
      BY <1>8, <3>1, <3>2
  <2>3. CASE y = ShowSlot(x, x.cur, TRUE)
    <3>1. Calm(y) /\ y.cur >= x.cur
      BY <1>1, <1>8, <2>3, CalmShow
    <3>2. x.cur \in Nat /\ y.cur \in Nat
      BY <1>8, <3>1, CalmFacts
    <3> QED
      BY <1>8, <3>1, <3>2
  <2> QED
    BY <1>6, <2>1, <2>2, <2>3
<1>10. Good(y, {}) /\ y.staged = {} /\ (y.tick => MayTick(y)) /\ TRUE \in BOOLEAN /\ (y.ready => TRUE)
  BY <1>9 DEF Calm
<1>11. /\ Good(p', {}) /\ p'.loaded = y.loaded /\ p'.cur = y.cur /\ p'.staged = y.staged
       /\ p'.run = y.run /\ p'.paused = y.paused /\ p'.tick = y.tick
  BY <1>7, <1>10, ReadyPut
<1>12. Calm(p')
  BY <1>10, <1>11 DEF Calm, MayTick
<1>13. p.cur >= 1 => v.cur >= 1
  BY <1>1, <1>3, CalmFacts
<1> QED
  BY <1>9, <1>11, <1>12, <1>13, SMTT(30)

LEMMA InitDedupsGood ==
  ASSUME FrameAssumption, IInv, InitDedups
  PROVE  IInv'
<1>1. Calm(p')
  BY InitDedupsCalm, SMTT(30)
<1>2. /\ init.stage = "snapshots" /\ init' = [init EXCEPT !.stage = "done"]
      /\ UNCHANGED <<shifting, staging, updating, owed, clock>>
  BY DEF InitDedups
<1>3. Loading(init, p)
  BY DEF IInv
<1>4. /\ DOMAIN init' = {"order", "at", "layer", "stage", "firstShown"}
      /\ init'.stage = "done" /\ init'.firstShown = init.firstShown
  BY <1>2, <1>3 DEF Loading
<1>5. Loading(init', p')
  BY <1>1, <1>3, <1>4 DEF Loading, Calm
<1> QED
  BY <1>1, <1>2, <1>5, QuietStep DEF Calm

LEMMA ClockAdvancesGood ==
  ASSUME IInv, ClockAdvances
  PROVE  IInv'
<1>1. clock' \in Int
  BY DEF IInv, ClockAdvances
<1>2. UNCHANGED <<p, init, shifting, staging, updating, owed>>
  BY DEF ClockAdvances
<1> QED
  BY <1>1, <1>2 DEF IInv, Held, Good, FramesGood, LayersGood, CursorGood, Staffed, MayTick, Apart, Loading, ToCome, LayersOf

LEMMA UpdateDueGood ==
  ASSUME IInv, UpdateDue
  PROVE  IInv'
<1>1. /\ init.stage = "done" /\ p.ready /\ updating' = ~p.paused /\ owed' = (owed \/ p.paused)
      /\ UNCHANGED <<p, init, shifting, staging, clock>>
  BY DEF UpdateDue
<1>2. p.paused \in BOOLEAN
  BY HeldFacts
<1>3. Held(p, staging, shifting, updating')
  BY <1>1 DEF IInv, Held
<1> QED
  BY <1>1, <1>2, <1>3 DEF IInv

LEMMA UpdateFailsGood ==
  ASSUME IInv, UpdateFails
  PROVE  IInv'
<1>1. updating' = FALSE /\ UNCHANGED <<p, init, shifting, staging, owed, clock>>
  BY DEF UpdateFails
<1>2. Held(p, staging, shifting, updating')
  BY <1>1 DEF IInv, Held
<1> QED
  BY <1>1, <1>2 DEF IInv

-----------------------------------------------------------------------------
(* The steps of a refresh keep the invariant.                              *)

\* A replacement that has loaded takes the place of an older one for its time;
\* one that failed leaves the map.
Superseded(staged, ok) == {s \in staged : \E t \in ok : t.time = s.time}

RenewedStaged(staged, ok) == (staged \ Superseded(staged, ok)) \cup ok

RenewedAttached(attached, staged, away, ok) ==
  attached \ (LayersOf(away \ ok) \cup LayersOf(Superseded(staged, ok)))

Renewed(v, away, ok) ==
  LET failed == {s.layer : s \in away \ ok}
      replaced == {s \in v.staged : \E t \in ok : t.time = s.time}
  IN  [v EXCEPT !.attached = @ \ (failed \cup {s.layer : s \in replaced}),
                !.staged = (@ \ replaced) \cup ok]

\* The layers and the batch a settled one leaves.
LEMMA RenewedLayers ==
  ASSUME NEW img, NEW attached, NEW staged, NEW away, LayersGood(img, attached, staged, away),
         NEW ok, ok \subseteq away,
         NEW staged2, staged2 = RenewedStaged(staged, ok),
         NEW attached2, attached2 = RenewedAttached(attached, staged, away, ok)
  PROVE  LayersGood(img, attached2, staged2, {}) /\ LayersOf(staged2) \subseteq LayersOf(staged) \cup LayersOf(away)
<1> DEFINE replaced == Superseded(staged, ok)
<1>a. /\ staged2 = (staged \ replaced) \cup ok
      /\ attached2 = attached \ (LayersOf(away \ ok) \cup LayersOf(replaced))
  BY DEF RenewedStaged, RenewedAttached
<1>6. replaced \subseteq staged /\ \A s \in staged \ replaced, t \in ok : s.time # t.time
  BY DEF Superseded
<1> HIDE DEF replaced
<1>1. /\ attached \subseteq LayerIds \ {None}
      /\ attached = (ToSet(img) \ {None}) \cup LayersOf(staged) \cup LayersOf(away)
      /\ \A i, j \in 1..Len(img) : img[i] = img[j] /\ img[i] # None => i = j
      /\ Batch(staged) /\ Batch(away)
      /\ ToSet(img) \cap (LayersOf(staged) \cup LayersOf(away)) = {}
      /\ LayersOf(staged) \cap LayersOf(away) = {}
  BY DEF LayersGood
<1>2. \A S, x : x \in LayersOf(S) <=> \E s \in S : x = s.layer
  BY DEF LayersOf
<1>3. /\ \A s, t \in staged : s.time = t.time \/ s.layer = t.layer => s = t
      /\ \A s, t \in away : s.time = t.time \/ s.layer = t.layer => s = t
      /\ \A s \in staged \cup away : s.time \in Int /\ s.layer \in LayerIds \ {None}
  BY <1>1 DEF Batch
<1>4. \A s \in staged, t \in away : s.layer # t.layer
  BY <1>1, <1>2
<1>5. \A s \in staged2 : s \in ok \/ (s \in staged /\ s \notin replaced)
  BY <1>a
<1>7. Batch(staged2)
  <2>1. \A s \in staged2 : s.time \in Int /\ s.layer \in LayerIds \ {None}
    BY <1>3, <1>5
  <2>2. ASSUME NEW s \in staged2, NEW t \in staged2, s.time = t.time \/ s.layer = t.layer PROVE s = t
    <3>1. CASE s \in ok /\ t \in ok
      BY <1>3, <2>2, <3>1
    <3>2. CASE s \in staged \ replaced /\ t \in staged \ replaced
      BY <1>3, <2>2, <3>2
    <3>3. CASE s \in staged \ replaced /\ t \in ok
      BY <1>4, <1>6, <2>2, <3>3
    <3>4. CASE t \in staged \ replaced /\ s \in ok
      BY <1>4, <1>6, <2>2, <3>4
    <3> QED
      BY <1>5, <3>1, <3>2, <3>3, <3>4
  <2> QED
    BY <2>1, <2>2 DEF Batch
<1>8. LayersOf(staged2) \subseteq LayersOf(staged) \cup LayersOf(away)
  BY <1>2, <1>5
<1>9. attached2 = (ToSet(img) \ {None}) \cup LayersOf(staged2)
  <2>1. ASSUME NEW x \in attached2 PROVE x \in (ToSet(img) \ {None}) \cup LayersOf(staged2)
    <3>1. x \in attached /\ x \notin LayersOf(away \ ok) /\ x \notin LayersOf(replaced)
      BY <1>a, <2>1
    <3>2. ASSUME x \in LayersOf(staged) PROVE x \in LayersOf(staged2)
      BY <1>2, <1>a, <3>1, <3>2
    <3>3. ASSUME x \in LayersOf(away) PROVE x \in LayersOf(staged2)
      BY <1>2, <1>a, <3>1, <3>3
    <3> QED
      BY <1>1, <3>1, <3>2, <3>3
  <2>2. ASSUME NEW x \in ToSet(img) \ {None} PROVE x \in attached2
    <3>1. x \in attached /\ x \notin LayersOf(staged) /\ x \notin LayersOf(away)
      BY <1>1
    <3>2. LayersOf(away \ ok) \subseteq LayersOf(away) /\ LayersOf(replaced) \subseteq LayersOf(staged)
      BY <1>6 DEF LayersOf
    <3> QED
      BY <1>a, <3>1, <3>2
  <2>3. ASSUME NEW x \in LayersOf(staged2) PROVE x \in attached2
    <3>1. PICK s \in staged2 : x = s.layer
      BY <1>2, <2>3
    <3>2. x \in attached
      BY <1>1, <1>8, <2>3
    <3>3. x \notin LayersOf(away \ ok)
      <4> SUFFICES ASSUME NEW t \in away \ ok, x = t.layer PROVE FALSE
        BY <1>2
      <4>1. s \notin staged
        BY <1>4, <3>1
      <4>2. s \in ok
        BY <1>5, <4>1
      <4> QED
        BY <1>3, <3>1, <4>2
    <3>4. x \notin LayersOf(replaced)
      <4> SUFFICES ASSUME NEW t \in replaced, x = t.layer PROVE FALSE
        BY <1>2
      <4>1. t \in staged
        BY <1>6
      <4>2. s \notin away
        BY <1>4, <3>1, <4>1
      <4>3. s \in staged /\ s \notin replaced
        BY <1>5, <4>2
      <4> QED
        BY <1>3, <3>1, <4>1, <4>3
    <3> QED
      BY <1>a, <3>2, <3>3, <3>4
  <2> QED
    BY <2>1, <2>2, <2>3
<1>10. LayersOf({}) = {} /\ Batch({})
  BY DEF LayersOf, Batch
<1>11. attached2 \subseteq LayerIds \ {None} /\ ToSet(img) \cap LayersOf(staged2) = {}
  BY <1>1, <1>8, <1>a
<1> QED
  BY <1>1, <1>7, <1>8, <1>9, <1>10, <1>11 DEF LayersGood

LEMMA RenewedGood ==
  ASSUME NEW v, NEW away, Good(v, away), NEW ok, ok \subseteq away, NEW w, w = Renewed(v, away, ok)
  PROVE  /\ Good(w, {})
         /\ w.times = v.times /\ w.img = v.img /\ w.loaded = v.loaded /\ w.cur = v.cur /\ w.now = v.now
         /\ w.missed = v.missed /\ w.ready = v.ready /\ w.run = v.run /\ w.paused = v.paused /\ w.tick = v.tick
         /\ LayersOf(w.staged) \subseteq LayersOf(v.staged) \cup LayersOf(away)
<1> DEFINE staged == RenewedStaged(v.staged, ok)
           attached == RenewedAttached(v.attached, v.staged, away, ok)
<1>1. DOMAIN v = Fields
  BY DEF Good
<1>2. w = [v EXCEPT !.attached = attached, !.staged = staged]
  BY DEF Renewed, RenewedStaged, RenewedAttached, LayersOf, Superseded
<1> HIDE DEF staged, attached
<1>3. LayersGood(v.img, attached, staged, {}) /\ LayersOf(staged) \subseteq LayersOf(v.staged) \cup LayersOf(away)
  BY RenewedLayers DEF Good, staged, attached
<1>4. /\ DOMAIN w = Fields
      /\ w.times = v.times /\ w.img = v.img /\ w.loaded = v.loaded /\ w.cur = v.cur
      /\ w.prev1 = v.prev1 /\ w.now = v.now /\ w.shown = v.shown
      /\ w.attached = attached /\ w.staged = staged
      /\ w.ready = v.ready /\ w.run = v.run /\ w.paused = v.paused
      /\ w.tick = v.tick /\ w.missed = v.missed
  BY <1>1, <1>2 DEF Fields
<1> QED
  BY <1>3, <1>4 DEF Good, CursorGood

\* The batch settles and what may be swapped in is.
LEMMA StagingSettlesFacts ==
  ASSUME IInv, NEW ok, ok \subseteq staging, StagingSettles(ok), NEW v, v = Renewed(p, staging, ok)
  PROVE  /\ Good(v, {}) /\ v.times = p.times /\ v.loaded = p.loaded /\ v.cur = p.cur
         /\ Good(p', {}) /\ Swaps(v, p') /\ Staffed(p')
         /\ IInv'
<1>1. Good(p, staging) /\ clock \in Int /\ (p.tick => MayTick(p)) /\ Held(p, staging, shifting, updating)
  BY HeldFacts DEF IInv
<1>2. /\ Good(v, {})
      /\ v.times = p.times /\ v.img = p.img /\ v.loaded = p.loaded /\ v.cur = p.cur
      /\ v.ready = p.ready /\ v.run = p.run /\ v.paused = p.paused /\ v.tick = p.tick
      /\ LayersOf(v.staged) \subseteq LayersOf(p.staged) \cup LayersOf(staging)
  BY <1>1, RenewedGood
<1>3. /\ staging # {} /\ staging' = {} /\ p' = SwapStaged(v, v.cur, MayTick(v), AfterFrameInserted)
      /\ UNCHANGED <<init, shifting, updating, owed, clock>>
  BY DEF StagingSettles, Renewed, SwapStagedFrames
<1>4. Settles(v, MayTick(v), p', {})
  BY <1>1, <1>2, <1>3, SwapStagedGood
<1>5. Good(p', {}) /\ Swaps(v, p') /\ Follows(v, p') /\ (~MayTick(v) => Idle(p'))
  BY <1>4 DEF Settles, Swaps
<1>6. Len(v.loaded) \in Nat /\ Len(p'.loaded) \in Nat
  BY <1>2, <1>5, LoadedFacts
<1>7. Staffed(p')
  <2>1. CASE MayTick(v)
    BY <1>5, <1>6, <2>1 DEF Follows, MayTick, Staffed
  <2>2. CASE ~MayTick(v)
    BY <1>5, <2>2 DEF Idle, Staffed
  <2> QED
    BY <2>1, <2>2
<1>8. v.tick => MayTick(v)
  BY <1>1, <1>2 DEF MayTick
<1>9. p'.tick => MayTick(p')
  BY <1>2, <1>5, <1>8, TickFollows
<1>10. /\ shifting \subseteq LayerIds \ {None} /\ Apart(p, shifting)
       /\ shifting \cap (LayersOf(p.staged) \cup LayersOf(staging)) = {}
       /\ updating \/ shifting # {} => p.ready
  BY <1>1 DEF Held
<1>11. Apart(v, shifting) /\ shifting \cap LayersOf(v.staged) = {}
  BY <1>2, <1>10 DEF Apart
<1>12. Plays(v, p', {})
  BY <1>2, <1>5, FollowsPlays
<1>13. Apart(p', shifting)
  BY <1>2, <1>11, <1>12, PlaysApart
<1>14. p'.staged \subseteq v.staged /\ (v.ready => p'.ready)
  BY <1>5 DEF Follows
<1>15. shifting \cap (LayersOf(p'.staged) \cup LayersOf({})) = {}
  BY <1>11, <1>14 DEF LayersOf
<1>16. Held(p', {}, shifting, updating)
  BY <1>2, <1>5, <1>7, <1>9, <1>10, <1>13, <1>14, <1>15 DEF Held
<1>17. init.stage = "done" /\ Loading(init, p)
  BY <1>3 DEF IInv
<1>18. Loading(init, p')
  BY <1>17 DEF Loading
<1>19. Held(p', staging', shifting', updating') /\ Loading(init', p')
  BY <1>3, <1>16, <1>18
<1>20. IInv'
  BY <1>3, <1>17, <1>19 DEF IInv
<1> QED
  BY <1>2, <1>5, <1>7, <1>20

LEMMA StagingSettlesGood ==
  ASSUME IInv, NEW ok, ok \subseteq staging, StagingSettles(ok)
  PROVE  IInv'
<1> DEFINE v == Renewed(p, staging, ok)
<1>1. v = Renewed(p, staging, ok)
  OBVIOUS
<1> HIDE DEF v
<1> QED
  BY <1>1, StagingSettlesFacts

\* The layer a shifted-in frame awaited: its frame joins the loop, or loses it.
Settled(v, layer, ok) ==
  LET fi == PositionOf(v.img, layer)
  IN  IF ok THEN Joined(v, fi) ELSE Failed(v, fi)

\* Where the layer is found, or that its frame has slid out.
LEMMA AwaitedFacts ==
  ASSUME NEW v, NEW away, Good(v, away), NEW S, Apart(v, S), NEW x \in S, x \in LayerIds \ {None},
         NEW fi, fi = PositionOf(v.img, x)
  PROVE  \/ fi = None
         \/ /\ fi \in 1..Len(v.img) /\ v.img[fi] = x /\ v.img[fi] # None /\ fi \notin ToSet(v.loaded)
            /\ \A i \in 1..Len(v.img) : v.img[i] = x => i = fi
<1>1. v.img \in Seq(LayerIds \cup {None}) /\ Len(v.img) \in Nat
  BY LoadedFacts
<1>2. /\ x \in ToSet(v.img) => fi \in 1..Len(v.img) /\ v.img[fi] = x
      /\ x \notin ToSet(v.img) => fi = 0
  BY <1>1, PositionFacts
<1>3. \A i, j \in 1..Len(v.img) : v.img[i] = v.img[j] /\ v.img[i] # None => i = j
  BY DEF Good, LayersGood
<1> QED
  BY <1>2, <1>3 DEF Apart, None

\* A frame that joins a loop that is ready.
LEMMA JoinedGood ==
  ASSUME NEW v, NEW away, Good(v, away), NEW fi \in 1..Len(v.img), v.img[fi] # None,
         fi \notin ToSet(v.loaded), NEW w, w = Joined(v, fi),
         NEW pos, pos = InsertPosition(v.loaded, fi)
  PROVE  /\ v.ready => Good(w, away) /\ w.ready
         /\ w.img = v.img /\ w.staged = v.staged /\ w.missed = v.missed /\ w.cur = v.cur
         /\ w.run = v.run /\ w.paused = v.paused /\ w.tick = v.tick
         /\ Len(v.loaded) \in Nat /\ Len(w.loaded) = Len(v.loaded) + 1
         /\ ToSet(w.loaded) = ToSet(v.loaded) \cup {fi}
<1>1. /\ DOMAIN w = Fields
      /\ w.times = v.times /\ w.img = v.img /\ w.cur = v.cur /\ w.prev1 = v.prev1
      /\ w.now = v.now /\ w.shown = v.shown /\ w.attached = v.attached /\ w.staged = v.staged
      /\ w.ready = v.ready /\ w.run = v.run /\ w.paused = v.paused
      /\ w.tick = v.tick /\ w.missed = v.missed
      /\ Len(v.loaded) \in Nat /\ Len(w.loaded) = Len(v.loaded) + 1
      /\ ToSet(w.loaded) = ToSet(v.loaded) \cup {fi}
      /\ FramesGood(w.times, w.img, w.loaded)
      /\ pos \in 1..Len(w.loaded)
  BY JoinedFacts, SMTT(30)
<1>2. LayersGood(w.img, w.attached, w.staged, away) /\ CursorGood(v)
  BY <1>1 DEF Good
<1>3. v.ready => CursorGood(w)
  BY <1>1, <1>2 DEF CursorGood, InLoop
<1> QED
  BY <1>1, <1>2, <1>3 DEF Good

LEMMA SettledGood ==
  ASSUME NEW v, NEW away, NEW S, NEW upd, Held(v, away, S, upd), NEW x \in S, NEW ok,
         PositionOf(v.img, x) # None, NEW w, w = Settled(v, x, ok)
  PROVE  /\ Good(w, away) /\ Staffed(w) /\ Apart(w, S \ {x})
         /\ w.staged = v.staged /\ w.ready /\ (w.tick => MayTick(w)) /\ w.cur = v.cur
<1> DEFINE fi == PositionOf(v.img, x)
<1>1. /\ Good(v, away) /\ Staffed(v) /\ Apart(v, S) /\ v.ready /\ (v.tick => MayTick(v))
      /\ x \in LayerIds \ {None}
  BY DEF Held
<1>2. fi # None /\ fi = PositionOf(v.img, x) /\ w = IF ok THEN Joined(v, fi) ELSE Failed(v, fi)
  BY DEF Settled
<1> HIDE DEF fi
<1>3. /\ fi \in 1..Len(v.img) /\ v.img[fi] = x /\ v.img[fi] # None /\ fi \notin ToSet(v.loaded)
      /\ \A i \in 1..Len(v.img) : v.img[i] = x => i = fi
  BY <1>1, <1>2, AwaitedFacts
<1>6. fi \in 1..Len(v.img) /\ v.img[fi] # None /\ fi \notin ToSet(v.loaded) /\ Good(v, away)
  BY <1>1, <1>3
<1>4. CASE ok
  <2>1. w = Joined(v, fi)
    BY <1>2, <1>4
  <2>2. /\ v.ready => Good(w, away) /\ w.ready
        /\ w.img = v.img /\ w.staged = v.staged /\ w.missed = v.missed /\ w.cur = v.cur
        /\ w.run = v.run /\ w.paused = v.paused /\ w.tick = v.tick
        /\ Len(v.loaded) \in Nat /\ Len(w.loaded) = Len(v.loaded) + 1
        /\ ToSet(w.loaded) = ToSet(v.loaded) \cup {fi}
    <3> DEFINE pos == InsertPosition(v.loaded, fi)
    <3>1. pos = InsertPosition(v.loaded, fi)
      OBVIOUS
    <3> HIDE DEF pos
    <3> QED
      BY <1>6, <2>1, <3>1, JoinedGood
  <2>3. Staffed(w)
    BY <1>1, <2>2 DEF Staffed
  <2>7. Apart(w, S \ {x})
    BY <1>1, <1>3, <2>2 DEF Apart
  <2>8. w.tick => MayTick(w)
    BY <1>1, <2>2 DEF MayTick
  <2> QED
    BY <1>1, <2>2, <2>3, <2>7, <2>8
<1>5. CASE ~ok
  <2>1. w = Failed(v, fi)
    BY <1>2, <1>5
  <2>2. /\ Good(w, away)
        /\ w.loaded = v.loaded /\ w.staged = v.staged /\ w.ready = v.ready /\ w.run = v.run
        /\ w.paused = v.paused /\ w.tick = v.tick /\ w.missed = v.missed /\ w.cur = v.cur
        /\ Len(w.img) = Len(v.img) /\ w.img[fi] = None
        /\ \A i \in 1..Len(v.img) : i # fi => w.img[i] = v.img[i]
    BY <1>6, <2>1, FailedGood
  <2>3. Staffed(w) /\ (w.tick => MayTick(w))
    BY <1>1, <2>2 DEF Staffed, MayTick
  <2>4. \A i \in ToSet(v.loaded) : i \in 1..Len(v.img)
    BY <1>1, LoadedFacts
  <2>5. Apart(w, S \ {x})
    BY <1>1, <1>3, <2>2, <2>4 DEF Apart
  <2> QED
    BY <1>1, <2>2, <2>3, <2>5
<1> QED
  BY <1>4, <1>5

LEMMA ShiftedSettlesGood ==
  ASSUME IInv, NEW layer \in shifting, NEW ok \in BOOLEAN, ShiftedSettles(layer, ok)
  PROVE  IInv' /\ (p.cur >= 1 => p'.cur >= 1)
<1> DEFINE fi == PositionOf(p.img, layer)
           v == IF fi = None THEN p ELSE Settled(p, layer, ok)
           S == shifting \ {layer}
<1>1. /\ Good(p, staging) /\ Held(p, staging, shifting, updating) /\ clock \in Int
      /\ layer \in LayerIds \ {None}
  BY HeldFacts DEF IInv, Held
<1>2. /\ shifting' = S /\ UNCHANGED <<init, staging, updating, owed, clock>>
      /\ p' = IF fi = None \/ v.loaded = <<>> THEN v ELSE StartLoop(v, Len(v.loaded))
  <2>1. /\ shifting' = S /\ UNCHANGED <<init, staging, updating, owed, clock>>
    BY DEF ShiftedSettles
  <2>2. fi # None => p.img[fi] = layer
    BY <1>1, AwaitedFacts DEF Held
  <2>3. p' = LET u == IF fi = None THEN p
                      ELSE IF ok THEN [p EXCEPT !.loaded = InsertSorted(@, fi)]
                      ELSE [Detach(p, layer) EXCEPT !.img[fi] = None]
             IN  IF fi = None \/ u.loaded = <<>> THEN u ELSE StartLoop(u, Len(u.loaded))
    BY DEF ShiftedSettles
  <2> QED
    BY <2>1, <2>2, <2>3 DEF Settled, Joined, Failed
<1>3. /\ Good(v, staging) /\ Staffed(v) /\ Apart(v, S)
      /\ v.staged = p.staged /\ v.ready /\ (v.tick => MayTick(v)) /\ v.cur = p.cur
  <2>1. CASE fi = None
    BY <1>1, <2>1 DEF Held, Apart
  <2>2. CASE fi # None
    <3>1. v = Settled(p, layer, ok) /\ PositionOf(p.img, layer) # None
      BY <2>2
    <3> HIDE DEF v
    <3> QED
      BY <1>1, <3>1, SettledGood
  <2> QED
    BY <2>1, <2>2
<1>4. /\ S \subseteq LayerIds \ {None} /\ S \cap (LayersOf(p.staged) \cup LayersOf(staging)) = {}
  BY <1>1 DEF Held
<1> HIDE DEF v, S, fi
<1>5. Held(v, staging, S, updating)
  BY <1>3, <1>4 DEF Held
<1>6. Held(p', staging, S, updating) /\ (p.cur >= 1 => p'.cur >= 1)
  <2>1. CASE fi = None \/ v.loaded = <<>>
    BY <1>2, <1>3, <1>5, <2>1
  <2>2. CASE ~(fi = None \/ v.loaded = <<>>)
    <3> DEFINE n == Len(v.loaded)
    <3>1. p' = StartLoop(v, n)
      BY <1>2, <2>2
    <3>2. InLoop(Len(v.loaded), n) /\ n \in Nat /\ n >= 1
      <4>1. n \in Nat /\ v.loaded \in Seq(1..Len(v.img))
        BY <1>3, LoadedFacts DEF Good, FramesGood
      <4> QED
        BY <2>2, <4>1 DEF InLoop
    <3> HIDE DEF n
    <3>3. Good(p', staging) /\ Follows(v, p') /\ Staffed(p') /\ (p'.tick => MayTick(p')) /\ p'.cur >= n
      BY <1>1, <1>3, <3>1, <3>2, StartStep
    <3>4. Plays(v, p', staging)
      BY <1>3, <3>3, FollowsPlays
    <3>5. p'.cur >= 1
      <4>1. p'.cur \in Nat
        BY <3>3, CursorType
      <4> QED
        BY <3>2, <3>3, <4>1
    <3> QED
      BY <1>5, <3>3, <3>4, <3>5, PlaysHeld
  <2> QED
    BY <2>1, <2>2
<1>7. init.stage = "done" /\ Loading(init, p)
  BY DEF IInv
<1>8. Loading(init, p')
  BY <1>7 DEF Loading
<1>9. Held(p', staging', shifting', updating') /\ Loading(init', p')
  BY <1>2, <1>6, <1>8
<1> QED
  BY <1>1, <1>2, <1>6, <1>7, <1>9 DEF IInv

\* The new frames that fit into the window.
Taken(news, count) ==
  IF Len(news) > count THEN SubSeq(news, Len(news) - count + 1, Len(news)) ELSE news

\* An update's shift, and the layers awaited after it.
Updated(v, news) == IF news = <<>> THEN v ELSE ShiftAll(StopLoop(v), Taken(news, Len(v.times)))

AddedBy(v, news) == {v.img[i] : i \in (Len(v.img) - Len(Taken(news, Len(v.img))) + 1)..Len(v.img)} \ {None}
Awaited(v, S, news) == (S \cap v.attached) \cup (IF news = <<>> THEN {} ELSE AddedBy(v, news))

LEMMA TakenGood ==
  ASSUME FrameAssumption, NEW v, NEW away, Good(v, away), clock \in Int,
         NEW news, news = NewFrames(v), NEW taken, taken = Taken(news, Len(v.times))
  PROVE  /\ news \in Seq(Int) /\ taken \in Seq(Int) /\ Sorted(taken)
         /\ Len(news) \in Nat /\ Len(taken) \in Nat /\ Len(taken) <= Len(news)
         /\ \A k \in 1..Len(taken) : taken[k] > v.times[Len(v.times)]
<1> DEFINE last == v.times[Len(v.times)]
           count == Len(v.times)
<1>1. v.times \in Seq(Int) /\ count \in Nat /\ count >= 1
  BY LoadedFacts
<1>2. last \in Int
  BY <1>1
<1>3. news \in Seq(Int) /\ Sorted(news) /\ \A k \in 1..Len(news) : news[k] > last
  BY <1>1, NewFramesFacts
<1>4. taken = Taken(news, count)
  OBVIOUS
<1> HIDE DEF last, count
<1>5. CASE Len(news) > count
  <2>1. taken = Newest(news, count)
    BY <1>4, <1>5 DEF Taken, Newest
  <2>2. /\ taken \in Seq(Int) /\ Sorted(taken) /\ Len(taken) = count
        /\ \A k \in 1..Len(taken) : taken[k] > last
    <3>1. Beyond(news, last)
      BY <1>3 DEF Beyond
    <3>3. news \in Seq(Int) /\ Sorted(news) /\ count \in Nat /\ count >= 1
      BY <1>1, <1>3
    <3>2. taken \in Seq(Int) /\ Sorted(taken) /\ Len(taken) = count /\ Beyond(taken, last)
      BY <1>2, <1>5, <2>1, <3>1, <3>3, TakenFacts
    <3> QED
      BY <3>2 DEF Beyond
  <2>3. Len(news) \in Nat
    BY <1>3
  <2>4. Len(taken) \in Nat /\ Len(taken) <= Len(news)
    BY <1>1, <1>5, <2>2, <2>3
  <2> QED
    BY <1>3, <2>2, <2>3, <2>4 DEF last
<1>6. CASE ~(Len(news) > count)
  <2>1. taken = news
    BY <1>4, <1>6 DEF Taken
  <2> QED
    BY <1>3, <2>1 DEF last
<1> QED
  BY <1>5, <1>6

\* Frames shifted in: what Held says holds again, with their layers awaited.
LEMMA UpdatedGood ==
  ASSUME FrameAssumption, NEW v, NEW away, NEW S, Held(v, away, S, TRUE), clock \in Int,
         NEW news, news = NewFrames(v), FreshLayers(v, Len(news)),
         NEW w, w = Updated(v, news), NEW A, A = Awaited(w, S, news)
  PROVE  /\ Held(w, away, A, TRUE) /\ A \subseteq w.attached /\ Len(w.img) = Len(v.img)
         /\ v.cur >= 1 => w.cur >= 1
<1>1. /\ Good(v, away) /\ Staffed(v) /\ Apart(v, S) /\ v.ready /\ (v.tick => MayTick(v))
      /\ S \subseteq LayerIds \ {None}
      /\ S \cap LayersOf(v.staged) = {} /\ S \cap LayersOf(away) = {}
  BY DEF Held
<1>2. CASE news = <<>>
  <2>1. w = v /\ A = S \cap v.attached
    BY <1>2 DEF Updated, Awaited
  <2>2. Apart(w, A)
    BY <1>1, <2>1 DEF Apart
  <2> QED
    BY <1>1, <2>1, <2>2 DEF Held
<1>3. CASE news # <<>>
  <2> DEFINE u == StopLoop(v)
             taken == Taken(news, Len(v.times))
             n == Len(taken)
             L == Len(v.img)
  <2>1. /\ news \in Seq(Int) /\ taken \in Seq(Int) /\ Sorted(taken)
        /\ Len(news) \in Nat /\ Len(taken) \in Nat /\ Len(taken) <= Len(news)
        /\ \A k \in 1..Len(taken) : taken[k] > v.times[Len(v.times)]
    BY <1>1, TakenGood
  <2>2. w = ShiftAll(u, taken) /\ taken = Taken(news, L)
    BY <1>1, <1>3, LoadedFacts DEF Updated
  <2>3. A = (S \cap w.attached) \cup AddedBy(w, news)
    BY <1>3 DEF Awaited
  <2>4. u = StopLoop(v)
    OBVIOUS
  <2> HIDE DEF u, taken
  <2>5. Good(u, away) /\ Follows(v, u) /\ Idle(u) /\ ~u.tick /\ u.cur >= v.cur
    BY <1>1, <2>4, StopStep
  <2>6. Plays(v, u, away)
    BY <1>1, <2>5, FollowsPlays
  <2>7. Apart(u, S)
    BY <1>1, <2>6, PlaysApart
  <2>8. /\ u.times = v.times /\ u.attached \subseteq v.attached /\ Len(u.img) = L
        /\ u.staged \subseteq v.staged /\ (v.ready => u.ready)
    BY <2>5 DEF Follows
  <2>9. FreshLayers(u, Len(taken))
    <3>1. FreshLayers(u, Len(news))
      BY <2>1, <2>8, FreeAfter
    <3> QED
      BY <2>1, <3>1, FreshFewer
  <2>10. \A k \in 1..Len(taken) : taken[k] > u.times[Len(u.times)]
    BY <2>1, <2>8
  <2>11. Good(w, away) /\ SlidBy(u, w, n) /\ Apart(w, S)
    BY <2>1, <2>2, <2>5, <2>7, <2>9, <2>10, ShiftAllGood
  <2>12. /\ Len(w.img) = L /\ w.staged \subseteq v.staged /\ Staffed(w) /\ w.ready
    BY <1>1, <2>8, <2>11 DEF SlidBy, Idle, Staffed
  <2>13. w.tick => MayTick(w)
    BY <2>5, <2>11 DEF SlidBy
  <2>14. \A i \in ToSet(w.loaded) : i <= L - n
    BY <2>8, <2>11 DEF SlidBy
  <2>15. /\ L \in Nat /\ n \in Nat /\ w.img \in Seq(LayerIds \cup {None}) /\ DOMAIN w.img = 1..L
         /\ \A i \in ToSet(w.loaded) : i \in 1..L
    BY <2>1, <2>11, <2>12, LoadedFacts
  <2>16. AddedBy(w, news) = {w.img[i] : i \in (L - n + 1)..L} \ {None}
    BY <2>2, <2>12 DEF AddedBy
  <2>17. n <= L
    <3>1. Len(news) > L => Len(taken) = L
      <4>1. ASSUME Len(news) > L PROVE Len(taken) = L
        <5>1. taken = SubSeq(news, Len(news) - L + 1, Len(news))
          BY <2>2, <4>1 DEF Taken
        <5> QED
          BY <2>1, <2>15, <4>1, <5>1
      <4> QED
        BY <4>1
    <3>2. ~(Len(news) > L) => Len(taken) <= L
      BY <2>1, <2>15
    <3> QED
      BY <3>1, <3>2, <2>15
  <2> HIDE DEF n, L
  <2>18. \A x \in AddedBy(w, news) : x # None /\ \E i \in 1..L : x = w.img[i] /\ i > L - n
    <3>1. \A i \in (L - n + 1)..L : i \in 1..L /\ i > L - n
      BY <2>15, <2>17
    <3> QED
      BY <2>16, <3>1
  <2>19. /\ \A i, j \in 1..L : w.img[i] = w.img[j] /\ w.img[i] # None => i = j
         /\ w.attached \subseteq LayerIds \ {None}
         /\ ToSet(w.img) \ {None} \subseteq w.attached
         /\ ToSet(w.img) \cap (LayersOf(w.staged) \cup LayersOf(away)) = {}
    BY <2>11, <2>12 DEF Good, LayersGood
  <2>20. AddedBy(w, news) \subseteq ToSet(w.img) \ {None}
    BY <2>15, <2>18 DEF ToSet
  <2>21. Apart(w, AddedBy(w, news))
    <3> SUFFICES ASSUME NEW j \in ToSet(w.loaded), w.img[j] \in AddedBy(w, news) PROVE FALSE
      BY DEF Apart
    <3>1. PICK i \in 1..L : w.img[j] = w.img[i] /\ i > L - n /\ w.img[j] # None
      BY <2>18
    <3>2. j \in 1..L /\ j <= L - n
      BY <2>14, <2>15
    <3>3. i = j
      BY <2>19, <3>1, <3>2
    <3> QED
      BY <2>15, <3>1, <3>2, <3>3
  <2>22. Apart(w, A)
    BY <2>3, <2>11, <2>21 DEF Apart
  <2>23. LayersOf(w.staged) \subseteq LayersOf(v.staged)
    BY <2>12 DEF LayersOf
  <2>24. A \subseteq w.attached /\ A \cap (LayersOf(w.staged) \cup LayersOf(away)) = {}
    BY <1>1, <2>3, <2>19, <2>20, <2>23
  <2>25. v.cur >= 1 => w.cur >= 1
    <3>1. v.cur \in Nat /\ u.cur \in Nat
      BY <1>1, <2>5, CursorType
    <3>2. u.cur >= 1 => w.cur >= 1
      BY <2>11 DEF SlidBy
    <3> QED
      BY <2>5, <3>1, <3>2
  <2> QED
    BY <2>11, <2>12, <2>13, <2>19, <2>22, <2>24, <2>25 DEF Held, L
<1> QED
  BY <1>2, <1>3

\* What is staged joins what is held.
LEMMA StageHeld ==
  ASSUME FrameAssumption, NEW v, NEW A, Held(v, {}, A, TRUE), A \subseteq v.attached,
         NEW from, FreshLayers(v, Cardinality(Due(v, from))), NEW S, S = Stage(v, from),
         NEW w, w = OnMap(v, S)
  PROVE  Held(w, S, A, TRUE)
<1>1. /\ Good(v, {}) /\ Staffed(v) /\ Apart(v, A) /\ v.ready /\ (v.tick => MayTick(v))
      /\ A \subseteq LayerIds \ {None} /\ A \cap LayersOf(v.staged) = {}
  BY DEF Held
<1>2. v.times \in Seq(Int) /\ Sorted(v.times)
  BY <1>1, LoadedFacts
<1>3. Batch(S) /\ LayersOf(S) \subseteq Free(v)
  BY <1>2, StageFacts
<1>4. /\ Good(w, S)
      /\ w.times = v.times /\ w.img = v.img /\ w.loaded = v.loaded /\ w.cur = v.cur
      /\ w.now = v.now /\ w.staged = v.staged /\ w.missed = v.missed
      /\ w.ready = v.ready /\ w.run = v.run /\ w.paused = v.paused /\ w.tick = v.tick
  <2>1. Good(v, {})
    BY <1>1
  <2> QED
    BY <1>3, <2>1, StagedGood, SMTT(30)
<1>5. A \cap (LayersOf(w.staged) \cup LayersOf(S)) = {}
  BY <1>1, <1>3, <1>4 DEF Free
<1>6. Staffed(w) /\ Apart(w, A) /\ (w.tick => MayTick(w)) /\ w.ready
  BY <1>1, <1>4 DEF Staffed, Apart, MayTick
<1> QED
  BY <1>1, <1>4, <1>5, <1>6 DEF Held

LEMMA UpdateArrivesGood ==
  ASSUME FrameAssumption, IInv, UpdateArrives
  PROVE  IInv' /\ (p.cur >= 1 => p'.cur >= 1)
<1> DEFINE news == NewFrames(p)
           v == Updated(p, news)
           A == Awaited(v, shifting, news)
<1>1. /\ updating /\ ~updating' /\ ~owed' /\ updating' \in BOOLEAN /\ owed' \in BOOLEAN
      /\ FreshLayers(p, Len(news)) /\ UNCHANGED <<init, clock>>
  BY DEF UpdateArrives
<1>2. Held(p, staging, shifting, TRUE) /\ clock \in Int /\ Good(p, staging)
  BY <1>1 DEF IInv, Held
<1>3. news = NewFrames(p) /\ v = Updated(p, news) /\ A = Awaited(v, shifting, news)
  OBVIOUS
<1>4. /\ Held(v, staging, A, TRUE) /\ A \subseteq v.attached /\ Len(v.img) = Len(p.img)
      /\ p.cur >= 1 => v.cur >= 1
  <2> HIDE DEF news, v, A
  <2> QED
    BY <1>1, <1>2, <1>3, UpdatedGood, ZenonT(60)
<1>5. Len(p.times) = Len(v.img)
  <2> HIDE DEF news, v, A
  <2> QED
    BY <1>2, <1>4, LoadedFacts
<1>6. /\ shifting' = A
      /\ \/ p' = v /\ UNCHANGED staging
         \/ /\ staging = {}
            /\ \E from : /\ FreshLayers(v, Cardinality(Due(v, from)))
                         /\ staging' = Stage(v, from)
                         /\ p' = OnMap(v, Stage(v, from))
  BY <1>5 DEF UpdateArrives, Updated, Taken, Awaited, AddedBy, OnMap, LayersOf
<1> HIDE DEF news, v, A
<1>7. Held(p', staging', A, TRUE)
  <2>1. CASE p' = v /\ UNCHANGED staging
    BY <1>4, <2>1
  <2>2. ASSUME staging = {}, NEW from, FreshLayers(v, Cardinality(Due(v, from))),
               staging' = Stage(v, from),
               p' = OnMap(v, Stage(v, from))
        PROVE  Held(p', staging', A, TRUE)
    <3> DEFINE S == Stage(v, from)
    <3>1. S = Stage(v, from) /\ staging' = S /\ p' = OnMap(v, S)
      BY <2>2
    <3> HIDE DEF S
    <3>2. Held(v, {}, A, TRUE)
      BY <1>4, <2>2
    <3>3. Held(p', S, A, TRUE)
      BY <1>4, <2>2, <3>1, <3>2, StageHeld
    <3> QED
      BY <3>1, <3>3
  <2> QED
    BY <1>6, <2>1, <2>2
<1>8. Held(p', staging', shifting', updating')
  BY <1>1, <1>6, <1>7 DEF Held
<1>9. init.stage = "done" /\ Loading(init, p)
  BY <1>1 DEF IInv
<1>10. Loading(init', p')
  BY <1>1, <1>9 DEF Loading
<1>11. p'.cur = v.cur
  <2>1. DOMAIN v = Fields
    BY <1>4 DEF Held, Good
  <2> QED
    BY <1>6, <2>1 DEF OnMap, Fields
<1> QED
  BY <1>1, <1>2, <1>4, <1>8, <1>9, <1>10, <1>11 DEF IInv

-----------------------------------------------------------------------------
(* The invariant holds at first.                                           *)

\* The player before its first request.
Blank(v, times, now, run) ==
  v = [times |-> times, img |-> [i \in 1..Frames |-> None], loaded |-> <<>>,
       cur |-> 1, prev1 |-> None, now |-> now, shown |-> {}, attached |-> {},
       staged |-> {}, ready |-> FALSE, run |-> run, paused |-> FALSE,
       tick |-> FALSE, missed |-> FALSE]

LEMMA WindowFacts ==
  ASSUME FrameAssumption, NEW t \in Int, NEW times, times = Window(t)
  PROVE  Frames \in Nat /\ Frames >= 1 /\ times \in Seq(Int) /\ Len(times) = Frames /\ Sorted(times)
<1>1. Past \in Nat /\ Forecast \in Nat /\ Frames \in Nat /\ Frames >= 1
  BY DEF FrameAssumption, Frames
<1>2. times \in Seq(Int) /\ Len(times) = Frames /\ DOMAIN times = 1..Frames
      /\ \A i \in 1..Frames : times[i] = t - Past - 1 + i
  BY <1>1 DEF Window
<1>3. Sorted(times)
  BY <1>1, <1>2 DEF Sorted
<1> QED
  BY <1>1, <1>2, <1>3

LEMMA BlankGood ==
  ASSUME FrameAssumption, NEW v, NEW times, times \in Seq(Int), Len(times) = Frames, Sorted(times),
         NEW now \in 1..Frames, NEW run \in BOOLEAN, Blank(v, times, now, run)
  PROVE  /\ Good(v, {}) /\ v.times = times /\ v.loaded = <<>> /\ v.cur = 1 /\ v.now = now
         /\ v.staged = {} /\ ~v.tick /\ v.attached = {} /\ Len(v.img) = Frames
         /\ \A i \in 1..Frames : v.img[i] = None
<1>1. Frames \in Nat /\ Frames >= 1
  BY DEF FrameAssumption, Frames
<1>2. /\ DOMAIN v = Fields
      /\ v.times = times /\ v.img = [i \in 1..Frames |-> None] /\ v.loaded = <<>>
      /\ v.cur = 1 /\ v.prev1 = None /\ v.now = now /\ v.shown = {} /\ v.attached = {}
      /\ v.staged = {} /\ v.ready = FALSE /\ v.run = run /\ v.paused = FALSE
      /\ v.tick = FALSE /\ v.missed = FALSE
  BY DEF Blank, Fields
<1>3. /\ v.img \in Seq(LayerIds \cup {None}) /\ Len(v.img) = Frames
      /\ \A i \in 1..Frames : v.img[i] = None
  BY <1>1, <1>2
<1>4. v.loaded \in Seq(1..Len(v.img)) /\ Len(v.loaded) = 0 /\ Sorted(v.loaded)
  BY <1>2 DEF Sorted
<1>5. FramesGood(v.times, v.img, v.loaded)
  BY <1>1, <1>2, <1>3, <1>4 DEF FramesGood
<1>6. LayersOf({}) = {} /\ Batch({})
  BY DEF LayersOf, Batch
<1>7. ToSet(v.img) \ {None} = {}
  BY <1>2 DEF ToSet
<1>8. LayersGood(v.img, v.attached, v.staged, {})
  BY <1>1, <1>2, <1>3, <1>6, <1>7 DEF LayersGood
<1>9. CursorGood(v)
  <2>1. /\ v.ready \in BOOLEAN /\ v.run \in BOOLEAN /\ v.paused \in BOOLEAN
        /\ v.tick \in BOOLEAN /\ v.missed \in BOOLEAN
    BY <1>2
  <2>2. InLoop(Len(v.loaded), v.cur) /\ InLoop(Len(v.loaded), v.prev1)
    BY <1>2, <1>4 DEF InLoop, None
  <2>3. v.now \in 1..Len(v.times) /\ v.shown \subseteq LayerIds /\ ~(Len(v.loaded) >= 2)
    BY <1>2, <1>4
  <2> QED
    BY <2>1, <2>2, <2>3 DEF CursorGood
<1> QED
  BY <1>2, <1>3, <1>5, <1>8, <1>9 DEF Good

LEMMA InitFacts ==
  ASSUME FrameAssumption, Init
  PROVE  \E e, times, now, run :
           /\ times = Window(Past + 1) /\ now = NearestIndex(times, Past + 1) /\ run \in BOOLEAN
           /\ Blank(e, times, now, run)
           /\ p = Request(e, LoadOrder(Frames, now)[1], FreshIn(e))
           /\ init = [order |-> LoadOrder(Frames, now), at |-> 1, layer |-> FreshIn(e),
                      stage |-> "frames", firstShown |-> FALSE]
BY DEF Init, Blank

LEMMA InitGood ==
  ASSUME FrameAssumption, ~StaleOwed, Init
  PROVE  IInv /\ p.cur = 1 /\ p.loaded = <<>> /\ init.stage = "frames" /\ init.at = 1 /\ init.order[1] = p.now
<1>1. PICK e, times, now, run :
           /\ times = Window(Past + 1) /\ now = NearestIndex(times, Past + 1) /\ run \in BOOLEAN
           /\ Blank(e, times, now, run)
           /\ p = Request(e, LoadOrder(Frames, now)[1], FreshIn(e))
           /\ init = [order |-> LoadOrder(Frames, now), at |-> 1, layer |-> FreshIn(e),
                      stage |-> "frames", firstShown |-> FALSE]
  BY InitFacts
<1>2. /\ clock = Past + 1 /\ shifting = {} /\ staging = {} /\ ~updating /\ updating \in BOOLEAN
      /\ ~owed /\ owed \in BOOLEAN
  BY DEF Init, FrameAssumption
<1>3. Past + 1 \in Int
  BY DEF FrameAssumption
<1>4. Frames \in Nat /\ Frames >= 1 /\ times \in Seq(Int) /\ Len(times) = Frames /\ Sorted(times)
  BY <1>1, <1>3, WindowFacts
<1>5. now \in 1..Frames
  <2>1. times # <<>>
    BY <1>4
  <2> QED
    BY <1>1, <1>3, <1>4, <2>1, NearestFacts
<1>6. /\ Good(e, {}) /\ e.times = times /\ e.loaded = <<>> /\ e.cur = 1 /\ e.now = now
      /\ e.staged = {} /\ ~e.tick /\ e.attached = {} /\ Len(e.img) = Frames
      /\ \A i \in 1..Frames : e.img[i] = None
  <2>1. Blank(e, times, now, run) /\ run \in BOOLEAN
    BY <1>1
  <2>2. times \in Seq(Int) /\ Len(times) = Frames /\ Sorted(times) /\ now \in 1..Frames
    BY <1>4, <1>5
  <2> QED
    BY ONLY FrameAssumption, <2>1, <2>2, BlankGood
<1> DEFINE order == LoadOrder(Frames, now)
           x == FreshIn(e)
           fi == order[1]
<1>7. order = LoadOrder(Frames, now) /\ x = FreshIn(e) /\ fi = order[1]
  OBVIOUS
<1>8. p = Request(e, fi, x)
      /\ init = [order |-> order, at |-> 1, layer |-> x, stage |-> "frames", firstShown |-> FALSE]
  BY <1>1
<1> HIDE DEF order, x, fi
<1>9. /\ order \in Seq(1..Frames) /\ Len(order) = Frames /\ order[1] = now
      /\ \A j, k \in 1..Frames : order[j] = order[k] => j = k
  <2>1. Frames \in Nat /\ now \in 1..Frames /\ order = LoadOrder(Frames, now)
    BY <1>4, <1>5, <1>7
  <2> QED
    BY ONLY <2>1, LoadOrderFacts
<1>10. x \in Free(e)
  <2>1. IsFiniteSet(LayerIds) /\ Free(e) = LayerIds \ {0} /\ LayerIds \ {0} # {}
    BY <1>6 DEF Free, None, FrameAssumption
  <2>2. IsFiniteSet(Free(e)) /\ Free(e) # {}
    BY <2>1, FS_Subset
  <2>3. Cardinality(Free(e)) \in Nat /\ Cardinality(Free(e)) # 0
    BY <2>2, FS_CardinalityType, FS_EmptySet
  <2>4. FreshLayers(e, 1)
    BY <2>3 DEF FreshLayers
  <2>5. 1 \in Nat /\ 1 >= 1
    OBVIOUS
  <2> QED
    BY <1>7, <2>4, <2>5, FreshFacts
<1>11. fi \in 1..Len(e.img) /\ e.img[fi] = None /\ Good(e, {})
  BY <1>5, <1>6, <1>7, <1>9
<1>12. /\ Good(p, {})
       /\ p.times = e.times /\ p.loaded = e.loaded /\ p.cur = e.cur /\ p.now = e.now
       /\ p.staged = e.staged /\ p.tick = e.tick
       /\ Len(p.img) = Len(e.img) /\ p.img[fi] = x /\ x # None
       /\ \A i \in 1..Len(e.img) : i # fi => p.img[i] = e.img[i]
  BY <1>8, <1>10, <1>11, RequestGood, SMTT(30)
<1>13. Apart(p, {}) /\ Staffed(p) /\ ~p.tick
  BY <1>6, <1>12 DEF Apart, Staffed
<1>14. Held(p, staging, shifting, updating)
  BY <1>2, <1>12, <1>13 DEF Held
<1>15. ToCome(init, p)
  <2>1. /\ init.order = order /\ init.at = 1 /\ init.layer = x /\ ~init.firstShown
    BY <1>8
  <2>2. \A k \in 1..Frames : k > 1 => p.img[order[k]] = None
    <3> SUFFICES ASSUME NEW k \in 1..Frames, k > 1 PROVE p.img[order[k]] = None
      OBVIOUS
    <3>1. 1 \in 1..Frames /\ order[k] \in 1..Frames
      BY <1>4, <1>9
    <3>2. order[k] # fi
      BY <1>7, <1>9, <3>1
    <3> QED
      BY <1>6, <1>12, <3>1, <3>2
  <2>3. ToSet(p.loaded) = {}
    BY <1>6, <1>12 DEF ToSet
  <2> QED
    BY <1>4, <1>6, <1>7, <1>9, <1>12, <2>1, <2>2, <2>3 DEF ToCome
<1>16. Loading(init, p)
  BY <1>6, <1>8, <1>12, <1>15 DEF Loading
<1>17. clock \in Int
  BY <1>2, <1>3
<1> QED
  BY <1>2, <1>6, <1>7, <1>8, <1>9, <1>12, <1>14, <1>16, <1>17 DEF IInv

-----------------------------------------------------------------------------
(* The invariant of every behaviour.                                       *)

LEMMA StutterGood ==
  ASSUME IInv, UNCHANGED vars
  PROVE  IInv'
<1>1. UNCHANGED <<p, init, shifting, staging, updating, owed, clock>>
  BY DEF vars
<1>2. Held(p', staging', shifting', updating') /\ Loading(init', p')
  BY <1>1 DEF IInv
<1> QED
  BY <1>1, <1>2 DEF IInv

LEMMA NextGood ==
  ASSUME FrameAssumption, IInv, Next
  PROVE  IInv'
<1>1. CASE InitFrameLoads
  BY <1>1, InitFrameLoadsGood
<1>2. CASE InitFrameFails
  BY <1>2, InitFrameFailsGood
<1>3. CASE InitDedups
  BY <1>3, InitDedupsGood
<1>4. CASE ClockAdvances
  BY <1>4, ClockAdvancesGood
<1>5. CASE UpdateDue
  BY <1>5, UpdateDueGood
<1>6. CASE UpdateArrives
  BY <1>6, UpdateArrivesGood
<1>7. CASE UpdateFails
  BY <1>7, UpdateFailsGood
<1>8. CASE \E layer \in shifting, ok \in BOOLEAN : ShiftedSettles(layer, ok)
  BY <1>8, ShiftedSettlesGood
<1>9. CASE \E ok \in SUBSET staging : StagingSettles(ok)
  BY <1>9, StagingSettlesGood
<1>10. CASE Tick
  BY <1>10, TickGood
<1>11. CASE TogglePlay
  BY <1>11, TogglePlayGood
<1>12. CASE ScrubEnd
  BY <1>12, ScrubEndGood
<1>13. CASE SkipNext
  BY <1>13, SkipNextGood
<1>14. CASE Pause
  BY <1>14, PauseGood
<1>15. CASE Resume
  BY <1>15, ResumeGood
<1>16. CASE \E slot \in DOMAIN p.loaded : ScrubTo(slot)
  BY <1>16, ScrubToGood
<1> QED
  BY <1>1, <1>2, <1>3, <1>4, <1>5, <1>6, <1>7, <1>8, <1>9, <1>10, <1>11, <1>12, <1>13, <1>14,
     <1>15, <1>16 DEF Next

\* Every state of a run with no refresh left owed satisfies the inductive invariant.
LEMMA IInvHolds ==
  ASSUME ~StaleOwed
  PROVE  Spec => []IInv
<1>1. Init => IInv
  BY FrameAssumption, InitGood
<1>2. IInv /\ [Next]_vars => IInv'
  BY FrameAssumption, NextGood, StutterGood
<1> QED
  BY <1>1, <1>2, PTL DEF Spec

LEMMA TypeFollows ==
  ASSUME IInv
  PROVE  TypeOK
<1>1. /\ Good(p, staging) /\ shifting \subseteq LayerIds \ {None}
      /\ updating \in BOOLEAN /\ owed \in BOOLEAN
  BY DEF IInv, Held
<1>2. /\ p.loaded \in Seq(1..Len(p.img)) /\ Sorted(p.loaded) /\ Len(p.loaded) \in Nat
      /\ p.img \in Seq(LayerIds \cup {None}) /\ DOMAIN p.img = 1..Len(p.img) /\ Len(p.img) \in Nat
      /\ p.times \in Seq(Int) /\ Len(p.times) = Len(p.img) /\ Len(p.times) \in 1..Frames
  BY <1>1, LoadedFacts
<1>3. Len(p.loaded) <= Len(p.img) /\ Frames \in Nat /\ Frames >= 1
  BY <1>2, SortedLen, FrameAssumption DEF FrameAssumption, Frames
<1>4. CursorGood(p) /\ LayersGood(p.img, p.attached, p.staged, staging)
  BY <1>1 DEF Good
<1>5. p.cur \in 0..Frames /\ p.prev1 \in 0..Frames
  BY <1>2, <1>3, <1>4 DEF CursorGood, InLoop
<1>6. p.now \in DOMAIN p.times /\ p.shown \subseteq LayerIds
  BY <1>2, <1>4 DEF CursorGood
<1>7. p.attached \subseteq LayerIds /\ \A s \in p.staged \cup staging : s.layer \in LayerIds
  BY <1>4 DEF LayersGood, Batch
<1>8. {p.ready, p.run, p.paused, p.tick, p.missed, updating, owed} \subseteq BOOLEAN
  BY <1>1, <1>4 DEF CursorGood
<1> QED
  BY <1>1, <1>2, <1>5, <1>6, <1>7, <1>8 DEF TypeOK

LEMMA SlotsFollow ==
  ASSUME IInv
  PROVE  SlotsPlayable /\ FramesInOrder
<1>1. Good(p, staging)
  BY DEF IInv, Held
<1>2. /\ p.loaded \in Seq(1..Len(p.img)) /\ Sorted(p.loaded) /\ Sorted(p.times)
      /\ DOMAIN p.img = 1..Len(p.img)
      /\ \A i \in ToSet(p.loaded) : i \in 1..Len(p.img) /\ p.img[i] # None
  BY <1>1, LoadedFacts
<1>3. (ToSet(p.img) \ {None}) \subseteq p.attached
  BY <1>1 DEF Good, LayersGood
<1>4. \A s \in DOMAIN p.loaded : LayerAt(p, s) \in p.attached
  <2> SUFFICES ASSUME NEW s \in DOMAIN p.loaded PROVE p.img[p.loaded[s]] \in p.attached
    BY DEF LayerAt
  <2>1. p.loaded[s] \in ToSet(p.loaded)
    BY DEF ToSet
  <2>2. p.img[p.loaded[s]] \in ToSet(p.img) /\ p.img[p.loaded[s]] # None
    BY <1>2, <2>1 DEF ToSet
  <2> QED
    BY <1>3, <2>2
<1> QED
  BY <1>2, <1>4 DEF SlotsPlayable, FramesInOrder, Sorted

\* Each layer on the map is a frame's or a replacement's, so _clearRadarLayers,
\* the next shift or the next swap removes it.
LEMMA NoneOrphaned ==
  ASSUME IInv
  PROVE  NoOrphanLayers
<1>1. p.attached = (ToSet(p.img) \ {None}) \cup LayersOf(p.staged) \cup LayersOf(staging)
  BY DEF IInv, Held, Good, LayersGood
<1> QED
  BY <1>1 DEF NoOrphanLayers, LayersOf

\* The arrays of the loop stay what they are taken for: the renumberings of
\* _shiftInFrame, _dedupFrames and _swapStagedFrames, between any two awaits of
\* the load and of the refresh, leave every slot on a frame that has a layer on
\* the map, the frames in time order, the cursors in range, and no layer on the
\* map that the player can not find.
THEOREM LoopStaysIntact ==
  ASSUME ~StaleOwed
  PROVE  Spec => []LoopIntact
<1>1. IInv => LoopIntact
  BY TypeFollows, SlotsFollow, NoneOrphaned DEF LoopIntact
<1> QED
  BY <1>1, IInvHolds, PTL

-----------------------------------------------------------------------------
(* The cursor is on a frame.                                               *)

\* The first frame asked for is the one at "now", and the load goes on only with
\* it; so the loop starts on a frame that it has.
FirstFrame ==
  init.stage = "frames" =>
    /\ Len(p.loaded) < 2 => p.now = init.order[1] /\ NearestIndex(p.times, clock) = init.order[1]
    /\ IF init.at = 1 THEN p.loaded = <<>> ELSE init.order[1] \in ToSet(p.loaded)

PlaceInv == p.cur >= 1 /\ FirstFrame

\* The frame under the cursor stays there.
SamePlace ==
  p.cur \in 1..Len(p.loaded) =>
    /\ p'.cur \in 1..Len(p'.loaded) /\ p'.times = p.times
    /\ p'.loaded[p'.cur] = p.loaded[p.cur]

LEMMA PlaceStarts ==
  ASSUME FrameAssumption, ~StaleOwed, Init
  PROVE  PlaceInv
<1>1. /\ p.cur = 1 /\ p.loaded = <<>> /\ init.stage = "frames" /\ init.at = 1 /\ init.order[1] = p.now
  BY InitGood
<1>2. p.now = NearestIndex(p.times, clock)
  <2>1. PICK e, times, now, run :
           /\ times = Window(Past + 1) /\ now = NearestIndex(times, Past + 1)
           /\ Blank(e, times, now, run)
           /\ p = Request(e, LoadOrder(Frames, now)[1], FreshIn(e))
    BY InitFacts
  <2>2. /\ DOMAIN e = Fields /\ e.times = times /\ e.now = now
    BY <2>1 DEF Blank, Fields
  <2>3. p.times = times /\ p.now = now
    BY <2>1, <2>2 DEF Request, Fields
  <2>4. clock = Past + 1
    BY DEF Init
  <2> QED
    BY <2>1, <2>3, <2>4
<1> QED
  BY <1>1, <1>2 DEF PlaceInv, FirstFrame

\* While the load goes on, playback leaves the frames and what is "now".
LEMMA PlayedPlace ==
  ASSUME IInv, IInv', PlaceInv, Played
  PROVE  PlaceInv'
<1>1. Good(p, staging) /\ Plays(p, p', staging) /\ UNCHANGED <<init, clock>>
  BY HeldFacts DEF Played
<1>2. p'.cur >= 1
  <2>1. p.cur \in Nat /\ p'.cur \in Nat
    BY CursorType DEF IInv, Held
  <2> QED
    BY <2>1 DEF PlaceInv, Played
<1>3. ASSUME init.stage = "frames"
      PROVE  p'.times = p.times /\ p'.loaded = p.loaded /\ p'.now \in {p.now, NearestIndex(p.times, clock)}
  <2>1. p.staged = {}
    BY <1>3 DEF IInv, Loading
  <2> QED
    BY <1>1, <2>1, PlaysFacts
<1> QED
  BY <1>1, <1>2, <1>3 DEF PlaceInv, FirstFrame

\* What the load loop's next request leaves of the frames.
LEMMA ContinueKeeps ==
  ASSUME Loading(init, p), NEW v, Good(v, {}), NEW k, NEW firstShown, ContinueAt(v, k, firstShown)
  PROVE  /\ p'.times = v.times /\ p'.loaded = v.loaded /\ p'.cur = v.cur /\ p'.now = v.now
         /\ init'.stage = "frames" => k # None /\ init'.at = k /\ init'.order = init.order
<1>1. DOMAIN v = Fields /\ DOMAIN init = {"order", "at", "layer", "stage", "firstShown"}
  BY DEF Good, Loading
<1>2. CASE k = None \/ k > Frames
  <2>1. p' = [v EXCEPT !.ready = @ \/ (v.loaded # <<>> /\ ~Motion)]
    BY <1>2 DEF ContinueAt
  <2>2. init'.stage # "frames"
    BY <1>1, <1>2 DEF ContinueAt
  <2> QED
    BY <1>1, <2>1, <2>2 DEF Fields
<1>3. CASE ~(k = None \/ k > Frames)
  <2> DEFINE x == FreshIn(v)
  <2>1. /\ p' = Request(v, init.order[k], x)
        /\ init' = [init EXCEPT !.at = k, !.layer = x, !.firstShown = firstShown]
    BY <1>3 DEF ContinueAt
  <2> HIDE DEF x
  <2>2. p'.times = v.times /\ p'.loaded = v.loaded /\ p'.cur = v.cur /\ p'.now = v.now
    BY <1>1, <2>1 DEF Request, Fields
  <2>3. init'.at = k /\ init'.order = init.order
    BY <1>1, <2>1
  <2> QED
    BY <1>3, <2>2, <2>3
<1> QED
  BY <1>2, <1>3

LEMMA InitFrameLoadsPlace ==
  ASSUME FrameAssumption, IInv, PlaceInv, InitFrameLoads
  PROVE  PlaceInv' /\ (Len(p.loaded) >= 2 => SamePlace)
<1> DEFINE fi == init.order[init.at]
           v == Before(fi)
           w == InsertFrame(v, fi)
<1>1. /\ init.stage = "frames" /\ ContinueAt(w, init.at + 1, TRUE) /\ UNCHANGED clock
  BY DEF InitFrameLoads, Before, Preview
<1>2. /\ Good(p, {}) /\ p.staged = {} /\ (p.tick => MayTick(p)) /\ clock \in Int
      /\ ToCome(init, p) /\ fi \in 1..Len(p.img) /\ p.img[fi] # None
      /\ fi \notin ToSet(p.loaded) /\ init.at \in 1..Frames /\ Frames \in Nat
  BY <1>1, LoadFacts
<1>f. fi = init.order[init.at]
  OBVIOUS
<1> HIDE DEF fi
<1>3. fi \in Int
  BY <1>2
<1>4. /\ Good(v, {})
      /\ v.times = p.times /\ v.img = p.img /\ v.loaded = p.loaded /\ v.cur = p.cur /\ v.now = p.now
      /\ v.staged = p.staged /\ v.run = p.run /\ v.paused = p.paused /\ v.tick = p.tick
  BY <1>1, <1>3, BeforeGood
<1> HIDE DEF v
<1>5. Inserts(v, fi, w, {})
  BY <1>2, <1>4, InsertFrameGood
<1>6. v.tick => MayTick(v)
  BY <1>2, <1>4 DEF MayTick
<1> HIDE DEF w
<1>7. /\ Good(w, {}) /\ w.times = v.times
      /\ Len(w.loaded) = Len(v.loaded) + 1 /\ ToSet(w.loaded) = ToSet(v.loaded) \cup {fi}
      /\ w.now \in {v.now, NearestIndex(v.times, clock)}
  <2>1. Good(v, {}) /\ v.staged = {}
    BY <1>2, <1>4
  <2> QED
    BY ONLY <2>1, <1>5, <1>6, InsertIdle
<1>8. /\ p'.times = w.times /\ p'.loaded = w.loaded /\ p'.cur = w.cur /\ p'.now = w.now
      /\ init'.stage = "frames" => init'.at = init.at + 1 /\ init'.order = init.order
  <2>1. Loading(init, p)
    BY DEF IInv
  <2> QED
    BY <1>1, <1>7, <2>1, ContinueKeeps
<1>9. /\ Len(p.loaded) < 2 => p.now = init.order[1] /\ NearestIndex(p.times, clock) = init.order[1]
      /\ init.at = 1 => p.loaded = <<>>
      /\ init.at # 1 => init.order[1] \in ToSet(p.loaded)
  BY <1>1 DEF PlaceInv, FirstFrame
<1>10. Len(p.loaded) \in Nat /\ p.cur \in Nat /\ Len(w.loaded) \in Nat
  BY <1>2, <1>7, LoadedFacts, CursorType
<1>11. p'.cur >= 1
  <2>1. Len(v.loaded) = 1 => v.now \in ToSet(v.loaded)
    <3>1. p.loaded = <<>> => Len(p.loaded) = 0
      OBVIOUS
    <3> QED
      BY <1>4, <1>9, <3>1
  <2>2. v.cur >= 1
    BY <1>4 DEF PlaceInv
  <2> QED
    BY <1>5, <1>8, <2>1, <2>2 DEF Inserts
<1>12. ASSUME init'.stage = "frames"
       PROVE  /\ Len(p'.loaded) < 2 => p'.now = init'.order[1] /\ NearestIndex(p'.times, clock') = init'.order[1]
              /\ init'.at # 1 /\ init'.order[1] \in ToSet(p'.loaded)
  <2>1. init'.at = init.at + 1 /\ init'.order = init.order /\ init'.at # 1
    BY <1>2, <1>8, <1>12
  <2>2. init.order[1] \in ToSet(w.loaded)
    BY <1>4, <1>7, <1>9, <1>f
  <2>3. Len(w.loaded) < 2 => Len(p.loaded) < 2
    BY <1>4, <1>7, <1>10
  <2> QED
    BY <1>1, <1>4, <1>7, <1>8, <1>9, <2>1, <2>2, <2>3
<1>13. FirstFrame'
  BY <1>12 DEF FirstFrame
<1>14. ASSUME Len(p.loaded) >= 2, p.cur \in 1..Len(p.loaded)
       PROVE  p'.cur \in 1..Len(p'.loaded) /\ p'.times = p.times /\ p'.loaded[p'.cur] = p.loaded[p.cur]
  <2>1. KeepsPlace(v, w)
    BY <1>4, <1>5, <1>14 DEF Inserts
  <2> QED
    BY <1>4, <1>7, <1>8, <1>14, <2>1 DEF KeepsPlace
<1> QED
  BY <1>11, <1>13, <1>14 DEF PlaceInv, SamePlace

LEMMA InitFrameFailsPlace ==
  ASSUME FrameAssumption, IInv, PlaceInv, InitFrameFails
  PROVE  PlaceInv' /\ SamePlace
<1> DEFINE fi == init.order[init.at]
           v == Failed(p, fi)
           k == ResumeAfterFailure(init.order, init.at)
<1>1. init.stage = "frames" /\ ContinueAt(v, k, init.firstShown) /\ UNCHANGED clock
  BY DEF InitFrameFails, Failed
<1>2. /\ Good(p, {}) /\ ToCome(init, p) /\ fi \in 1..Len(p.img) /\ fi \notin ToSet(p.loaded)
      /\ init.at \in 1..Frames /\ Frames \in Nat
  BY <1>1, LoadFacts
<1>3. k = None \/ (k > init.at /\ init.at > 1)
  <2>1. init.order \in Seq(1..Frames) /\ Len(init.order) = Frames
    BY <1>2 DEF ToCome
  <2> QED
    BY <1>2, <2>1 DEF ResumeAfterFailure
<1> HIDE DEF k, fi
<1>4. Good(v, {}) /\ v.times = p.times /\ v.loaded = p.loaded /\ v.cur = p.cur /\ v.now = p.now
  BY <1>2, FailedGood
<1> HIDE DEF v
<1>5. /\ p'.times = p.times /\ p'.loaded = p.loaded /\ p'.cur = p.cur /\ p'.now = p.now
      /\ init'.stage = "frames" => k # None /\ init'.at = k /\ init'.order = init.order
  <2>1. Loading(init, p)
    BY DEF IInv
  <2> QED
    BY <1>1, <1>4, <2>1, ContinueKeeps
<1>6. ASSUME init'.stage = "frames" PROVE init'.at # 1 /\ init.at # 1
  BY <1>2, <1>3, <1>5, <1>6
<1>7. FirstFrame'
  BY <1>1, <1>5, <1>6 DEF PlaceInv, FirstFrame
<1> QED
  BY <1>5, <1>7 DEF PlaceInv, SamePlace

LEMMA StagingSettlesPlace ==
  ASSUME ~ThinLoop, IInv, PlaceInv, NEW ok, ok \subseteq staging, StagingSettles(ok)
  PROVE  PlaceInv' /\ SamePlace
<1> DEFINE v == Renewed(p, staging, ok)
<1>1. v = Renewed(p, staging, ok)
  OBVIOUS
<1> HIDE DEF v
<1>2. /\ Good(v, {}) /\ v.times = p.times /\ v.loaded = p.loaded /\ v.cur = p.cur
      /\ Good(p', {}) /\ Swaps(v, p')
  BY <1>1, StagingSettlesFacts
<1>3. Len(p.loaded) >= 2 /\ staging # {} /\ UNCHANGED init
  BY DEF StagingSettles
<1>4. p.cur \in 1..Len(p.loaded)
  <2>1. InLoop(Len(p.loaded), p.cur) /\ p.cur \in Nat /\ Len(p.loaded) \in Nat /\ p.cur >= 1
    BY HeldFacts DEF PlaceInv
  <2> QED
    BY <1>3, <2>1 DEF InLoop
<1>5. p'.cur \in 1..Len(p'.loaded) /\ p'.loaded[p'.cur] = p.loaded[p.cur] /\ p'.times = p.times
  BY <1>2, <1>3, <1>4 DEF Swaps, Follows
<1>6. p'.cur >= 1
  <2>1. Len(p'.loaded) \in Nat
    BY <1>2, LoadedFacts
  <2> QED
    BY <1>5, <2>1
<1>7. FirstFrame'
  BY <1>3 DEF FirstFrame, IInv
<1> QED
  BY <1>5, <1>6, <1>7 DEF PlaceInv, SamePlace

\* After the load only the cursor matters.
LEMMA DonePlace ==
  ASSUME PlaceInv, p.cur >= 1 => p'.cur >= 1, init'.stage # "frames"
  PROVE  PlaceInv'
BY DEF PlaceInv, FirstFrame

LEMMA QuietPlace ==
  ASSUME PlaceInv, UNCHANGED <<p, init>>, clock' = clock \/ Len(p.loaded) >= 2, IInv
  PROVE  PlaceInv'
<1>1. Len(p.loaded) \in Nat
  BY HeldFacts
<1> QED
  BY <1>1 DEF PlaceInv, FirstFrame

LEMMA NextPlace ==
  ASSUME FrameAssumption, ~ThinLoop, IInv, IInv', PlaceInv, [Next]_vars
  PROVE  PlaceInv'
<1>1. CASE InitFrameLoads
  BY <1>1, InitFrameLoadsPlace
<1>2. CASE InitFrameFails
  BY <1>2, InitFrameFailsPlace
<1>3. CASE InitDedups
  <2>1. p.cur >= 1 => p'.cur >= 1
    BY <1>3, InitDedupsCalm
  <2>2. init'.stage # "frames"
    <3>1. DOMAIN init = {"order", "at", "layer", "stage", "firstShown"}
      BY DEF IInv, Loading
    <3> QED
      BY <1>3, <3>1 DEF InitDedups
  <2> QED
    BY <2>1, <2>2, DonePlace
<1>4. CASE ClockAdvances
  BY <1>4, QuietPlace DEF ClockAdvances
<1>5. CASE UpdateDue \/ UpdateFails
  BY <1>5, QuietPlace DEF UpdateDue, UpdateFails
<1>6. CASE UpdateArrives
  <2>1. p.cur >= 1 => p'.cur >= 1
    BY <1>6, UpdateArrivesGood
  <2>2. init'.stage # "frames"
    BY <1>6 DEF UpdateArrives, IInv
  <2> QED
    BY <2>1, <2>2, DonePlace
<1>7. CASE \E layer \in shifting, ok \in BOOLEAN : ShiftedSettles(layer, ok)
  <2>1. PICK layer \in shifting, ok \in BOOLEAN : ShiftedSettles(layer, ok)
    BY <1>7
  <2>2. p.cur >= 1 => p'.cur >= 1
    BY <2>1, ShiftedSettlesGood
  <2>3. init'.stage # "frames"
    BY <2>1 DEF ShiftedSettles, IInv
  <2> QED
    BY <2>2, <2>3, DonePlace
<1>8. CASE \E ok \in SUBSET staging : StagingSettles(ok)
  BY <1>8, StagingSettlesPlace
<1>9. CASE Tick \/ TogglePlay \/ ScrubEnd \/ SkipNext \/ Pause \/ Resume
  <2>1. Played
    BY <1>9, TickGood, TogglePlayGood, ScrubEndGood, SkipNextGood, PauseGood, ResumeGood
  <2> QED
    BY <2>1, PlayedPlace
<1>10. CASE \E slot \in DOMAIN p.loaded : ScrubTo(slot)
  <2>1. Played
    BY <1>10, ScrubToGood
  <2> QED
    BY <2>1, PlayedPlace
<1>11. CASE UNCHANGED vars
  BY <1>11, QuietPlace DEF vars
<1> QED
  BY <1>1, <1>2, <1>3, <1>4, <1>5, <1>6, <1>7, <1>8, <1>9, <1>10, <1>11 DEF Next

LEMMA StepKeepsPlace ==
  ASSUME FrameAssumption, ~ThinLoop, IInv, PlaceInv, Len(p.loaded) >= 2,
         InitFrameLoads \/ InitFrameFails \/ \E ok \in SUBSET staging : StagingSettles(ok)
  PROVE  p'.cur \in DOMAIN p'.loaded /\ p'.times[p'.loaded[p'.cur]] = p.times[p.loaded[p.cur]]
<1>1. SamePlace
  BY InitFrameLoadsPlace, InitFrameFailsPlace, StagingSettlesPlace
<1>2. p.cur \in 1..Len(p.loaded)
  <2>1. InLoop(Len(p.loaded), p.cur) /\ p.cur \in Nat /\ Len(p.loaded) \in Nat /\ p.cur >= 1
    BY HeldFacts DEF PlaceInv
  <2> QED
    BY <2>1 DEF InLoop
<1>3. p'.cur \in 1..Len(p'.loaded) /\ p'.times = p.times /\ p'.loaded[p'.cur] = p.loaded[p.cur]
  BY <1>1, <1>2 DEF SamePlace
<1>4. DOMAIN p'.loaded = 1..Len(p'.loaded)
  <2>1. IInv'
    BY InitFrameLoadsGood, InitFrameFailsGood, StagingSettlesGood
  <2> QED
    BY <2>1, LoadedFacts DEF IInv, Held, Good, FramesGood
<1> QED
  BY <1>3, <1>4

LEMMA PlaceHolds ==
  ASSUME ~StaleOwed, ~ThinLoop
  PROVE  Spec => []PlaceInv
<1>1. Init => PlaceInv
  BY FrameAssumption, PlaceStarts
<1>2. IInv /\ IInv' /\ PlaceInv /\ [Next]_vars => PlaceInv'
  BY FrameAssumption, NextPlace
<1> QED
  BY <1>1, <1>2, IInvHolds, PTL DEF Spec

\* A frame that joins, leaves or is replaced does not make playback jump: what
\* _afterFrameInserted does to the cursor when the load or a swap puts frames in
\* leaves it on the frame it was on, for any order in which frames load and fail,
\* with fades, dedup and refreshes, once two frames are loaded before the clock moves.
THEOREM PlaceKept ==
  ASSUME ~StaleOwed, ~ThinLoop
  PROVE  Spec => PlaybackKeepsPlace
<1>1. IInv /\ PlaceInv /\ [Next]_vars =>
        [ Len(p.loaded) >= 2
            /\ ~(/\ p'.cur \in DOMAIN p'.loaded
                 /\ p'.times[p'.loaded[p'.cur]] = p.times[p.loaded[p.cur]])
          => ~(InitFrameLoads \/ InitFrameFails \/ \E ok \in SUBSET staging : StagingSettles(ok)) ]_vars
  BY FrameAssumption, StepKeepsPlace
<1> QED
  BY <1>1, IInvHolds, PlaceHolds, PTL DEF Spec, PlaybackKeepsPlace

-----------------------------------------------------------------------------
(* Motion: types                                                           *)

MLayers    == {[id |-> n, shows |-> Shows[n]] : n \in 1..Len(Shows)}
MaybeLayer == MLayers \cup {Null}
Vectors    == [from : MaybeLayer, to : MaybeLayer, view : Nat]
MFrames    == [layer : MaybeLayer, loops : BOOLEAN, snap : Nat \cup {Null}, motion : Vectors \cup {Null}]
Snapshots  == [fi : Nat, layer : MLayers, view : Nat, by : {"load", "init", "shift", "all"}]
Workers    == {"untried", "worker", "sync"}
Estimates  == [prev : MaybeLayer, cur : MaybeLayer, view : Nat, seen : Nat, on : Workers]
Players    == [config : Configs, view : Nat, cleared : Nat, due : BOOLEAN, worker : Workers,
               made : Nat, loading : BOOLEAN, next : Nat]

MotionTypes ==
    /\ arrays \in Seq(MFrames)
    /\ captures \subseteq Snapshots
    /\ requests \subseteq Estimates
    /\ player \in Players

\* A layer is no older than the number of layers made, and a snapshot is of the view.
FrameGood(f, pl) ==
    /\ f.loops => f.layer # Null
    /\ f.snap \in {Null, pl.view}
    /\ f.layer # Null => f.layer.id <= pl.made

\* VectorsFit for a pair that has layers, whether it is in the loop or not.
VectorGood(f, before, pl) ==
    f.motion # Null /\ f.layer # Null /\ before.layer # Null =>
        /\ f.motion.view = pl.view
        /\ f.motion.to = f.layer
        /\ f.motion.from.shows = before.layer.shows

BlankFrame(f) == f.layer = Null /\ f.snap = Null /\ f.motion = Null

\* While frames are added, those to come are blank, and all that have a layer,
\* but the last that got one, are in the loop.
LoadGood(ss, pl) ==
    /\ pl.next # 0 => pl.loading /\ pl.next <= Len(ss)
    /\ \A j \in 1..Len(ss) : j <= pl.next => BlankFrame(ss[j])
    /\ pl.next # 0 => \A j \in 1..Len(ss) : j > pl.next => ss[j].layer # Null
    /\ pl.next # 0 => \A j \in 1..Len(ss) : j = pl.next + 1 => ss[j].motion = Null
    /\ pl.loading => \A i, j \in 1..Len(ss) : i < j /\ ss[i].layer # Null => ss[j].loops

SlotsGood(ss, pl) ==
    /\ ss \in Seq(MFrames)
    /\ \A i \in 1..Len(ss) : FrameGood(ss[i], pl)
    /\ \A i \in 2..Len(ss) : VectorGood(ss[i], ss[i - 1], pl)
    /\ LoadGood(ss, pl)

\* An estimate of this view is of two snapshots of it; without a first layer it
\* finds no pair while frames are added.
EstimateGood(r, ss, pl) ==
    /\ r.view <= pl.view
    /\ r.view = pl.view => r.seen = pl.view
    /\ r.cur # Null => r.cur.id <= pl.made
    /\ r.view = pl.view /\ r.prev = Null /\ r.cur # Null /\ pl.next # 0 =>
           \A j \in 1..Len(ss) : ss[j].layer # r.cur

\* A clip is of the mask there is, and of this view unless another is coming.
CoverGood ==
    /\ cover.mask # Null => cover.mask = Mask
    /\ \A c \in cover.clips : c.mask # Null
    /\ cover.clip # Null =>
           /\ cover.mask # Null /\ cover.clip.mask = cover.mask
           /\ \/ player.due = TRUE \/ cover.clip.view = player.view
              \/ \E c \in cover.clips : c.mask = cover.mask /\ c.view = player.view

MotionInv ==
    /\ MotionTypes
    /\ SlotsGood(arrays, player)
    /\ \A r \in requests : EstimateGood(r, arrays, player)
    /\ CoverGood

\* A function over 1..n is a sequence of its values.
LEMMA AsSeq ==
  ASSUME NEW n \in Nat, NEW S, NEW f \in [1..n -> S]
  PROVE  f \in Seq(S) /\ Len(f) = n /\ DOMAIN f = 1..n
OBVIOUS

LEMMA SlotFacts ==
  ASSUME NEW ss \in Seq(MFrames)
  PROVE  /\ Len(ss) \in Nat /\ DOMAIN ss = 1..Len(ss)
         /\ \A i \in 1..Len(ss) : ss[i] \in MFrames
OBVIOUS

\* What a layer is that is not Null.
LEMMA LayerFacts ==
  ASSUME NEW l \in MaybeLayer
  PROVE  /\ l # Null <=> l \in MLayers
         /\ l # Null => l.id \in 1..Len(Shows)
<1>1. Null \notin MLayers
  BY MotionAssumption DEF MLayers
<1>2. ASSUME l \in MLayers PROVE l.id \in 1..Len(Shows)
  BY <1>2 DEF MLayers
<1> QED
  BY <1>1, <1>2 DEF MaybeLayer

\* Where a pair is by now.
LEMMA PairFacts ==
  ASSUME NEW ss \in Seq(MFrames), NEW r
  PROVE  \/ PairIndex(r, ss) = 0
         \/ /\ PairIndex(r, ss) \in 2..Len(ss)
            /\ r.cur # Null
            /\ ss[PairIndex(r, ss)].layer = r.cur
            /\ ss[PairIndex(r, ss) - 1].layer = r.prev
<1> DEFINE at == {i \in 2 .. Len(ss) : r.cur # Null /\ ss[i].layer = r.cur /\ ss[i - 1].layer = r.prev}
<1>1. CASE at = {}
  BY <1>1 DEF PairIndex
<1>2. CASE at # {}
  <2>1. at \subseteq Nat
    BY SlotFacts
  <2>2. Min(at) \in at
    BY <1>2, <2>1, LeastOf
  <2>3. PairIndex(r, ss) = Min(at)
    BY <1>2 DEF PairIndex
  <2> QED
    BY <2>2, <2>3
<1> QED
  BY <1>1, <1>2
-----------------------------------------------------------------------------
(* Motion: vectors                                                         *)

\* Frames that keep all but a vector, or not that either.
Thinned(ss, tt) ==
    /\ tt \in Seq(MFrames) /\ Len(tt) = Len(ss)
    /\ \A i \in 1..Len(ss) : /\ tt[i].layer = ss[i].layer /\ tt[i].loops = ss[i].loops /\ tt[i].snap = ss[i].snap
                             /\ tt[i].motion \in {ss[i].motion, Null}

LEMMA ThinnedGood ==
  ASSUME NEW pl, NEW ss, NEW tt, pl \in Players, SlotsGood(ss, pl), Thinned(ss, tt)
  PROVE  SlotsGood(tt, pl)
<1>1. /\ ss \in Seq(MFrames) /\ tt \in Seq(MFrames) /\ Len(ss) \in Nat /\ Len(tt) = Len(ss)
      /\ pl.next \in Nat
  BY SlotFacts DEF SlotsGood, Thinned, Players
<1>2. \A i \in 1..Len(tt) : FrameGood(tt[i], pl)
  BY <1>1 DEF SlotsGood, Thinned, FrameGood
<1>3. ASSUME NEW i \in 2..Len(tt) PROVE VectorGood(tt[i], tt[i - 1], pl)
  <2>1. i \in 1..Len(ss) /\ i - 1 \in 1..Len(ss) /\ i \in 2..Len(ss)
    BY <1>1
  <2> QED
    BY <2>1 DEF SlotsGood, Thinned, VectorGood
<1>4. LoadGood(tt, pl)
  BY <1>1 DEF SlotsGood, Thinned, LoadGood, BlankFrame
<1> QED
  BY <1>1, <1>2, <1>3, <1>4 DEF SlotsGood

\* An estimate's fate depends on the layers only.
LEMMA RequestMoves ==
  ASSUME NEW pl, NEW ss, NEW tt, NEW r, EstimateGood(r, ss, pl), Len(tt) = Len(ss),
         \A i \in 1..Len(ss) : tt[i].layer = ss[i].layer
  PROVE  EstimateGood(r, tt, pl)
BY DEF EstimateGood

\* A frame without its vector is one still.
LEMMA Vectorless ==
  ASSUME NEW f \in MFrames
  PROVE  /\ [f EXCEPT !.motion = Null] \in MFrames
         /\ [f EXCEPT !.motion = Null].layer = f.layer
         /\ [f EXCEPT !.motion = Null].loops = f.loops
         /\ [f EXCEPT !.motion = Null].snap = f.snap
         /\ [f EXCEPT !.motion = Null].motion = Null
BY DEF MFrames

\* Some frames without their vectors are Thinned.
LEMMA ThinnedWhere ==
  ASSUME NEW ss \in Seq(MFrames), NEW S,
         NEW tt, tt = [i \in DOMAIN ss |-> IF i \in S THEN [ss[i] EXCEPT !.motion = Null] ELSE ss[i]]
  PROVE  Thinned(ss, tt)
<1>1. Len(ss) \in Nat /\ DOMAIN ss = 1..Len(ss) /\ \A i \in 1..Len(ss) : ss[i] \in MFrames
  BY SlotFacts
<1>2. \A i \in 1..Len(ss) : /\ tt[i] \in MFrames /\ tt[i].layer = ss[i].layer /\ tt[i].loops = ss[i].loops
                            /\ tt[i].snap = ss[i].snap /\ tt[i].motion \in {ss[i].motion, Null}
  BY <1>1, Vectorless
<1>3. tt \in [1..Len(ss) -> MFrames]
  BY <1>1, <1>2
<1>4. tt \in Seq(MFrames) /\ Len(tt) = Len(ss)
  BY <1>1, <1>3, AsSeq
<1> QED
  BY <1>2, <1>4 DEF Thinned

LEMMA UnmovedThins ==
  ASSUME NEW ss \in Seq(MFrames), NEW is
  PROVE  Thinned(ss, Unmoved(ss, is))
<1> DEFINE S == {i \in is : Lacks(ss, i)}
<1>1. Unmoved(ss, is) = [i \in DOMAIN ss |-> IF i \in S THEN [ss[i] EXCEPT !.motion = Null] ELSE ss[i]]
  BY DEF Unmoved
<1> HIDE DEF S
<1> QED
  BY <1>1, ThinnedWhere

\* What is asked is of two snapshots of the view, and of two layers while
\* frames are added.
LEMMA AskedGood ==
  ASSUME player \in Players, NEW ss, SlotsGood(ss, player), NEW is, NEW on \in Workers,
         NEW compares \in SUBSET Comparable(ss, is), NEW r \in Asked(ss, compares, on)
  PROVE  r \in Estimates /\ EstimateGood(r, ss, player)
<1>1. /\ ss \in Seq(MFrames) /\ Len(ss) \in Nat /\ DOMAIN ss = 1..Len(ss)
      /\ \A i \in 1..Len(ss) : ss[i] \in MFrames /\ FrameGood(ss[i], player)
      /\ player.next \in Nat /\ player.view \in Nat
  BY SlotFacts DEF SlotsGood, Players
<1>2. PICK i \in compares :
         r = [prev |-> ss[i - 1].layer, cur |-> ss[i].layer, view |-> player.view,
              seen |-> Min({ss[i - 1].snap, ss[i].snap}), on |-> on]
  BY DEF Asked
<1> i \in DOMAIN ss /\ ~Lacks(ss, i)
  BY DEF Comparable
<1>3. i \in 1..Len(ss) /\ i >= 2 /\ i - 1 \in 1..Len(ss)
  BY <1>1 DEF Lacks
<1>4. ss[i].snap # Null /\ ss[i - 1].snap # Null
  BY <1>1, <1>2, <1>3 DEF Lacks, At
<1>5. ss[i].snap = player.view /\ ss[i - 1].snap = player.view
  BY <1>1, <1>3, <1>4 DEF FrameGood
<1>6. Min({player.view}) = player.view
  <2>1. {player.view} \subseteq Nat /\ {player.view} # {}
    BY <1>1
  <2>2. Min({player.view}) \in {player.view}
    BY <2>1, LeastOf
  <2> QED
    BY <2>2
<1>7. {ss[i - 1].snap, ss[i].snap} = {player.view}
  BY <1>5
<1>8. /\ r.prev = ss[i - 1].layer /\ r.cur = ss[i].layer /\ r.view = player.view /\ r.seen = player.view
      /\ r.on = on
  BY <1>2, <1>6, <1>7
<1>9. r \in Estimates
  <2>1. ss[i].layer \in MaybeLayer /\ ss[i - 1].layer \in MaybeLayer
    BY <1>1, <1>3 DEF MFrames
  <2> QED
    BY <1>1, <1>2, <1>6, <1>7, <2>1 DEF Estimates
<1>10. r.cur # Null => r.cur.id <= player.made
  BY <1>1, <1>3, <1>8 DEF FrameGood
<1>11. player.next # 0 => r.prev # Null
  <2>1. SUFFICES ASSUME player.next # 0 PROVE ss[i - 1].layer # Null
    BY <1>8
  <2>2. LoadGood(ss, player)
    BY DEF SlotsGood
  <2>3. ~(i - 1 <= player.next)
    BY <1>3, <1>4, <2>2 DEF LoadGood, BlankFrame
  <2> QED
    BY <1>1, <1>3, <2>1, <2>2, <2>3 DEF LoadGood
<1> QED
  BY <1>1, <1>8, <1>9, <1>10, <1>11 DEF EstimateGood

\* An answer of this view goes to a pair of the layers it is about.
LEMMA AdoptedGood ==
  ASSUME player \in Players, SlotsGood(arrays, player), NEW r \in Estimates, EstimateGood(r, arrays, player),
         NEW m \in {Null, Measured(r)},
         NEW tt, tt = Adopted(r, arrays, m)
  PROVE  SlotsGood(tt, player) /\ Len(tt) = Len(arrays) /\ \A i \in 1..Len(arrays) : tt[i].layer = arrays[i].layer
<1> DEFINE at == PairIndex(r, arrays)
<1>1. /\ arrays \in Seq(MFrames) /\ Len(arrays) \in Nat /\ DOMAIN arrays = 1..Len(arrays)
      /\ \A i \in 1..Len(arrays) : arrays[i] \in MFrames /\ FrameGood(arrays[i], player)
      /\ player.next \in Nat /\ player.view \in Nat
  BY SlotFacts DEF SlotsGood, Players
<1>2. CASE r.view # player.view \/ at = 0
  BY <1>2 DEF Adopted
<1>3. CASE r.view = player.view /\ at # 0
  <2>1. /\ at \in 2..Len(arrays) /\ r.cur # Null
        /\ arrays[at].layer = r.cur /\ arrays[at - 1].layer = r.prev
    BY <1>1, <1>3, PairFacts
  <2>2. tt = [arrays EXCEPT ![at].motion = m]
    BY <1>3 DEF Adopted
  <2> HIDE DEF at
  <2>3. at \in 1..Len(arrays) /\ at - 1 \in 1..Len(arrays)
    BY <1>1, <2>1
  <2>4. m \in Vectors \cup {Null} /\ (m # Null => m.view = player.view /\ m.to = r.cur /\ m.from = r.prev)
    BY <1>3 DEF Measured, Estimates, Vectors, EstimateGood
  <2>5. /\ DOMAIN tt = 1..Len(arrays) /\ tt = [i \in 1..Len(arrays) |-> tt[i]]
        /\ \A i \in 1..Len(arrays) : i # at => tt[i] = arrays[i]
        /\ tt[at] = [arrays[at] EXCEPT !.motion = m]
    BY <1>1, <2>2, <2>3
  <2>6. /\ tt[at] \in MFrames /\ tt[at].layer = arrays[at].layer /\ tt[at].loops = arrays[at].loops
        /\ tt[at].snap = arrays[at].snap /\ tt[at].motion = m
    <3>1. arrays[at] \in MFrames
      BY <1>1, <2>3
    <3> QED
      BY <2>4, <2>5, <3>1 DEF MFrames
  <2>7. \A i \in 1..Len(arrays) : /\ tt[i] \in MFrames /\ tt[i].layer = arrays[i].layer
                                  /\ tt[i].loops = arrays[i].loops /\ tt[i].snap = arrays[i].snap
                                  /\ i # at => tt[i].motion = arrays[i].motion
    BY <1>1, <2>3, <2>5, <2>6
  <2>8. tt \in Seq(MFrames) /\ Len(tt) = Len(arrays)
    BY <1>1, <2>5, <2>7, AsSeq
  <2>9. \A i \in 1..Len(tt) : FrameGood(tt[i], player)
    BY <1>1, <2>7, <2>8 DEF FrameGood
  <2>10. ASSUME NEW i \in 2..Len(tt) PROVE VectorGood(tt[i], tt[i - 1], player)
    <3>1. i \in 1..Len(arrays) /\ i - 1 \in 1..Len(arrays) /\ i \in 2..Len(arrays)
      BY <1>1, <2>8
    <3>2. CASE i = at
      BY <2>1, <2>4, <2>6, <2>7, <3>1, <3>2 DEF VectorGood
    <3>3. CASE i # at
      <4>1. VectorGood(arrays[i], arrays[i - 1], player)
        BY <3>1 DEF SlotsGood
      <4> QED
        BY <2>7, <3>1, <3>3, <4>1 DEF VectorGood
    <3> QED
      BY <3>2, <3>3
  <2>11. player.next # 0 => at > player.next + 1
    <3> SUFFICES ASSUME player.next # 0 PROVE at > player.next + 1
      OBVIOUS
    <3>1. LoadGood(arrays, player)
      BY DEF SlotsGood
    <3>2. ~(at <= player.next)
      BY <2>1, <2>3, <3>1 DEF LoadGood, BlankFrame
    <3>3. r.prev # Null
      BY <1>3, <2>1, <2>3 DEF EstimateGood
    <3>4. ~(at - 1 <= player.next)
      BY <2>1, <2>3, <3>1, <3>3 DEF LoadGood, BlankFrame
    <3> QED
      BY <1>1, <2>3, <3>2, <3>4
  <2>12. LoadGood(tt, player)
    <3>1. LoadGood(arrays, player)
      BY DEF SlotsGood
    <3>2. \A j \in 1..Len(arrays) : player.next # 0 /\ j <= player.next + 1 => j # at
      BY <1>1, <2>3, <2>11
    <3>3. /\ player.next # 0 => player.loading /\ player.next <= Len(tt)
          /\ \A j \in 1..Len(tt) : j <= player.next => BlankFrame(tt[j])
      <4>1. \A j \in 1..Len(tt) : j <= player.next => j # at /\ j \in 1..Len(arrays) /\ BlankFrame(arrays[j])
        BY <1>1, <2>8, <3>1, <3>2 DEF LoadGood
      <4>2. \A j \in 1..Len(tt) : j <= player.next => BlankFrame(tt[j])
        BY <2>7, <4>1 DEF BlankFrame
      <4> QED
        BY <2>8, <3>1, <4>2 DEF LoadGood
    <3>4. player.next # 0 => \A j \in 1..Len(tt) : j = player.next + 1 => tt[j].motion = Null
      <4>1. player.next # 0 => \A j \in 1..Len(tt) : j = player.next + 1 =>
               j # at /\ j \in 1..Len(arrays) /\ arrays[j].motion = Null
        BY <1>1, <2>8, <3>1, <3>2 DEF LoadGood
      <4> QED
        BY <2>7, <4>1
    <3>5. /\ player.next # 0 => \A j \in 1..Len(tt) : j > player.next => tt[j].layer # Null
          /\ player.loading => \A i, j \in 1..Len(tt) : i < j /\ tt[i].layer # Null => tt[j].loops
      BY <2>7, <2>8, <3>1 DEF LoadGood
    <3> QED
      BY <3>3, <3>4, <3>5 DEF LoadGood
  <2> QED
    BY <2>7, <2>8, <2>9, <2>10, <2>12 DEF SlotsGood
<1> QED
  BY <1>2, <1>3
-----------------------------------------------------------------------------
(* Motion: what _dedupFrames leaves.                                       *)

\* One step of its walk, after frame i - 1 with last[i - 1].
Walked(last, i) ==
    IF i = 0 THEN 0
    ELSE IF arrays[i].loops /\ ~(last[i - 1] # 0 /\ SameSnapshot(i, last[i - 1])) THEN i
    ELSE last[i - 1]

LEMMA WalkFacts ==
  ASSUME Len(arrays) \in Nat
  PROVE  LastKept[0] = 0 /\ \A i \in 1..Len(arrays) : LastKept[i] = Walked(LastKept, i)
<1> DEFINE IsWalk(f, n) == f = [i \in 0..n |-> Walked(f, i)]
           S == {n \in Nat : \E f : IsWalk(f, n)}
<1>1. 0 \in S
  <2> DEFINE f == [i \in 0..0 |-> 0]
  <2>1. IsWalk(f, 0)
    BY DEF Walked
  <2> QED
    BY <2>1
<1>2. ASSUME NEW k \in 1..Len(arrays), k - 1 \in S PROVE k \in S
  <2>1. PICK g : IsWalk(g, k - 1)
    BY <1>2
  <2> DEFINE f == [i \in 0..k |-> IF i = k THEN Walked(g, k) ELSE g[i]]
  <2>2. k \in Nat /\ k >= 1 /\ \A i \in 0..k : i # k => i \in 0..(k - 1)
    OBVIOUS
  <2>3. \A i \in 0..k : i # k => f[i] = Walked(g, i)
    BY <2>1, <2>2
  <2>4. \A i \in 0..k : i # 0 => i - 1 \in 0..k /\ i - 1 # k /\ f[i - 1] = g[i - 1]
    BY <2>2
  <2>5. \A i \in 0..k : Walked(f, i) = Walked(g, i)
    BY <2>4 DEF Walked
  <2>6. \A i \in 0..k : f[i] = Walked(f, i)
    BY <2>3, <2>5
  <2>7. IsWalk(f, k)
    BY <2>6
  <2> HIDE DEF f, IsWalk
  <2> QED
    BY <2>2, <2>7
<1>3. Len(arrays) \in S
  <2> HIDE DEF S
  <2>1. \A k \in 0..Len(arrays) : k \in S
    BY <1>1, <1>2, UpTo
  <2> QED
    BY <2>1
<1>4. \E f : IsWalk(f, Len(arrays))
  BY <1>3
<1>5. LastKept = CHOOSE f : IsWalk(f, Len(arrays))
  BY DEF LastKept, Walked
<1>6. IsWalk(LastKept, Len(arrays))
  <2> HIDE DEF IsWalk
  <2> QED
    BY <1>4, <1>5
<1>7. \A i \in 0..Len(arrays) : LastKept[i] = Walked(LastKept, i)
  <2> DEFINE F == LastKept
  <2>1. F = [i \in 0..Len(arrays) |-> Walked(F, i)]
    BY <1>6
  <2> HIDE DEF F
  <2>2. \A i \in 0..Len(arrays) : F[i] = Walked(F, i)
    BY <2>1
  <2> QED
    BY <2>2 DEF F
<1> QED
  BY <1>7 DEF Walked

\* The frame last kept shows what the frame the walk has reached shows, and
\* is the last that was kept.
KeptAt(i) ==
    /\ LastKept[i] \in 0..i
    /\ LastKept[i] # 0 => arrays[LastKept[i]].loops /\ LastKept[LastKept[i]] = LastKept[i]
    /\ i # 0 /\ arrays[i].loops => LastKept[i] # 0 /\ arrays[LastKept[i]].layer.shows = arrays[i].layer.shows
    /\ \A j \in 1..i : LastKept[j] = j => j <= LastKept[i]

LEMMA WalkKeeps ==
  ASSUME Len(arrays) \in Nat
  PROVE  \A i \in 0..Len(arrays) : KeptAt(i)
<1> DEFINE S == {i \in 0..Len(arrays) : KeptAt(i)}
<1>1. LastKept[0] = 0 /\ \A i \in 1..Len(arrays) : LastKept[i] = Walked(LastKept, i)
  BY WalkFacts
<1>2. 0 \in S
  BY <1>1 DEF KeptAt
<1>3. ASSUME NEW k \in 1..Len(arrays), k - 1 \in S PROVE k \in S
  <2>1. KeptAt(k - 1) /\ k \in Nat /\ k \in 0..Len(arrays) /\ k # 0
    BY <1>3
  <2>2. CASE arrays[k].loops /\ ~(LastKept[k - 1] # 0 /\ SameSnapshot(k, LastKept[k - 1]))
    <3>1. LastKept[k] = k
      BY <1>1, <2>1, <2>2 DEF Walked
    <3>2. KeptAt(k)
      BY <2>1, <2>2, <3>1 DEF KeptAt
    <3> QED
      BY <2>1, <3>2
  <2>3. CASE arrays[k].loops /\ LastKept[k - 1] # 0 /\ SameSnapshot(k, LastKept[k - 1])
    <3>1. LastKept[k] = LastKept[k - 1]
      BY <1>1, <2>1, <2>3 DEF Walked
    <3>2. arrays[k].layer.shows = arrays[LastKept[k - 1]].layer.shows
      BY <2>3 DEF SameSnapshot
    <3>3. LastKept[k] # k /\ LastKept[k] \in 0..k
      BY <2>1, <3>1 DEF KeptAt
    <3>4. \A j \in 1..k : LastKept[j] = j => j <= LastKept[k]
      BY <2>1, <3>1, <3>3 DEF KeptAt
    <3>5. KeptAt(k)
      BY <2>1, <2>3, <3>1, <3>2, <3>3, <3>4 DEF KeptAt
    <3> QED
      BY <2>1, <3>5
  <2>4. CASE ~arrays[k].loops
    <3>1. LastKept[k] = LastKept[k - 1]
      BY <1>1, <2>1, <2>4 DEF Walked
    <3>2. LastKept[k] # k /\ LastKept[k] \in 0..k
      BY <2>1, <3>1 DEF KeptAt
    <3>3. \A j \in 1..k : LastKept[j] = j => j <= LastKept[k]
      BY <2>1, <3>1, <3>2 DEF KeptAt
    <3>4. KeptAt(k)
      BY <2>1, <2>4, <3>1, <3>2, <3>3 DEF KeptAt
    <3> QED
      BY <2>1, <3>4
  <2> QED
    BY <2>2, <2>3, <2>4
<1>4. \A k \in 0..Len(arrays) : k \in S
  <2> HIDE DEF S
  <2> QED
    BY <1>2, <1>3, UpTo
<1> QED
  BY <1>4

\* When all frames are in, those in the loop are a suffix; a vector into a frame
\* that was kept is from one that shows what the frame kept before it shows.
LEMMA DedupedGood ==
  ASSUME player \in Players, SlotsGood(arrays, player), player.loading, player.next = 0, Waiting = {}
  PROVE  SlotsGood(Deduped, [player EXCEPT !.loading = FALSE])
<1> DEFINE pl == [player EXCEPT !.loading = FALSE]
           looping == {i \in DOMAIN arrays : arrays[i].loops}
           K == {i \in looping : LastKept[i] = i}
           n == Cardinality(K)
           at == Ascending(K)
<1>1. /\ arrays \in Seq(MFrames) /\ Len(arrays) \in Nat /\ DOMAIN arrays = 1..Len(arrays)
      /\ \A i \in 1..Len(arrays) : arrays[i] \in MFrames /\ FrameGood(arrays[i], player)
      /\ \A i \in 2..Len(arrays) : VectorGood(arrays[i], arrays[i - 1], player)
      /\ LoadGood(arrays, player)
  BY SlotFacts DEF SlotsGood
<1>2. pl.next = 0 /\ pl.loading = FALSE /\ pl.view = player.view /\ pl.made = player.made
  BY DEF Players
<1> HIDE DEF pl
<1>3. /\ \A f : FrameGood(f, player) => FrameGood(f, pl)
      /\ \A f, g : VectorGood(f, g, player) => VectorGood(f, g, pl)
  BY <1>2 DEF FrameGood, VectorGood
<1>4. \A ss \in Seq(MFrames) : LoadGood(ss, pl)
  <2> SUFFICES ASSUME NEW ss \in Seq(MFrames) PROVE LoadGood(ss, pl)
    OBVIOUS
  <2>1. \A j \in 1..Len(ss) : ~(j <= 0)
    BY SlotFacts
  <2> QED
    BY <1>2, <2>1 DEF LoadGood
<1>5. CASE \A i \in looping : LastKept[i] = i
  <2>1. Deduped = arrays
    BY <1>5 DEF Deduped
  <2> QED
    BY <1>1, <1>3, <1>4, <2>1 DEF SlotsGood, pl
<1>6. CASE ~\A i \in looping : LastKept[i] = i
  <2>1. K \subseteq 1..Len(arrays) /\ K \subseteq Nat /\ IsFiniteSet(K)
    <3>1. IsFiniteSet(1..Len(arrays))
      BY <1>1, FS_Interval
    <3>2. K \in SUBSET (1..Len(arrays)) /\ K \subseteq Nat
      BY <1>1
    <3> QED
      BY <3>1, <3>2, FS_Subset
  <2>2. /\ n \in Nat /\ at \in [1..n -> K]
        /\ \A a, b \in 1..n : a < b => at[a] < at[b]
        /\ \A x \in K : \E k \in 1..n : at[k] = x
    BY <2>1, AscendingFacts
  <2>3. Deduped = [k \in 1..n |-> arrays[at[k]]]
    <3>1. DOMAIN at = 1..n
      BY <2>2
    <3>2. Deduped = [k \in DOMAIN at |-> arrays[at[k]]]
      BY <1>6 DEF Deduped
    <3> QED
      BY <3>1, <3>2
  <2>4. \A x \in K : x \in 1..Len(arrays) /\ arrays[x].loops /\ LastKept[x] = x
    BY <1>1
  <2> DEFINE dd == Deduped
  <2> HIDE DEF n, at, K, dd
  <2>5. \A k \in 1..n : at[k] \in K /\ at[k] \in 1..Len(arrays) /\ dd[k] = arrays[at[k]] /\ dd[k] \in MFrames
    BY <1>1, <2>2, <2>3, <2>4 DEF dd
  <2>6. dd \in Seq(MFrames) /\ Len(dd) = n
    <3>1. dd \in [1..n -> MFrames]
      BY <2>3, <2>5 DEF dd
    <3> QED
      BY <2>2, <3>1, AsSeq
  <2>7. \A k \in 1..Len(dd) : FrameGood(dd[k], pl)
    BY <1>1, <1>3, <2>5, <2>6
  <2>8. ASSUME NEW k \in 2..Len(dd) PROVE VectorGood(dd[k], dd[k - 1], pl)
    <3>1. k \in 1..n /\ k - 1 \in 1..n /\ k - 1 < k
      BY <2>2, <2>6
    <3> DEFINE x == at[k - 1]
               y == at[k]
    <3>2. x \in 1..Len(arrays) /\ y \in 1..Len(arrays) /\ x < y /\ x \in K /\ y \in K
      BY <2>2, <2>5, <3>1
    <3>3. \A z \in K : z < y => z <= x
      <4> SUFFICES ASSUME NEW z \in K, z < y PROVE z <= x
        OBVIOUS
      <4>1. PICK j \in 1..n : at[j] = z
        BY <2>2
      <4>2. ~(k < j) /\ j # k
        <5>1. ASSUME k < j PROVE FALSE
          <6>1. y < z
            BY <2>2, <3>1, <4>1, <5>1
          <6> QED
            BY <2>1, <3>2, <6>1
        <5>2. z \in Nat /\ y \in Nat
          BY <2>1, <3>2
        <5> QED
          BY <4>1, <5>1, <5>2
      <4>3. j = k - 1 \/ j < k - 1
        BY <2>2, <3>1, <4>2
      <4>4. z = x \/ z < x
        BY <2>2, <3>1, <4>1, <4>3
      <4> QED
        BY <2>1, <3>2, <4>4
    <3> HIDE DEF x, y
    <3>4. y - 1 \in 1..Len(arrays) /\ x <= y - 1 /\ y \in 2..Len(arrays) /\ y - 1 < y
      BY <1>1, <3>2
    <3>5. KeptAt(y - 1)
      BY <1>1, <3>4, WalkKeeps
    \* The frame just below a kept one is in the loop.
    <3>6. arrays[y - 1].loops
      <4>1. CASE x = y - 1
        BY <2>4, <3>2, <4>1
      <4>2. CASE x < y - 1
        <5>1. arrays[x].loops /\ arrays[x].layer # Null
          BY <1>1, <2>4, <3>2 DEF FrameGood
        <5> QED
          BY <1>1, <3>2, <3>4, <4>2, <5>1 DEF LoadGood
      <4> QED
        BY <1>1, <3>2, <3>4, <4>1, <4>2
    <3>7. LastKept[y - 1] = x
      <4>1. LastKept[x] = x
        BY <2>4, <3>2
      <4>2. x \in 1..(y - 1)
        BY <1>1, <3>2, <3>4
      <4>3. x <= LastKept[y - 1]
        BY <3>5, <4>1, <4>2 DEF KeptAt
      <4>4. LastKept[y - 1] \in K
        <5>1. /\ LastKept[y - 1] \in 1..Len(arrays) /\ arrays[LastKept[y - 1]].loops
              /\ LastKept[LastKept[y - 1]] = LastKept[y - 1]
          BY <1>1, <3>2, <3>4, <3>5, <4>3 DEF KeptAt
        <5> QED
          BY <1>1, <5>1 DEF K
      <4>5. LastKept[y - 1] < y /\ LastKept[y - 1] \in Nat
        BY <1>1, <2>1, <3>4, <3>5, <4>4 DEF KeptAt
      <4>6. LastKept[y - 1] <= x
        BY <3>3, <4>4, <4>5
      <4> QED
        BY <1>1, <3>2, <4>3, <4>5, <4>6
    <3>8. arrays[x].layer.shows = arrays[y - 1].layer.shows
      BY <3>4, <3>5, <3>6, <3>7 DEF KeptAt
    <3>9. dd[k] = arrays[y] /\ dd[k - 1] = arrays[x]
      BY <2>5, <3>1 DEF x, y
    <3>10. arrays[y - 1].layer # Null /\ VectorGood(arrays[y], arrays[y - 1], player)
      BY <1>1, <3>4, <3>6 DEF FrameGood
    <3>11. VectorGood(arrays[y], arrays[x], player)
      BY <3>8, <3>10 DEF VectorGood
    <3> QED
      BY <1>3, <3>9, <3>11
  <2> QED
    BY <1>4, <2>6, <2>7, <2>8 DEF SlotsGood, dd, pl
<1> QED
  BY <1>5, <1>6
-----------------------------------------------------------------------------
(* Motion: the steps                                                       *)

LEMMA MotionInitially == InitMotion => MotionInv
<1> SUFFICES ASSUME InitMotion PROVE MotionInv
  OBVIOUS
<1>1. arrays = <<>> /\ captures = {} /\ requests = {} /\ cover.mask = Null /\ cover.clip = Null /\ cover.clips = {}
  BY DEF InitMotion
<1>2. player \in Players /\ player.next = 0
  BY DEF InitMotion, Players, Workers
<1>3. arrays \in Seq(MFrames) /\ Len(arrays) = 0
  BY <1>1
<1>4. SlotsGood(arrays, player)
  BY <1>2, <1>3 DEF SlotsGood, LoadGood
<1> QED
  BY <1>1, <1>2, <1>3, <1>4 DEF MotionInv, MotionTypes, CoverGood

\* A player of whom only these change still has its mask and its view.
SameView(pl, q) == q.view = pl.view /\ q.cleared = pl.cleared /\ q.config = pl.config /\ q.due = pl.due

LEMMA CoverStays ==
  ASSUME CoverGood, UNCHANGED cover, SameView(player, player')
  PROVE  CoverGood'
BY DEF CoverGood, SameView, Mask

\* The frames, the requests and the player after the computations that follow
\* frames ss, of the layers there are.
LEMMA ComputeGood ==
  ASSUME MotionInv, NEW is, NEW ss, SlotsGood(ss, player), Len(ss) = Len(arrays),
         \A i \in 1..Len(arrays) : ss[i].layer = arrays[i].layer,
         Compute(ss, is)
  PROVE  /\ player' \in Players /\ SlotsGood(arrays', player') /\ SameView(player, player')
         /\ requests' \subseteq Estimates /\ \A r \in requests' : EstimateGood(r, arrays', player')
<1>1. PICK compares \in SUBSET Comparable(ss, is), worker \in Workers :
        /\ arrays' = Unmoved(ss, is)
        /\ requests' = requests \cup Asked(ss, compares, worker)
        /\ player' = [player EXCEPT !.worker = worker]
  <2>1. PICK compares \in SUBSET Comparable(ss, is) :
          \E worker \in WorkerAfter(compares) :
            /\ arrays' = Unmoved(ss, is)
            /\ requests' = requests \cup Asked(ss, compares, worker)
            /\ player' = [player EXCEPT !.worker = worker]
    BY DEF Compute
  <2>2. WorkerAfter(compares) \subseteq Workers
    BY DEF WorkerAfter, MotionInv, MotionTypes, Players, Workers
  <2> QED
    BY <2>1, <2>2
<1>2. /\ player \in Players /\ player' \in Players /\ SameView(player, player')
      /\ player'.made = player.made /\ player'.next = player.next /\ player'.loading = player.loading
      /\ player'.view = player.view
  BY <1>1 DEF MotionInv, MotionTypes, Players, SameView
<1>3. Thinned(ss, arrays')
  BY <1>1, UnmovedThins DEF SlotsGood
<1>4. SlotsGood(arrays', player)
  BY <1>2, <1>3, ThinnedGood
<1>5. \A r \in requests' : r \in Estimates /\ EstimateGood(r, arrays', player)
  <2> TAKE r \in requests'
  <2>1. CASE r \in requests
    <3>1. r \in Estimates /\ EstimateGood(r, arrays, player)
      BY <2>1 DEF MotionInv, MotionTypes
    <3>2. Len(arrays') = Len(arrays) /\ \A i \in 1..Len(arrays) : arrays'[i].layer = arrays[i].layer
      BY <1>3 DEF Thinned
    <3> QED
      BY <3>1, <3>2, RequestMoves
  <2>2. CASE r \in Asked(ss, compares, worker)
    <3>1. r \in Estimates /\ EstimateGood(r, ss, player)
      BY <1>2, <2>2, AskedGood
    <3>2. Len(arrays') = Len(ss) /\ \A i \in 1..Len(ss) : arrays'[i].layer = ss[i].layer
      BY <1>3 DEF Thinned
    <3> QED
      BY <3>1, <3>2, RequestMoves
  <2> QED
    BY <1>1, <2>1, <2>2
<1>6. SlotsGood(arrays', player')
  BY <1>2, <1>4 DEF SlotsGood, FrameGood, VectorGood, LoadGood
<1>7. \A r \in requests' : EstimateGood(r, arrays', player')
  BY <1>2, <1>5 DEF EstimateGood
<1> QED
  BY <1>2, <1>5, <1>6, <1>7

\* A snapshot that counts is of the view there is and of a frame with a layer.
LEMMA SnappedGood ==
  ASSUME MotionInv, NEW c \in captures, NEW ss, ss = Snapped(c)
  PROVE  SlotsGood(ss, player) /\ Len(ss) = Len(arrays) /\ \A i \in 1..Len(arrays) : ss[i].layer = arrays[i].layer
<1>1. /\ arrays \in Seq(MFrames) /\ Len(arrays) \in Nat /\ DOMAIN arrays = 1..Len(arrays)
      /\ \A i \in 1..Len(arrays) : arrays[i] \in MFrames /\ FrameGood(arrays[i], player)
      /\ \A i \in 2..Len(arrays) : VectorGood(arrays[i], arrays[i - 1], player)
      /\ SlotsGood(arrays, player) /\ LoadGood(arrays, player)
      /\ player \in Players
  BY SlotFacts DEF MotionInv, MotionTypes, SlotsGood
<1>2. CASE ~Counts(c)
  BY <1>1, <1>2 DEF Snapped
<1>3. CASE Counts(c)
  <2>1. c.layer \in MLayers /\ c.layer # Null
    <3>1. c.layer \in MLayers
      BY DEF MotionInv, MotionTypes, Snapshots
    <3> QED
      BY <3>1, LayerFacts DEF MaybeLayer
  <2> DEFINE k == c.fi
  <2>2. k \in 1..Len(arrays) /\ arrays[k].layer = c.layer
    <3>1. At(arrays, k).layer = c.layer
      BY <1>3 DEF Counts
    <3>2. k \in DOMAIN arrays
      BY <2>1, <3>1 DEF At, NoFrame
    <3> QED
      BY <1>1, <3>1, <3>2 DEF At
  <2>3. ss = [arrays EXCEPT ![k].snap = c.view] /\ c.view = player.view
    BY <1>3 DEF Snapped, Counts
  <2> HIDE DEF k
  <2>4. /\ DOMAIN ss = 1..Len(arrays) /\ ss = [i \in 1..Len(arrays) |-> ss[i]]
        /\ \A i \in 1..Len(arrays) : i # k => ss[i] = arrays[i]
        /\ ss[k] = [arrays[k] EXCEPT !.snap = player.view]
    BY <1>1, <2>2, <2>3
  <2>5. /\ ss[k] \in MFrames /\ ss[k].layer = arrays[k].layer /\ ss[k].loops = arrays[k].loops
        /\ ss[k].snap = player.view /\ ss[k].motion = arrays[k].motion
    <3>1. arrays[k] \in MFrames /\ player.view \in Nat
      BY <1>1, <2>2 DEF Players
    <3> QED
      BY <2>4, <3>1 DEF MFrames
  <2>6. \A i \in 1..Len(arrays) : /\ ss[i] \in MFrames /\ ss[i].layer = arrays[i].layer
                                  /\ ss[i].loops = arrays[i].loops /\ ss[i].motion = arrays[i].motion
                                  /\ i # k => ss[i].snap = arrays[i].snap
    BY <1>1, <2>2, <2>4, <2>5
  <2>7. ss \in Seq(MFrames) /\ Len(ss) = Len(arrays)
    BY <1>1, <2>4, <2>6, AsSeq
  <2>8. \A i \in 1..Len(ss) : FrameGood(ss[i], player)
    BY <1>1, <2>5, <2>6, <2>7 DEF FrameGood
  <2>9. ASSUME NEW i \in 2..Len(ss) PROVE VectorGood(ss[i], ss[i - 1], player)
    <3>1. i \in 1..Len(arrays) /\ i - 1 \in 1..Len(arrays) /\ i \in 2..Len(arrays)
      BY <1>1, <2>7
    <3> QED
      BY <1>1, <2>6, <3>1 DEF VectorGood
  <2>10. player.next < k
    <3>1. ~(k <= player.next)
      BY <1>1, <2>1, <2>2 DEF LoadGood, BlankFrame
    <3> QED
      BY <1>1, <2>2, <3>1 DEF Players
  <2>11. LoadGood(ss, player)
    <3>1. player.next \in Nat /\ k \in Nat
      BY <1>1, <2>2 DEF Players
    <3>2. \A j \in 1..Len(ss) : j <= player.next => BlankFrame(ss[j])
      <4>1. \A j \in 1..Len(ss) : j <= player.next => j # k /\ j \in 1..Len(arrays) /\ BlankFrame(arrays[j])
        BY <1>1, <2>7, <2>10, <3>1 DEF LoadGood
      <4> QED
        BY <2>6, <4>1 DEF BlankFrame
    <3>3. LoadGood(arrays, player)
      BY <1>1
    <3>4. player.next # 0 => player.loading /\ player.next <= Len(ss)
      BY <2>7, <3>3 DEF LoadGood
    <3>5. player.next # 0 => \A j \in 1..Len(ss) : j > player.next => ss[j].layer # Null
      <4>1. \A j \in 1..Len(ss) : j \in 1..Len(arrays) /\ ss[j].layer = arrays[j].layer
        BY <2>6, <2>7
      <4> QED
        BY <2>7, <3>3, <4>1 DEF LoadGood
    <3>6. player.next # 0 => \A j \in 1..Len(ss) : j = player.next + 1 => ss[j].motion = Null
      <4>1. \A j \in 1..Len(ss) : j \in 1..Len(arrays) /\ ss[j].motion = arrays[j].motion
        BY <2>6, <2>7
      <4> QED
        BY <2>7, <3>3, <4>1 DEF LoadGood
    <3>7. player.loading => \A i, j \in 1..Len(ss) : i < j /\ ss[i].layer # Null => ss[j].loops
      <4>1. \A j \in 1..Len(ss) : j \in 1..Len(arrays) /\ ss[j].layer = arrays[j].layer
                                 /\ ss[j].loops = arrays[j].loops
        BY <2>6, <2>7
      <4> QED
        BY <2>7, <3>3, <4>1 DEF LoadGood
    <3> QED
      BY <3>2, <3>4, <3>5, <3>6, <3>7 DEF LoadGood
  <2> QED
    BY <2>6, <2>7, <2>8, <2>9, <2>11 DEF SlotsGood
<1> QED
  BY <1>2, <1>3
\* What is captured is of frames that have a layer.
LEMMA CapturesTyped ==
  ASSUME MotionInv, NEW is \in SUBSET (1..Len(arrays)), \A i \in is : arrays[i].layer # Null,
         NEW by \in {"load", "init", "shift", "all"}
  PROVE  Captures(is, by) \subseteq Snapshots
<1> SUFFICES ASSUME NEW i \in is PROVE Capture(i, arrays[i].layer, by) \in Snapshots
  BY DEF Captures
<1>1. arrays \in Seq(MFrames) /\ i \in 1..Len(arrays) /\ i \in Nat /\ player.view \in Nat
  BY SlotFacts DEF MotionInv, MotionTypes, Players
<1>2. arrays[i].layer \in MLayers
  <2>1. arrays[i] \in MFrames
    BY <1>1, SlotFacts
  <2>2. arrays[i].layer \in MaybeLayer /\ arrays[i].layer # Null
    BY <2>1 DEF MFrames
  <2> QED
    BY <2>2, LayerFacts
<1> QED
  BY <1>1, <1>2 DEF Capture, Snapshots

\* Without a new frame to add no estimate has lost what it needs.
LEMMA RequestsLate ==
  ASSUME NEW pl \in Players, NEW q \in Players, NEW ss, NEW tt, NEW r \in Estimates, EstimateGood(r, ss, pl),
         q.view >= pl.view, q.made >= pl.made, q.next = 0
  PROVE  EstimateGood(r, tt, q)
<1>1. /\ q.view \in Nat /\ pl.view \in Nat /\ q.made \in Nat /\ pl.made \in Nat /\ r.view \in Nat /\ Len(Shows) \in Nat
      /\ r.cur # Null => r.cur.id \in 1..Len(Shows)
  BY LayerFacts, MotionAssumption DEF Players, Estimates
<1>2. r.cur # Null => r.cur.id <= q.made
  BY <1>1 DEF EstimateGood
<1>3. q.view = pl.view \/ q.view > r.view
  BY <1>1 DEF EstimateGood
<1>4. r.view <= q.view /\ (r.view = q.view => r.seen = q.view)
  BY <1>1, <1>3 DEF EstimateGood
<1> QED
  BY <1>2, <1>4 DEF EstimateGood

\* A state of the invariant, taken apart once.
LEMMA MotionFacts ==
  ASSUME MotionInv
  PROVE  /\ arrays \in Seq(MFrames) /\ Len(arrays) \in Nat /\ DOMAIN arrays = 1..Len(arrays)
         /\ \A i \in 1..Len(arrays) : arrays[i] \in MFrames /\ FrameGood(arrays[i], player)
         /\ \A i \in 2..Len(arrays) : VectorGood(arrays[i], arrays[i - 1], player)
         /\ SlotsGood(arrays, player) /\ LoadGood(arrays, player)
         /\ player \in Players /\ player.view \in Nat /\ player.made \in Nat /\ player.next \in Nat
         /\ captures \subseteq Snapshots /\ requests \subseteq Estimates
         /\ \A r \in requests : r \in Estimates /\ EstimateGood(r, arrays, player)
BY SlotFacts DEF MotionInv, MotionTypes, SlotsGood, Players

LEMMA MadeFacts ==
  ASSUME player \in Players, FewLayers
  PROVE  Made \in MLayers /\ Made # Null /\ Made.id = player.made + 1 /\ player.made + 1 \in Nat
<1>1. player.made + 1 \in 1..Len(Shows)
  BY MotionAssumption DEF FewLayers, Players
<1>2. Made \in MLayers /\ Made.id = player.made + 1
  BY <1>1 DEF Made, MLayers
<1> QED
  BY <1>1, <1>2, LayerFacts DEF MaybeLayer

NoFrameTyped == NoFrame \in MFrames /\ BlankFrame(NoFrame) /\ NoFrame.loops = FALSE
LEMMA NoFrameFacts == NoFrameTyped
BY DEF NoFrameTyped, NoFrame, MFrames, MaybeLayer, BlankFrame

LEMMA InitRadarKeeps == MotionInv /\ InitRadar => MotionInv'
<1> SUFFICES ASSUME MotionInv, InitRadar PROVE MotionInv'
  OBVIOUS
<1>1. /\ arrays' = [i \in 1..NumFrames |-> NoFrame] /\ NumFrames \in Nat
      /\ player' = [player EXCEPT !.next = NumFrames, !.loading = TRUE]
      /\ cover' = [cover EXCEPT !.mask = Mask] /\ captures' = captures /\ requests' = requests
  BY MotionAssumption DEF InitRadar
<1>2. arrays' \in Seq(MFrames) /\ Len(arrays') = NumFrames
  <2>1. arrays' \in [1..NumFrames -> MFrames]
    BY <1>1, NoFrameFacts DEF NoFrameTyped
  <2> QED
    BY <1>1, <2>1, AsSeq
<1>3. \A i \in 1..NumFrames : arrays'[i] = NoFrame
  BY <1>1
<1>4. /\ player' \in Players /\ SameView(player, player') /\ player'.made = player.made
      /\ player'.next = NumFrames /\ player'.loading = TRUE
  BY <1>1, MotionFacts DEF Players, SameView
<1>5. SlotsGood(arrays', player')
  <2>1. \A i \in 1..NumFrames : FrameGood(arrays'[i], player')
    BY <1>3, NoFrameFacts DEF NoFrameTyped, BlankFrame, FrameGood
  <2>2. ASSUME NEW i \in 2..NumFrames PROVE VectorGood(arrays'[i], arrays'[i - 1], player')
    <3>1. i \in 1..NumFrames
      BY <1>1
    <3> QED
      BY <1>3, <3>1, NoFrameFacts DEF NoFrameTyped, BlankFrame, VectorGood
  <2>3. LoadGood(arrays', player')
    <3>1. \A j \in 1..NumFrames : j <= NumFrames /\ arrays'[j].layer = Null /\ BlankFrame(arrays'[j])
      BY <1>1, <1>3, NoFrameFacts DEF NoFrameTyped, BlankFrame
    <3> QED
      BY <1>1, <1>2, <1>4, <3>1 DEF LoadGood
  <2> QED
    BY <1>2, <2>1, <2>2, <2>3 DEF SlotsGood
<1>6. ASSUME NEW r \in requests PROVE EstimateGood(r, arrays', player')
  <2>1. EstimateGood(r, arrays, player)
    BY MotionFacts
  <2>2. \A j \in 1..Len(arrays') : arrays'[j].layer = Null
    BY <1>2, <1>3, NoFrameFacts DEF NoFrameTyped, BlankFrame
  <2> QED
    BY <1>4, <2>1, <2>2 DEF EstimateGood, SameView
<1>7. CoverGood'
  <2>1. Mask' = Mask
    BY <1>4 DEF Mask, SameView
  <2>2. CASE cover.clip # Null
    <3>1. cover.mask = Mask /\ cover.mask # Null
      BY <2>2 DEF MotionInv, CoverGood
    <3> QED
      BY <1>1, <1>4, <2>1, <2>2, <3>1 DEF MotionInv, CoverGood, SameView
  <2>3. CASE cover.clip = Null
    BY <1>1, <1>4, <2>1, <2>3 DEF MotionInv, CoverGood, SameView
  <2> QED
    BY <2>2, <2>3
<1> QED
  BY <1>1, <1>2, <1>4, <1>5, <1>6, <1>7, MotionFacts DEF MotionInv, MotionTypes

LEMMA AddFrameKeeps == MotionInv /\ FewLayers /\ AddFrame => MotionInv'
<1> SUFFICES ASSUME MotionInv, FewLayers, AddFrame PROVE MotionInv'
  OBVIOUS
<1> DEFINE k == player.next
<1>1. /\ arrays \in Seq(MFrames) /\ Len(arrays) \in Nat /\ DOMAIN arrays = 1..Len(arrays)
      /\ \A i \in 1..Len(arrays) : arrays[i] \in MFrames /\ FrameGood(arrays[i], player)
      /\ \A i \in 2..Len(arrays) : VectorGood(arrays[i], arrays[i - 1], player)
      /\ LoadGood(arrays, player)
      /\ player \in Players /\ player.view \in Nat /\ player.made \in Nat /\ player.next \in Nat
      /\ \A r \in requests : r \in Estimates /\ EstimateGood(r, arrays, player)
  BY MotionFacts
<1>2. /\ k > 0 /\ Waiting = {} /\ arrays' = [arrays EXCEPT ![k].layer = Made]
      /\ player' = [player EXCEPT !.made = @ + 1, !.next = @ - 1]
      /\ captures' = captures /\ requests' = requests /\ cover' = cover
  BY DEF AddFrame
<1>3. k \in 1..Len(arrays) /\ player.loading /\ BlankFrame(arrays[k])
  BY <1>1, <1>2 DEF LoadGood
<1>4. Made \in MLayers /\ Made # Null /\ Made.id = player.made + 1
  BY <1>1, MadeFacts
<1>5. /\ player' \in Players /\ SameView(player, player') /\ player'.made = player.made + 1
      /\ player'.next = k - 1 /\ player'.loading = TRUE
  <2>1. k - 1 \in Nat /\ player.made + 1 \in Nat
    BY <1>1, <1>2
  <2>2. player' \in Players /\ SameView(player, player') /\ player'.loading = player.loading
    BY <1>1, <1>2, <2>1 DEF Players, SameView
  <2>3. player'.made = player.made + 1 /\ player'.next = k - 1
    BY <1>1, <1>2 DEF Players
  <2>4. player'.loading = TRUE
    BY <1>1, <1>3, <2>2 DEF Players
  <2> QED
    BY <2>2, <2>3, <2>4
<1> HIDE DEF k
<1>6. /\ DOMAIN arrays' = 1..Len(arrays) /\ arrays' = [i \in 1..Len(arrays) |-> arrays'[i]]
      /\ \A i \in 1..Len(arrays) : i # k => arrays'[i] = arrays[i]
      /\ arrays'[k] = [arrays[k] EXCEPT !.layer = Made]
  BY <1>1, <1>2, <1>3
<1>7. /\ arrays'[k] \in MFrames /\ arrays'[k].layer = Made /\ arrays'[k].loops = arrays[k].loops
      /\ arrays'[k].snap = Null /\ arrays'[k].motion = Null
  <2>1. arrays[k] \in MFrames
    BY <1>1, <1>3
  <2> QED
    BY <1>3, <1>4, <1>6, <2>1 DEF MFrames, BlankFrame, MaybeLayer
<1>8. arrays' \in Seq(MFrames) /\ Len(arrays') = Len(arrays)
  <2>1. \A i \in 1..Len(arrays) : arrays'[i] \in MFrames
    BY <1>1, <1>6, <1>7
  <2> QED
    BY <1>1, <1>6, <2>1, AsSeq
<1>9. \A i \in 1..Len(arrays') : FrameGood(arrays'[i], player')
  <2> SUFFICES ASSUME NEW i \in 1..Len(arrays) PROVE FrameGood(arrays'[i], player')
    BY <1>8
  <2>1. CASE i = k
    BY <1>1, <1>4, <1>5, <1>7, <2>1 DEF FrameGood, SameView
  <2>2. CASE i # k
    <3>1. arrays'[i] = arrays[i] /\ FrameGood(arrays[i], player) /\ arrays[i].layer \in MaybeLayer
      BY <1>1, <1>6, <2>2 DEF MFrames
    <3>2. arrays[i].layer # Null => arrays[i].layer.id \in Int
      BY <3>1, LayerFacts, MotionAssumption
    <3> QED
      BY <1>1, <1>5, <3>1, <3>2 DEF FrameGood, SameView
  <2> QED
    BY <2>1, <2>2
<1>10. ASSUME NEW i \in 2..Len(arrays') PROVE VectorGood(arrays'[i], arrays'[i - 1], player')
  <2>1. i \in 1..Len(arrays) /\ i - 1 \in 1..Len(arrays) /\ i \in 2..Len(arrays)
    BY <1>1, <1>8
  <2>2. CASE i = k
    BY <1>7, <2>2 DEF VectorGood
  <2>3. CASE i = k + 1
    <3>1. i # k /\ arrays'[i] = arrays[i] /\ arrays[i].motion = Null
      BY <1>1, <1>2, <1>3, <1>6, <2>1, <2>3 DEF LoadGood, k
    <3> QED
      BY <3>1 DEF VectorGood
  <2>4. CASE i # k /\ i # k + 1
    <3>1. arrays'[i] = arrays[i] /\ arrays'[i - 1] = arrays[i - 1]
      BY <1>3, <1>6, <2>1, <2>4
    <3> QED
      BY <1>1, <1>5, <2>1, <3>1 DEF VectorGood, SameView
  <2> QED
    BY <2>2, <2>3, <2>4
<1>11. LoadGood(arrays', player')
  <2>1. player'.next # 0 => player'.loading /\ player'.next <= Len(arrays')
    BY <1>1, <1>3, <1>5, <1>8
  <2>2. ASSUME NEW j \in 1..Len(arrays'), j <= player'.next PROVE BlankFrame(arrays'[j])
    <3>1. j # k /\ j <= player.next /\ j \in 1..Len(arrays)
      BY <1>1, <1>3, <1>5, <1>8, <2>2 DEF k
    <3> QED
      BY <1>1, <1>6, <3>1 DEF LoadGood
  <2>3. ASSUME NEW j \in 1..Len(arrays'), j > player'.next PROVE arrays'[j].layer # Null
    <3>1. CASE j = k
      BY <1>4, <1>7, <3>1
    <3>2. CASE j # k
      <4>1. j > player.next /\ player.next # 0 /\ j \in 1..Len(arrays)
        BY <1>1, <1>2, <1>3, <1>5, <1>8, <2>3, <3>2 DEF k
      <4> QED
        BY <1>1, <1>6, <3>2, <4>1 DEF LoadGood
    <3> QED
      BY <3>1, <3>2
  <2>4. ASSUME NEW j \in 1..Len(arrays'), j = player'.next + 1 PROVE arrays'[j].motion = Null
    <3>1. j = k
      BY <1>3, <1>5, <2>4
    <3> QED
      BY <1>7, <3>1
  <2>5. ASSUME NEW i \in 1..Len(arrays'), NEW j \in 1..Len(arrays'), i < j, arrays'[i].layer # Null
        PROVE  arrays'[j].loops
    <3>1. i \in 1..Len(arrays) /\ j \in 1..Len(arrays)
      BY <1>8
    <3>2. i >= k
      <4>1. ~(i <= player'.next)
        BY <2>2, <2>5 DEF BlankFrame
      <4> QED
        BY <1>3, <1>5, <3>1, <4>1
    <3>3. j # k /\ j > player.next /\ player.next # 0 /\ arrays'[j] = arrays[j]
      BY <1>2, <1>3, <1>6, <2>5, <3>1, <3>2 DEF k
    <3>4. arrays[j].layer # Null
      BY <1>1, <3>1, <3>3 DEF LoadGood
    <3> QED
      BY <1>1, <1>2, <3>1, <3>3, <3>4 DEF Waiting
  <2> QED
    BY <2>1, <2>2, <2>3, <2>4, <2>5 DEF LoadGood
<1>12. ASSUME NEW r \in requests PROVE EstimateGood(r, arrays', player')
  <2>1. r \in Estimates /\ EstimateGood(r, arrays, player)
    BY <1>1
  <2>2. r.cur # Null => r.cur.id \in Int /\ r.cur.id <= player.made /\ r.cur # Made
    <3>1. SUFFICES ASSUME r.cur # Null PROVE r.cur.id \in Int /\ r.cur.id <= player.made /\ r.cur # Made
      OBVIOUS
    <3>2. r.cur.id \in 1..Len(Shows) /\ r.cur.id <= player.made
      BY <2>1, <3>1, LayerFacts DEF Estimates, EstimateGood
    <3>3. r.cur.id \in Int
      BY <3>2, MotionAssumption
    <3>4. r.cur.id # player.made + 1
      BY <1>1, <3>2, <3>3
    <3> QED
      BY <1>4, <3>2, <3>3, <3>4
  <2>3. r.cur # Null => r.cur.id <= player'.made
    BY <1>1, <1>5, <2>2
  <2>4. ASSUME r.view = player.view, r.prev = Null, r.cur # Null, NEW j \in 1..Len(arrays')
        PROVE  arrays'[j].layer # r.cur
    <3>1. CASE j = k
      BY <1>7, <2>2, <2>4, <3>1
    <3>2. CASE j # k
      <4>1. arrays'[j] = arrays[j] /\ j \in 1..Len(arrays) /\ player.next # 0
        BY <1>2, <1>3, <1>6, <1>8, <3>2 DEF k
      <4> QED
        BY <2>1, <2>4, <4>1 DEF EstimateGood
    <3> QED
      BY <3>1, <3>2
  <2> QED
    BY <1>5, <2>1, <2>3, <2>4 DEF EstimateGood, SameView
<1>13. SlotsGood(arrays', player')
  BY <1>8, <1>9, <1>10, <1>11 DEF SlotsGood
<1>14. CoverGood'
  BY <1>2, <1>5, CoverStays DEF MotionInv
<1> QED
  BY <1>2, <1>5, <1>8, <1>12, <1>13, <1>14, MotionFacts DEF MotionInv, MotionTypes
\* A step that touches neither the frames nor the requests, and of the player
\* only the debounce.
LEMMA FramesStay ==
  ASSUME MotionInv, UNCHANGED <<arrays, requests>>, player' \in Players,
         player'.view = player.view, player'.made = player.made, player'.next = player.next,
         player'.loading = player.loading,
         captures' \subseteq Snapshots, CoverGood'
  PROVE  MotionInv'
<1>1. SlotsGood(arrays', player')
  BY MotionFacts DEF SlotsGood, FrameGood, VectorGood, LoadGood
<1>2. \A r \in requests' : EstimateGood(r, arrays', player')
  BY MotionFacts DEF EstimateGood
<1> QED
  BY <1>1, <1>2, MotionFacts DEF MotionInv, MotionTypes

LEMMA LayerSettlesKeeps ==
  ASSUME MotionInv, NEW k \in DOMAIN arrays, LayerSettles(k)
  PROVE  MotionInv'
<1>1. /\ arrays \in Seq(MFrames) /\ Len(arrays) \in Nat /\ DOMAIN arrays = 1..Len(arrays)
      /\ \A i \in 1..Len(arrays) : arrays[i] \in MFrames /\ FrameGood(arrays[i], player)
      /\ \A i \in 2..Len(arrays) : VectorGood(arrays[i], arrays[i - 1], player)
      /\ LoadGood(arrays, player)
      /\ player \in Players /\ captures \subseteq Snapshots /\ requests \subseteq Estimates
      /\ \A r \in requests : r \in Estimates /\ EstimateGood(r, arrays, player)
  BY MotionFacts
<1>2. /\ k \in 1..Len(arrays) /\ arrays[k].layer # Null /\ arrays' = [arrays EXCEPT ![k].loops = TRUE]
      /\ requests' = requests /\ player' = player /\ cover' = cover
      /\ captures' = captures \cup Captures({k}, IF player.loading THEN "init" ELSE "shift")
  BY <1>1 DEF LayerSettles, Waiting
<1>3. /\ DOMAIN arrays' = 1..Len(arrays) /\ arrays' = [i \in 1..Len(arrays) |-> arrays'[i]]
      /\ \A i \in 1..Len(arrays) : i # k => arrays'[i] = arrays[i]
      /\ arrays'[k] = [arrays[k] EXCEPT !.loops = TRUE]
  BY <1>1, <1>2
<1>4. /\ arrays'[k] \in MFrames /\ arrays'[k].layer = arrays[k].layer /\ arrays'[k].loops = TRUE
      /\ arrays'[k].snap = arrays[k].snap /\ arrays'[k].motion = arrays[k].motion
  <2>1. arrays[k] \in MFrames
    BY <1>1, <1>2
  <2> QED
    BY <1>3, <2>1 DEF MFrames
<1>5. \A i \in 1..Len(arrays) : /\ arrays'[i] \in MFrames /\ arrays'[i].layer = arrays[i].layer
                                /\ arrays'[i].snap = arrays[i].snap /\ arrays'[i].motion = arrays[i].motion
                                /\ i # k => arrays'[i].loops = arrays[i].loops
  BY <1>1, <1>2, <1>3, <1>4
<1>6. arrays' \in Seq(MFrames) /\ Len(arrays') = Len(arrays)
  BY <1>1, <1>3, <1>5, AsSeq
<1>7. \A i \in 1..Len(arrays') : FrameGood(arrays'[i], player)
  BY <1>1, <1>2, <1>5, <1>6 DEF FrameGood
<1>8. ASSUME NEW i \in 2..Len(arrays') PROVE VectorGood(arrays'[i], arrays'[i - 1], player)
  <2>1. i \in 1..Len(arrays) /\ i - 1 \in 1..Len(arrays) /\ i \in 2..Len(arrays)
    BY <1>1, <1>6
  <2> QED
    BY <1>1, <1>5, <2>1 DEF VectorGood
<1>9. LoadGood(arrays', player)
  <2>1. \A i \in 1..Len(arrays) : arrays[i].loops => arrays'[i].loops
    BY <1>4, <1>5
  <2> QED
    BY <1>1, <1>5, <1>6, <2>1 DEF LoadGood, BlankFrame
<1>10. captures' \subseteq Snapshots
  <2>1. {k} \in SUBSET (1..Len(arrays)) /\ \A i \in {k} : arrays[i].layer # Null
    BY <1>2
  <2>2. \A by \in {"load", "init", "shift", "all"} : Captures({k}, by) \subseteq Snapshots
    BY <2>1, CapturesTyped
  <2> QED
    BY <1>1, <1>2, <2>2
<1>11. \A r \in requests : EstimateGood(r, arrays', player)
  BY <1>1, <1>5, <1>6, RequestMoves
<1>12. CoverGood'
  BY <1>2, CoverStays DEF MotionInv, SameView
<1> QED
  BY <1>1, <1>2, <1>6, <1>7, <1>8, <1>9, <1>10, <1>11, <1>12 DEF MotionInv, MotionTypes, SlotsGood

LEMMA LayerFailsKeeps ==
  ASSUME MotionInv, NEW k \in DOMAIN arrays, LayerFails(k)
  PROVE  MotionInv'
<1>1. /\ arrays \in Seq(MFrames) /\ Len(arrays) \in Nat /\ DOMAIN arrays = 1..Len(arrays)
      /\ \A i \in 1..Len(arrays) : arrays[i] \in MFrames /\ FrameGood(arrays[i], player)
      /\ \A i \in 2..Len(arrays) : VectorGood(arrays[i], arrays[i - 1], player)
      /\ LoadGood(arrays, player)
      /\ player \in Players /\ captures \subseteq Snapshots /\ requests \subseteq Estimates
      /\ \A r \in requests : r \in Estimates /\ EstimateGood(r, arrays, player)
  BY MotionFacts
<1>2. /\ k \in 1..Len(arrays) /\ arrays[k].layer # Null /\ ~arrays[k].loops
      /\ arrays' = [arrays EXCEPT ![k].layer = Null]
      /\ requests' = requests /\ player' = [player EXCEPT !.next = 0] /\ cover' = cover
      /\ captures' = captures \cup Captures({k}, "load")
  BY <1>1 DEF LayerFails, Waiting
<1>3. /\ DOMAIN arrays' = 1..Len(arrays) /\ arrays' = [i \in 1..Len(arrays) |-> arrays'[i]]
      /\ \A i \in 1..Len(arrays) : i # k => arrays'[i] = arrays[i]
      /\ arrays'[k] = [arrays[k] EXCEPT !.layer = Null]
  BY <1>1, <1>2
<1>4. /\ arrays'[k] \in MFrames /\ arrays'[k].layer = Null /\ arrays'[k].loops = arrays[k].loops
      /\ arrays'[k].snap = arrays[k].snap /\ arrays'[k].motion = arrays[k].motion
  <2>1. arrays[k] \in MFrames
    BY <1>1, <1>2
  <2> QED
    BY <1>3, <2>1 DEF MFrames, MaybeLayer
<1>5. \A i \in 1..Len(arrays) : /\ arrays'[i] \in MFrames /\ arrays'[i].layer \in {arrays[i].layer, Null}
                                /\ arrays'[i].snap = arrays[i].snap /\ arrays'[i].motion = arrays[i].motion
                                /\ arrays'[i].loops = arrays[i].loops
  BY <1>1, <1>2, <1>3, <1>4
<1>6. arrays' \in Seq(MFrames) /\ Len(arrays') = Len(arrays)
  BY <1>1, <1>3, <1>5, AsSeq
<1>7. /\ player' \in Players /\ SameView(player, player') /\ player'.next = 0 /\ player'.made = player.made
      /\ player'.loading = player.loading
  BY <1>1, <1>2 DEF Players, SameView
<1>8. \A i \in 1..Len(arrays') : FrameGood(arrays'[i], player')
  <2>1. \A i \in 1..Len(arrays) : arrays[i].loops => i # k
    BY <1>2
  <2> QED
    BY <1>1, <1>3, <1>5, <1>6, <1>7, <2>1 DEF FrameGood, SameView
<1>9. ASSUME NEW i \in 2..Len(arrays') PROVE VectorGood(arrays'[i], arrays'[i - 1], player')
  <2>1. i \in 1..Len(arrays) /\ i - 1 \in 1..Len(arrays) /\ i \in 2..Len(arrays)
    BY <1>1, <1>6
  <2>2. VectorGood(arrays[i], arrays[i - 1], player)
    BY <1>1, <2>1
  <2>3. /\ arrays'[i].layer \in {arrays[i].layer, Null} /\ arrays'[i].motion = arrays[i].motion
        /\ arrays'[i - 1].layer \in {arrays[i - 1].layer, Null}
    BY <1>5, <2>1
  <2> QED
    BY <1>7, <2>2, <2>3 DEF VectorGood, SameView
<1>10. LoadGood(arrays', player')
  <2>1. \A j \in 1..Len(arrays') : ~(j <= 0)
    BY <1>1, <1>6
  <2>2. \A i, j \in 1..Len(arrays') : player'.loading /\ i < j /\ arrays'[i].layer # Null => arrays'[j].loops
    BY <1>1, <1>5, <1>6, <1>7 DEF LoadGood
  <2> QED
    BY <1>7, <2>1, <2>2 DEF LoadGood
<1>11. captures' \subseteq Snapshots
  <2>1. {k} \in SUBSET (1..Len(arrays)) /\ \A i \in {k} : arrays[i].layer # Null
    BY <1>2
  <2>2. Captures({k}, "load") \subseteq Snapshots
    BY <2>1, CapturesTyped
  <2> QED
    BY <1>1, <1>2, <2>2
<1>12. \A r \in requests : EstimateGood(r, arrays', player')
  <2>1. player'.view >= player.view /\ player'.made >= player.made
    BY <1>1, <1>7 DEF Players, SameView
  <2> QED
    BY <1>1, <1>7, <2>1, RequestsLate
<1>13. CoverGood'
  BY <1>2, <1>7, CoverStays DEF MotionInv
<1>14. SlotsGood(arrays', player')
  BY <1>6, <1>8, <1>9, <1>10 DEF SlotsGood
<1> QED
  BY <1>1, <1>2, <1>6, <1>7, <1>11, <1>12, <1>13, <1>14 DEF MotionInv, MotionTypes

LEMMA LoadedAgainKeeps ==
  ASSUME MotionInv, NEW k \in DOMAIN arrays, _onLayerLoaded(k)
  PROVE  MotionInv'
<1>1. k \in 1..Len(arrays) /\ arrays[k].layer # Null
  BY MotionFacts DEF _onLayerLoaded, FrameGood
<1>2. Captures({k}, "load") \subseteq Snapshots
  <2>1. {k} \in SUBSET (1..Len(arrays)) /\ \A i \in {k} : arrays[i].layer # Null
    BY <1>1
  <2> QED
    BY <2>1, CapturesTyped
<1>3. captures' \subseteq Snapshots /\ UNCHANGED <<arrays, requests, player, cover>>
  BY <1>2, MotionFacts DEF _onLayerLoaded
<1>4. CoverGood'
  BY <1>3, CoverStays DEF MotionInv, SameView
<1> QED
  BY <1>3, <1>4, FramesStay, MotionFacts

LEMMA InitEndsKeeps == MotionInv /\ InitEnds => MotionInv'
<1> SUFFICES ASSUME MotionInv, InitEnds PROVE MotionInv'
  OBVIOUS
<1>1. /\ player.loading /\ player.next = 0 /\ Waiting = {}
      /\ arrays' = IF player.config.motion THEN Deduped ELSE arrays
      /\ player' = [player EXCEPT !.loading = FALSE]
      /\ UNCHANGED <<captures, requests, cover>>
  BY DEF InitEnds
<1>2. /\ player' \in Players /\ SameView(player, player') /\ player'.made = player.made
      /\ player'.next = 0 /\ player'.loading = FALSE
  BY <1>1, MotionFacts DEF Players, SameView
<1>3. SlotsGood(arrays', player')
  <2>1. CASE player.config.motion
    BY <1>1, <2>1, DedupedGood, MotionFacts
  <2>2. CASE ~player.config.motion
    BY <1>1, <1>2, <2>2, MotionFacts DEF SlotsGood, FrameGood, VectorGood, LoadGood, SameView
  <2> QED
    BY <2>1, <2>2
<1>4. \A r \in requests : EstimateGood(r, arrays', player')
  <2>1. player'.view >= player.view /\ player'.made >= player.made
    BY <1>2, MotionFacts DEF Players, SameView
  <2> QED
    BY <1>2, <2>1, MotionFacts, RequestsLate
<1>5. CoverGood'
  BY <1>1, <1>2, CoverStays DEF MotionInv
<1>6. arrays' \in Seq(MFrames)
  BY <1>3 DEF SlotsGood
<1> QED
  BY <1>1, <1>2, <1>3, <1>4, <1>5, <1>6, MotionFacts DEF MotionInv, MotionTypes
\* Nothing is being loaded when frames shift or are replaced.
LEMMA LoadOver ==
  ASSUME NEW pl, pl.next = 0, pl.loading = FALSE, NEW ss \in Seq(MFrames)
  PROVE  LoadGood(ss, pl)
<1>1. \A j \in 1..Len(ss) : ~(j <= 0)
  BY SlotFacts
<1> QED
  BY <1>1 DEF LoadGood

\* A frame stays good when layers are added.
LEMMA FrameLater ==
  ASSUME NEW f \in MFrames, NEW pl, NEW q, FrameGood(f, pl), q.view = pl.view,
         pl.made \in Nat, q.made \in Nat, q.made >= pl.made
  PROVE  FrameGood(f, q)
<1>1. f.layer # Null => f.layer.id \in Int
  <2>1. f.layer \in MaybeLayer
    BY DEF MFrames
  <2> QED
    BY <2>1, LayerFacts, MotionAssumption
<1> QED
  BY <1>1 DEF FrameGood

LEMMA ShiftKeeps == MotionInv /\ FewLayers /\ Shift => MotionInv'
<1> SUFFICES ASSUME MotionInv, FewLayers, Shift PROVE MotionInv'
  OBVIOUS
<1> DEFINE n == Len(arrays)
           new == [NoFrame EXCEPT !.layer = Made]
<1>1. /\ arrays \in Seq(MFrames) /\ n \in Nat /\ DOMAIN arrays = 1..n
      /\ \A i \in 1..n : arrays[i] \in MFrames /\ FrameGood(arrays[i], player)
      /\ \A i \in 2..n : VectorGood(arrays[i], arrays[i - 1], player)
      /\ LoadGood(arrays, player)
      /\ player \in Players /\ player.made \in Nat
      /\ \A r \in requests : r \in Estimates /\ EstimateGood(r, arrays, player)
  BY MotionFacts
<1>2. /\ ~player.loading /\ arrays # <<>>
      /\ arrays' = [i \in 1..n |-> IF i = n THEN new
                                   ELSE [arrays[i + 1] EXCEPT !.motion = IF i = 1 THEN Null ELSE @]]
      /\ player' = [player EXCEPT !.made = @ + 1] /\ UNCHANGED <<captures, requests, cover>>
  BY <1>1 DEF Shift
<1>3. /\ player' \in Players /\ SameView(player, player') /\ player'.made = player.made + 1
      /\ player'.next = 0 /\ player'.loading = FALSE
  <2>1. player.next = 0
    BY <1>1, <1>2 DEF LoadGood
  <2>2. player' \in Players /\ SameView(player, player') /\ player'.made = player.made + 1
    BY <1>1, <1>2, SMTT(30) DEF Players, SameView
  <2>3. player'.next = player.next /\ player'.loading = player.loading /\ player.loading \in BOOLEAN
    BY <1>1, <1>2 DEF Players
  <2> QED
    BY <1>2, <2>1, <2>2, <2>3
<1>4. Made \in MLayers /\ Made # Null /\ Made.id = player.made + 1
  BY <1>1, MadeFacts
<1>5. new \in MFrames /\ new.layer = Made /\ new.snap = Null /\ new.motion = Null /\ new.loops = FALSE
  BY <1>4 DEF NoFrame, MFrames, MaybeLayer
<1> HIDE DEF n, new
<1>6. ASSUME NEW i \in 1..n, i # n
      PROVE  /\ i + 1 \in 1..n /\ arrays'[i] \in MFrames
             /\ arrays'[i].layer = arrays[i + 1].layer /\ arrays'[i].loops = arrays[i + 1].loops
             /\ arrays'[i].snap = arrays[i + 1].snap
             /\ arrays'[i].motion = IF i = 1 THEN Null ELSE arrays[i + 1].motion
  <2>1. i + 1 \in 1..n
    BY <1>1, <1>6
  <2>2. arrays'[i] = [arrays[i + 1] EXCEPT !.motion = IF i = 1 THEN Null ELSE @] /\ arrays[i + 1] \in MFrames
    BY <1>1, <1>2, <1>6, <2>1
  <2> QED
    BY <2>1, <2>2 DEF MFrames
<1>7. \A i \in 1..n : i = n => arrays'[i] = new
  BY <1>2
<1>8. arrays' \in Seq(MFrames) /\ Len(arrays') = n
  <2>1. arrays' \in [1..n -> MFrames]
    <3>1. \A i \in 1..n : arrays'[i] \in MFrames
      BY <1>5, <1>6, <1>7
    <3> QED
      BY <1>2, <3>1
  <2> QED
    BY <1>1, <2>1, AsSeq
<1>9. \A i \in 1..n : FrameGood(arrays'[i], player')
  <2> SUFFICES ASSUME NEW i \in 1..n PROVE FrameGood(arrays'[i], player')
    OBVIOUS
  <2>1. CASE i = n
    BY <1>1, <1>3, <1>4, <1>5, <1>7, <2>1 DEF FrameGood
  <2>2. CASE i # n
    <3>1. FrameGood(arrays[i + 1], player) /\ arrays[i + 1] \in MFrames
      BY <1>1, <1>6, <2>2
    <3>2. FrameGood(arrays[i + 1], player')
      BY <1>1, <1>3, <3>1, FrameLater DEF SameView
    <3> QED
      BY <1>6, <2>2, <3>2 DEF FrameGood
  <2> QED
    BY <2>1, <2>2
<1>10. ASSUME NEW i \in 2..n PROVE VectorGood(arrays'[i], arrays'[i - 1], player')
  <2>1. i \in 1..n /\ i - 1 \in 1..n /\ i - 1 # n /\ i # 1 /\ (i - 1) + 1 = i
    BY <1>1
  <2>2. CASE i = n
    BY <1>5, <1>7, <2>1, <2>2 DEF VectorGood
  <2>3. CASE i # n
    <3>1. i + 1 \in 2..n /\ (i + 1) - 1 = i
      BY <1>1, <2>3
    <3>2. VectorGood(arrays[i + 1], arrays[i], player)
      BY <1>1, <3>1
    <3>3. arrays'[i - 1].layer = arrays[i].layer
      <4>1. arrays'[i - 1].layer = arrays[(i - 1) + 1].layer
        BY <1>6, <2>1
      <4> QED
        BY <2>1, <4>1
    <3>4. arrays'[i].layer = arrays[i + 1].layer /\ arrays'[i].motion = arrays[i + 1].motion
      BY <1>6, <2>1, <2>3
    <3> QED
      BY <1>3, <3>2, <3>3, <3>4 DEF VectorGood, SameView
  <2> QED
    BY <2>2, <2>3
<1>11. SlotsGood(arrays', player')
  BY <1>3, <1>8, <1>9, <1>10, LoadOver DEF SlotsGood
<1>12. \A r \in requests : EstimateGood(r, arrays', player')
  <2>1. player'.view >= player.view /\ player'.made >= player.made
    BY <1>1, <1>3 DEF Players, SameView
  <2> QED
    BY <1>1, <1>3, <2>1, RequestsLate
<1>13. CoverGood'
  BY <1>2, <1>3, CoverStays DEF MotionInv
<1> QED
  BY <1>2, <1>3, <1>8, <1>11, <1>12, <1>13, MotionFacts DEF MotionInv, MotionTypes

LEMMA SwapFrameKeeps ==
  ASSUME MotionInv, FewLayers, NEW k \in DOMAIN arrays, SwapFrame(k)
  PROVE  MotionInv'
<1> DEFINE n == Len(arrays)
           new == [layer |-> Made, loops |-> TRUE, snap |-> Null, motion |-> Null]
<1>1. /\ arrays \in Seq(MFrames) /\ n \in Nat /\ DOMAIN arrays = 1..n
      /\ \A i \in 1..n : arrays[i] \in MFrames /\ FrameGood(arrays[i], player)
      /\ \A i \in 2..n : VectorGood(arrays[i], arrays[i - 1], player)
      /\ LoadGood(arrays, player)
      /\ player \in Players /\ player.made \in Nat /\ player.view \in Nat /\ captures \subseteq Snapshots
      /\ \A r \in requests : r \in Estimates /\ EstimateGood(r, arrays, player)
  BY MotionFacts
<1>2. /\ ~player.loading /\ k \in 1..n
      /\ arrays' = [j \in 1..n |-> IF j = k THEN new
                                   ELSE IF j = k + 1 THEN [arrays[j] EXCEPT !.motion = Null] ELSE arrays[j]]
      /\ captures' = captures \cup (IF player.config.motion THEN {Capture(k, Made, "load")} ELSE {})
      /\ player' = [player EXCEPT !.made = @ + 1] /\ UNCHANGED <<requests, cover>>
  BY <1>1 DEF SwapFrame, Swapped
<1>3. /\ player' \in Players /\ SameView(player, player') /\ player'.made = player.made + 1
      /\ player'.next = 0 /\ player'.loading = FALSE
  <2>1. player.next = 0
    BY <1>1, <1>2 DEF LoadGood
  <2>a. player \in Players /\ player' = [player EXCEPT !.made = @ + 1] /\ player.made + 1 \in Nat
    BY <1>1, <1>2
  <2>2. player' \in Players /\ SameView(player, player') /\ player'.made = player.made + 1
    BY <2>a DEF Players, SameView
  <2>3. player'.next = player.next /\ player'.loading = player.loading /\ player.loading \in BOOLEAN
    BY <1>1, <1>2 DEF Players
  <2> QED
    BY <1>2, <2>1, <2>2, <2>3
<1>4. Made \in MLayers /\ Made # Null /\ Made.id = player.made + 1
  BY <1>1, MadeFacts
<1>5. new \in MFrames /\ new.layer = Made /\ new.snap = Null /\ new.motion = Null
  BY <1>4 DEF MFrames, MaybeLayer
<1> HIDE DEF n, new
<1>6. \A i \in 1..n : i = k => arrays'[i] = new
  BY <1>2
<1>7. ASSUME NEW i \in 1..n, i # k
      PROVE  /\ arrays'[i] \in MFrames /\ arrays'[i].layer = arrays[i].layer /\ arrays'[i].loops = arrays[i].loops
             /\ arrays'[i].snap = arrays[i].snap
             /\ arrays'[i].motion = IF i = k + 1 THEN Null ELSE arrays[i].motion
  <2>1. arrays'[i] = (IF i = k + 1 THEN [arrays[i] EXCEPT !.motion = Null] ELSE arrays[i]) /\ arrays[i] \in MFrames
    BY <1>1, <1>2, <1>7
  <2> QED
    BY <2>1, Vectorless
<1>8. arrays' \in Seq(MFrames) /\ Len(arrays') = n
  <2>1. arrays' \in [1..n -> MFrames]
    <3>1. \A i \in 1..n : arrays'[i] \in MFrames
      BY <1>5, <1>6, <1>7
    <3> QED
      BY <1>2, <3>1
  <2> QED
    BY <1>1, <2>1, AsSeq
<1>9. \A i \in 1..n : FrameGood(arrays'[i], player')
  <2> SUFFICES ASSUME NEW i \in 1..n PROVE FrameGood(arrays'[i], player')
    OBVIOUS
  <2>1. CASE i = k
    BY <1>1, <1>3, <1>4, <1>5, <1>6, <2>1 DEF FrameGood
  <2>2. CASE i # k
    <3>1. FrameGood(arrays[i], player')
      BY <1>1, <1>3, FrameLater DEF SameView
    <3> QED
      BY <1>7, <2>2, <3>1 DEF FrameGood
  <2> QED
    BY <2>1, <2>2
<1>10. ASSUME NEW i \in 2..n PROVE VectorGood(arrays'[i], arrays'[i - 1], player')
  <2>1. i \in 1..n /\ i - 1 \in 1..n /\ (i - 1 = k => i = k + 1) /\ (i = k + 1 => i # k)
    BY <1>1, <1>2
  <2>2. CASE i = k
    BY <1>5, <1>6, <2>1, <2>2 DEF VectorGood
  <2>3. CASE i = k + 1
    BY <1>7, <2>1, <2>3 DEF VectorGood
  <2>4. CASE i # k /\ i # k + 1
    <3>1. i - 1 # k
      BY <2>1, <2>4
    <3> QED
      BY <1>1, <1>3, <1>7, <2>1, <2>4, <3>1 DEF VectorGood, SameView
  <2> QED
    BY <2>2, <2>3, <2>4
<1>11. SlotsGood(arrays', player')
  BY <1>3, <1>8, <1>9, <1>10, LoadOver DEF SlotsGood
<1>12. \A r \in requests : EstimateGood(r, arrays', player')
  <2>1. player'.view >= player.view /\ player'.made >= player.made
    BY <1>1, <1>3 DEF Players, SameView
  <2> QED
    BY <1>1, <1>3, <2>1, RequestsLate
<1>13. CoverGood'
  BY <1>2, <1>3, CoverStays DEF MotionInv
<1>14. captures' \subseteq Snapshots
  <2>1. Capture(k, Made, "load") \in Snapshots
    BY <1>1, <1>2, <1>4 DEF Capture, Snapshots
  <2> QED
    BY <1>1, <1>2, <2>1
<1> QED
  BY <1>2, <1>3, <1>8, <1>11, <1>12, <1>13, <1>14, MotionFacts DEF MotionInv, MotionTypes

LEMMA ClearLayersKeeps == MotionInv /\ ClearLayers => MotionInv'
<1> SUFFICES ASSUME MotionInv, ClearLayers PROVE MotionInv'
  OBVIOUS
<1>1. /\ arrays' = <<>>
      /\ player' = [player EXCEPT !.view = @ + 1, !.cleared = player.view + 1, !.loading = FALSE, !.next = 0]
      /\ cover' = [cover EXCEPT !.mask = Null, !.clip = Null] /\ UNCHANGED <<captures, requests>>
  BY DEF ClearLayers, Unmasked
<1>2. /\ player' \in Players /\ player'.view = player.view + 1 /\ player'.made = player.made
      /\ player'.next = 0 /\ player'.loading = FALSE
  <2>1. player \in Players /\ player.view + 1 \in Nat /\ 0 \in Nat /\ FALSE \in BOOLEAN
    BY MotionFacts
  <2> QED
    BY <1>1, <2>1 DEF Players
<1>3. arrays' \in Seq(MFrames) /\ Len(arrays') = 0
  BY <1>1
<1>4. SlotsGood(arrays', player')
  <2>1. LoadGood(arrays', player')
    BY <1>2, <1>3, LoadOver
  <2>2. 1..Len(arrays') = {} /\ 2..Len(arrays') = {}
    BY <1>3
  <2> QED
    BY <1>3, <2>1, <2>2 DEF SlotsGood
<1>5. \A r \in requests : EstimateGood(r, arrays', player')
  <2>1. player'.view >= player.view /\ player'.made >= player.made
    BY <1>2, MotionFacts
  <2> QED
    BY <1>2, <2>1, MotionFacts, RequestsLate
<1>6. CoverGood'
  BY <1>1 DEF MotionInv, CoverGood
<1> QED
  BY <1>1, <1>2, <1>3, <1>4, <1>5, <1>6, MotionFacts DEF MotionInv, MotionTypes
LEMMA ViewChangesKeeps == MotionInv /\ ViewChanges => MotionInv'
<1> SUFFICES ASSUME MotionInv, ViewChanges PROVE MotionInv'
  OBVIOUS
<1>1. /\ arrays \in Seq(MFrames) /\ Len(arrays) \in Nat /\ DOMAIN arrays = 1..Len(arrays)
      /\ \A i \in 1..Len(arrays) : arrays[i] \in MFrames /\ FrameGood(arrays[i], player)
      /\ LoadGood(arrays, player)
      /\ player \in Players /\ player.view \in Nat /\ player.view + 1 \in Nat
      /\ \A r \in requests : r \in Estimates /\ EstimateGood(r, arrays, player)
  BY MotionFacts
<1>2. /\ arrays' = [i \in 1..Len(arrays) |-> [arrays[i] EXCEPT !.snap = Null, !.motion = Null]]
      /\ player' = [player EXCEPT !.view = @ + 1, !.due = TRUE] /\ UNCHANGED <<captures, requests, cover>>
  BY <1>1 DEF ViewChanges, Invalidated
<1>3. /\ player' \in Players /\ player'.view = player.view + 1 /\ player'.made = player.made
      /\ player'.next = player.next /\ player'.loading = player.loading
      /\ player'.config = player.config /\ player'.cleared = player.cleared
  BY <1>1, <1>2 DEF Players
<1>4. \A i \in 1..Len(arrays) : /\ arrays'[i] \in MFrames /\ arrays'[i].layer = arrays[i].layer
                                /\ arrays'[i].loops = arrays[i].loops
                                /\ arrays'[i].snap = Null /\ arrays'[i].motion = Null
  <2> TAKE i \in 1..Len(arrays)
  <2>1. arrays'[i] = [arrays[i] EXCEPT !.snap = Null, !.motion = Null] /\ arrays[i] \in MFrames
    BY <1>1, <1>2
  <2> QED
    BY <2>1 DEF MFrames
<1>5. arrays' \in Seq(MFrames) /\ Len(arrays') = Len(arrays)
  <2>1. arrays' \in [1..Len(arrays) -> MFrames]
    BY <1>2, <1>4
  <2> QED
    BY <1>1, <2>1, AsSeq
<1>6. \A i \in 1..Len(arrays') : FrameGood(arrays'[i], player')
  BY <1>1, <1>3, <1>4, <1>5 DEF FrameGood
<1>7. ASSUME NEW i \in 2..Len(arrays') PROVE VectorGood(arrays'[i], arrays'[i - 1], player')
  <2>1. i \in 1..Len(arrays)
    BY <1>1, <1>5
  <2> QED
    BY <1>4, <2>1 DEF VectorGood
<1>8. LoadGood(arrays', player')
  BY <1>1, <1>3, <1>4, <1>5 DEF LoadGood, BlankFrame
<1>9. ASSUME NEW r \in requests PROVE EstimateGood(r, arrays', player')
  <2>1. EstimateGood(r, arrays, player) /\ r.view \in Nat /\ r.view <= player.view
    BY <1>1 DEF EstimateGood, Estimates
  <2>2. r.view < player.view + 1 /\ r.view # player.view + 1 /\ r.view <= player.view + 1
    BY <1>1, <2>1
  <2> QED
    BY <1>3, <2>1, <2>2 DEF EstimateGood
<1>10. player'.due = TRUE /\ Mask' = Mask /\ cover' = cover
  <2>1. player'.due = TRUE
    BY <1>1, <1>2 DEF Players
  <2> QED
    BY <1>2, <1>3, <2>1 DEF Mask
<1>11. CoverGood'
  BY <1>10 DEF MotionInv, CoverGood
<1>12. SlotsGood(arrays', player')
  BY <1>5, <1>6, <1>7, <1>8 DEF SlotsGood
<1> QED
  BY <1>2, <1>3, <1>5, <1>9, <1>11, <1>12, MotionFacts DEF MotionInv, MotionTypes

\* The mask's own steps.
LEMMA MaskKeeps ==
  ASSUME MotionInv, MaskLoads \/ RefreshView \/ \E c \in cover.clips : Clipped(c)
  PROVE  MotionInv'
<1>1. /\ player \in Players /\ player.view \in Nat /\ captures \subseteq Snapshots
      /\ CoverGood
  BY MotionFacts DEF MotionInv
<1>2. \A c \in ClipCall : c.mask # Null /\ c.mask = cover.mask /\ c.view = player.view
  BY DEF ClipCall
<1>3. cover.mask # Null => \E c \in ClipCall : c.mask = cover.mask /\ c.view = player.view
  BY DEF ClipCall
<1>4. CASE MaskLoads
  <2>1. /\ cover' = [cover EXCEPT !.clips = @ \cup ClipCall]
        /\ UNCHANGED <<arrays, captures, requests, player>>
    BY <1>4 DEF MaskLoads
  <2>2. cover'.mask = cover.mask /\ cover'.clip = cover.clip /\ cover'.clips = cover.clips \cup ClipCall /\ Mask' = Mask
    BY <2>1 DEF Mask
  <2>3. CoverGood'
    BY <1>1, <1>2, <2>1, <2>2 DEF CoverGood
  <2> QED
    BY <1>1, <2>1, <2>3, FramesStay
<1>5. CASE RefreshView
  <2>1. /\ player.due /\ player' = [player EXCEPT !.due = FALSE]
        /\ captures' = captures \cup Captures({i \in DOMAIN arrays : arrays[i].layer # Null}, "all")
        /\ cover' = [cover EXCEPT !.clips = @ \cup ClipCall]
        /\ UNCHANGED <<arrays, requests>>
    BY <1>5 DEF RefreshView
  <2>2. /\ player' \in Players /\ player'.view = player.view /\ player'.made = player.made
        /\ player'.next = player.next /\ player'.loading = player.loading
        /\ player'.config = player.config /\ player'.cleared = player.cleared
    BY <1>1, <2>1 DEF Players
  <2>3. cover'.mask = cover.mask /\ cover'.clip = cover.clip /\ cover'.clips = cover.clips \cup ClipCall /\ Mask' = Mask
    BY <2>1, <2>2 DEF Mask
  <2>4. CoverGood'
    BY <1>1, <1>2, <1>3, <2>2, <2>3 DEF CoverGood
  <2>5. captures' \subseteq Snapshots
    <3> DEFINE is == {i \in DOMAIN arrays : arrays[i].layer # Null}
    <3>1. is \in SUBSET (1..Len(arrays)) /\ \A i \in is : arrays[i].layer # Null
      BY MotionFacts
    <3>2. Captures(is, "all") \subseteq Snapshots
      BY <3>1, CapturesTyped
    <3> QED
      BY <1>1, <2>1, <3>2
  <2> QED
    BY <2>1, <2>2, <2>4, <2>5, FramesStay
<1>6. CASE \E c \in cover.clips : Clipped(c)
  <2>1. PICK c \in cover.clips : Clipped(c)
    BY <1>6
  <2>2. /\ cover' = [cover EXCEPT !.clips = @ \ {c},
                                  !.clip = IF c.view = player.view /\ c.mask = cover.mask THEN c ELSE @]
        /\ UNCHANGED <<arrays, captures, requests, player>>
    BY <2>1 DEF Clipped
  <2>3. Mask' = Mask /\ c.mask # Null
    BY <1>1, <2>2 DEF Mask, CoverGood
  <2>4. CASE c.view = player.view /\ c.mask = cover.mask
    <3>1. cover'.mask = cover.mask /\ cover'.clip = c /\ cover'.clips = cover.clips \ {c}
      BY <1>1, <2>2, <2>4 DEF CoverGood
    <3>2. CoverGood'
      BY <1>1, <2>2, <2>3, <2>4, <3>1 DEF CoverGood
    <3> QED
      BY <1>1, <2>2, <3>2, FramesStay
  <2>5. CASE ~(c.view = player.view /\ c.mask = cover.mask)
    <3>1. cover'.mask = cover.mask /\ cover'.clip = cover.clip /\ cover'.clips = cover.clips \ {c}
      BY <2>2, <2>5
    <3>2. CoverGood'
      BY <1>1, <2>2, <2>3, <2>5, <3>1 DEF CoverGood
    <3> QED
      BY <1>1, <2>2, <3>2, FramesStay
  <2> QED
    BY <2>4, <2>5
<1> QED
  BY <1>4, <1>5, <1>6

LEMMA CapturedKeeps ==
  ASSUME MotionInv, NEW c \in captures, NEW drawn \in BOOLEAN, Captured(c, drawn)
  PROVE  MotionInv'
<1> DEFINE ss == IF drawn THEN Snapped(c) ELSE arrays
<1>1. captures' = captures \ {c} /\ Compute(ss, PairsAfter(c)) /\ cover' = cover
  BY DEF Captured
<1>2. SlotsGood(ss, player) /\ Len(ss) = Len(arrays) /\ \A i \in 1..Len(arrays) : ss[i].layer = arrays[i].layer
  <2>1. CASE drawn
    BY <2>1, SnappedGood
  <2>2. CASE ~drawn
    BY <2>2, MotionFacts
  <2> QED
    BY <2>1, <2>2
<1> HIDE DEF ss
<1>3. /\ player' \in Players /\ SlotsGood(arrays', player') /\ SameView(player, player')
      /\ requests' \subseteq Estimates /\ \A r \in requests' : EstimateGood(r, arrays', player')
  BY <1>1, <1>2, ComputeGood
<1>4. CoverGood'
  BY <1>1, <1>3, CoverStays DEF MotionInv
<1> QED
  BY <1>1, <1>3, <1>4, MotionFacts DEF MotionInv, MotionTypes, SlotsGood

LEMMA LkAnswersKeeps ==
  ASSUME MotionInv, NEW r \in requests, LkAnswers(r)
  PROVE  MotionInv'
<1>1. PICK m \in {Null, Measured(r)} : arrays' = Adopted(r, arrays, m)
  BY DEF LkAnswers
<1>2. requests' = requests \ {r} /\ UNCHANGED <<captures, player, cover>>
  BY DEF LkAnswers
<1>3. SlotsGood(arrays', player) /\ Len(arrays') = Len(arrays) /\ \A i \in 1..Len(arrays) : arrays'[i].layer = arrays[i].layer
  BY <1>1, AdoptedGood, MotionFacts
<1>4. \A q \in requests' : EstimateGood(q, arrays', player)
  BY <1>2, <1>3, MotionFacts, RequestMoves
<1>5. CoverGood'
  BY <1>2, CoverStays DEF MotionInv, SameView
<1> QED
  BY <1>2, <1>3, <1>4, <1>5, MotionFacts DEF MotionInv, MotionTypes, SlotsGood

LEMMA WorkerFailsKeeps == MotionInv /\ WorkerFails => MotionInv'
<1> SUFFICES ASSUME MotionInv, WorkerFails PROVE MotionInv'
  OBVIOUS
<1> DEFINE failed == {r \in requests : r.on = "worker"}
           S == {i \in DOMAIN arrays : \E r \in failed : r.view = player.view /\ PairIndex(r, arrays) = i}
<1>1. /\ requests' = requests \ failed /\ player' = [player EXCEPT !.worker = "sync"]
      /\ arrays' = [i \in DOMAIN arrays |-> IF i \in S THEN [arrays[i] EXCEPT !.motion = Null] ELSE arrays[i]]
      /\ UNCHANGED <<captures, cover>>
  BY DEF WorkerFails
<1> HIDE DEF S, failed
<1>2. /\ player' \in Players /\ SameView(player, player') /\ player'.made = player.made
      /\ player'.next = player.next /\ player'.loading = player.loading
  BY <1>1, MotionFacts DEF Players, Workers, SameView
<1>3. Thinned(arrays, arrays')
  BY <1>1, MotionFacts, ThinnedWhere
<1>4. SlotsGood(arrays', player)
  BY <1>3, MotionFacts, ThinnedGood
<1>5. SlotsGood(arrays', player')
  BY <1>2, <1>4 DEF SlotsGood, FrameGood, VectorGood, LoadGood, SameView
<1>6. \A r \in requests' : EstimateGood(r, arrays', player')
  <2>1. \A r \in requests' : EstimateGood(r, arrays', player)
    BY <1>1, <1>3, MotionFacts, RequestMoves DEF Thinned
  <2> QED
    BY <1>2, <2>1 DEF EstimateGood, SameView
<1>7. CoverGood'
  BY <1>1, <1>2, CoverStays DEF MotionInv
<1> QED
  BY <1>1, <1>2, <1>5, <1>6, <1>7, MotionFacts DEF MotionInv, MotionTypes, SlotsGood

\* The inductive step.
LEMMA MotionStep == MotionInv /\ [NextMotion]_motionVars => MotionInv'
<1> SUFFICES ASSUME MotionInv, [NextMotion]_motionVars PROVE MotionInv'
  OBVIOUS
<1>1. CASE LoopStep
  BY <1>1, InitRadarKeeps, AddFrameKeeps, ShiftKeeps, SwapFrameKeeps, LayerSettlesKeeps, LayerFailsKeeps,
     LoadedAgainKeeps, InitEndsKeeps, ClearLayersKeeps DEF LoopStep
<1>2. CASE ViewChanges
  BY <1>2, ViewChangesKeeps
<1>3. CASE MaskLoads \/ RefreshView \/ \E c \in cover.clips : Clipped(c)
  BY <1>3, MaskKeeps
<1>4. CASE \E c \in captures, drawn \in BOOLEAN : Captured(c, drawn)
  BY <1>4, CapturedKeeps
<1>5. CASE \E r \in requests : LkAnswers(r)
  BY <1>5, LkAnswersKeeps
<1>6. CASE WorkerFails
  BY <1>6, WorkerFailsKeeps
<1>7. CASE UNCHANGED motionVars
  <2>1. UNCHANGED <<arrays, captures, requests, player, cover>>
    BY <1>7 DEF motionVars
  <2>2. CoverGood'
    BY <2>1, CoverStays DEF MotionInv, SameView
  <2> QED
    BY <2>1, <2>2, FramesStay, MotionFacts
<1> QED
  BY <1>1, <1>2, <1>3, <1>4, <1>5, <1>6, <1>7 DEF NextMotion

LEMMA MotionInvFits == MotionInv => MotionFits
<1> SUFFICES ASSUME MotionInv PROVE MotionFits
  OBVIOUS
<1>1. VectorsFit
  <2> SUFFICES ASSUME NEW i \in 2..Len(arrays), arrays[i].motion # Null, arrays[i].loops, arrays[i - 1].loops
               PROVE  /\ arrays[i].motion.view = player.view
                      /\ arrays[i].motion.to = arrays[i].layer
                      /\ arrays[i].motion.from.shows = arrays[i - 1].layer.shows
    BY DEF VectorsFit
  <2>1. i \in 1..Len(arrays) /\ i - 1 \in 1..Len(arrays)
    BY MotionFacts
  <2>2. arrays[i].layer # Null /\ arrays[i - 1].layer # Null /\ VectorGood(arrays[i], arrays[i - 1], player)
    BY <2>1, MotionFacts DEF FrameGood
  <2> QED
    BY <2>2 DEF VectorGood
<1>2. ClipFits
  <2>1. player.due \in BOOLEAN
    BY MotionFacts DEF Players
  <2> QED
    BY <2>1 DEF MotionInv, CoverGood, ClipFits
<1> QED
  BY <1>1, <1>2 DEF MotionFits

\* MotionFits: whatever a wait began under, the vectors, the snapshots and the
\* clip are of the frames, the mask and the view there are (the checks after the
\* waits of _captureFrameSnapshot, _computeMotionForFrame and
\* _updateCoverageClip), for any number of frames, layers, moves and jobs.
THEOREM MotionFitsTheorem == SpecMotion => []MotionFits
<1> QED
  BY MotionInitially, MotionStep, MotionInvFits, PTL DEF SpecMotion
=============================================================================
