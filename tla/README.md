# Verification of weather-radar-card

TLA+ models of the Home Assistant weather radar card, the configurations that
model-check them with TLC, and theorems about them that TLAPS checks. Paths
such as `radar-player.ts` are below `src/src/`.

The card is JavaScript: one callback runs at a time, and everything that can
go wrong between callbacks goes wrong at an `await`, a timer, a Leaflet event or
a second card on the page. So a step of a model is everything one callback
does up to its next `await`, with every call it makes that changes state.

## The system

| Component | State it keeps | Operations | Hard behaviour |
|---|---|---|---|
| **Radar player, lifecycle** (`radar-player.ts`) | generation, readiness, in-flight init and updates, update / retry / rate-limit timers, pause flags, owed refresh, playback loop generation | start, init, update, timers, pan / hide / show, play, scrub, skip, clear; tile callbacks 429 / 5xx / recovered | inits and updates overlap and are superseded; a timer falls into a pause; teardown with anything in flight |
| **Radar player, frame loop** (`radar-player.ts`, `forecast-refresh.ts`) | arrays of times and layers, loaded slots, cursor, the layer being faded out, staged replacements | load in order, dedup, shift in new frames, refresh the forecast in place, show a slot | three writers renumber the same arrays between awaits |
| **Frame listings** (`radar-player.ts`, `noaa-frame-list.ts`, `stride-phase.ts`) | the times of the loop, the grid's phase in `localStorage` | compute or fetch the frame times, shift or rebuild | a listing skips slots, comes late, or ends before the loop does |
| **Motion and clip** (`radar-player.ts`, `lk-worker.ts`) | per frame: snapshot, vector; the mask and its clip | capture, estimate in a worker, re-measure, cut | the map moves and frames are renumbered while tiles decode and the worker computes |
| **Fetch tile layer and window** (`fetch-tile-layer.ts`, `radar-player.ts`) | per layer: pending / loaded / failed counts, held tiles; per tile: attempt, retry timer, abort controller | createTile, cancelTile, retries by kind, hold / release, plan the window | a tile is unloaded in any of its stages; a plan runs before the aborts it should count |
| **Tile cache** (`tile-cache.ts`) | memory copies with a *final* flag, IndexedDB, pending lookups, shared downloads with waiter counts | lookup, share, detach, store | a URL's content changes with time; callers come, leave and return |
| **Rate limiter** (`rate-limiter.ts`) | sliding window, memory of delivered URLs | canFetch, record, recordSuccess, msUntilSlot | several cards in one window; the edge of a minute |
| **NWS alerts** (`nws-alerts-layer.ts`) | refresh chain; zone batch with workers, pool, backoff, retry; deferred drawing; shapes with the decisions behind them | fetch, arm, pause, resume, resolve zones, render, clear | workers park while the map moves; batches are aborted and planned again; a redraw is skipped where nothing looks different |
| **Zone store** (`zone-store.ts`) | zones with expiry in IndexedDB, the write-back list | get, put, sweep, evict on quota, drain | a store that refuses, is full, hangs or answers too late |
| **Wildfire** (`wildfire-layer.ts`, `map-quiet.ts`) | refresh chain, known fires with outlines, full outlines, what is drawn, deferred render | fetch, detail fetch, retry, pause, resume, render, clear | three requests see three versions of the feed; a rebuild closes the popup that a render waits for |
| **Lightning** (`lightning-layer.ts`) | strikes, the buffer of settled ones, age timer, redraw flag | take over, age, redraw, pause | buffered strikes are removed, aged and moved by other events than the ones that paint |
| **Wind** (`wind-grid-fetcher.ts`, `wind-overlay.ts`, `wind-flow-overlay.ts`) | running and cached grids by box and slice; each overlay's grid, wake, animation | fetch, wake, move, pause, resume, destroy | two overlays share requests that pans and half hours outdate |
| **Basemap and its token** (`vector-basemap.ts`, `map-tiles-token.ts`, `weather-radar-card.ts`) | the vector map's layers, the raster tiles, two token chains | start, restyle, reload, fall back, renew, stop | Home Assistant restarts, a token expires, WebGL contexts are lost: reloads are throttled and put off |
| **Viewer state** (`viewer-state.ts`) | per-viewer choices, hydration, pending writes, who holds which record | hydrate, set, delete, flush, reset | a choice is made while the saved record is being read; two cards with one nonce |
| **Card** (`weather-radar-card.ts`, `layer-toggles.ts`) | config, map, player, overlays and their visibility, playback speed, the rebuild timer | setConfig, connect, disconnect, hide, show, choose, rebuild | rebuilds, saved choices and two reasons to be hidden, in any order |
| **View presets, markers, popups** (`view-presets.ts`, `marker-utils.ts`, `popup-pan-restore.ts`) | held stop, idle timer, tracked marker, the centre before a popup's pan | press, drag, wheel, track, time out, open and close a popup | each must tell its own moves of the map from everyone else's |
| **Editor's presets** (`editor.ts`, `list-reorder.ts`) | the list, the open row as an index | add, remove, reorder, open, pan in the preview | the list is edited, reordered and replaced while the preview card follows the index |
| Drawing and forms (toolbar, `lk.ts`, region and source tables, the rest of the editor) | pixels, DOM | render | rendering, numeric or external code |

How they interact: the card creates one player and the overlays, and tells all
of them when the map moves, rests, is hidden or shown. The player attaches one
tile layer per frame and hands them the source's rate limiter, the tile cache
policy of the frame and its callbacks. Tile layers of all cards on the page
meet in the tile cache and the limiter, and viewer states of all cards in the
map of nonces: these are module state. The alerts layer reads and writes the
zone store, both wind overlays the grid fetcher, both kinds of basemap the
token. The editor and its preview card talk through window events.

What makes each correct: the player refreshes for ever with one timer and is
silent after clear(); its loop shows one frame, in order, loses no layer and
follows its listing; each tile is counted once and ends; bytes are fetched
once, only final ones are kept, budgets hold; an overlay has one refresh at a
time, none begun while hidden, none lost, draws what arrived and what is true
now, and closes no popup for nothing; a viewer's choice is neither lost nor
undone; the map stays where its last mover put it and comes back when its
host does.

## Modules

`PROJECT.json` "map" gives the lines behind every definition.

| Module | Models | State and actions |
|---|---|---|
| `PlayerLifecycle` | when inits, updates, timers and ticks run, and what cancels them | `gen` is `_frameGeneration`; a suspended call carries the generation it began under; one action per continuation, timer, tile callback and call of the card. Frames are only counted. |
| `FrameLoop` | which frames and layers one generation holds | `p` collects the fields that the synchronous code reads and writes, so that `_showSlot`, `_afterFrameInserted`, `_swapStagedFrames` compose as operators on it, as the calls do. The calls form a circle, which closes once at most: the operators take what a joining frame does as a parameter (`Join`) instead of recurring |
| `Arrays` | what `filter` leaves of an array | operators that `FrameLoop` and `Motion` use |
| `FrameListing` | which times the loop has | `hour.scans` is what the source has published; `loop` holds the times, the phase of their grid and the length of the last listing; `ListingArrives` shifts or rebuilds. Times are in scaled units (RainViewer's interval is one), publications come in order. |
| `Motion` | snapshots, motion vectors, the DWD mask | `arrays` are the per-frame arrays; `captures` and `requests` are the promises under way, each with the frame number, layer and view it began under; renumbering, replacing and dropping are actions that may fall anywhere. A scene stands for a layer's pixels. |
| `TileFetch` | each tile's stages, Leaflet's loading flag, the fetch window | `stage`, `pending`, `hold`; microtasks (`ApplyFetchWindow`, `AbortsSettle`) run before other events |
| `TileShare` | tiles of one URL in memory, store and shared downloads | `at`/`on` per tile, `memo`, `store`, `inflight`, `waiters`; `phase` is what the server answers now |
| `RateLimiter` | the sliding window | operators that `TileShare` uses; `sent` remembers what `_window` forgets, for the property only |
| `NwsAlerts` | refresh chain, zone pool, deferred drawing | `batch` is one `_resolveZones` call and its workers |
| `AlertShapes` | the shapes of the alerts and when a redraw is skipped | `shapes.decisions` is `_renderDecisions`; `saw` remembers what the last render saw, for the property only |
| `ZoneStore` | one tab's IndexedDB of zones | `queue` is IndexedDB's queue of requests, each naming what follows it; `back` is the write-back list and its drain; `past` has the ages and refreshes, for properties and bounds |
| `Wildfire` | refresh chain, the three requests, what is drawn, popups | `request` carries what the feed held when it was sent; `all`, `stamp`, `detail` are `_all`, `_outlineStamp`, `_detail` with perimeter dates for outlines; `drawn` is what the layers on the map show; `orphans` remembers layers no handle reaches |
| `RefreshChain` | abstract: what an overlay promises about refreshes | implemented by `NwsAlerts` (`RefreshChained`: `RefreshSafe` and the abstract `Refreshes`) and `Wildfire` (`RefreshSafe`) |
| `Lightning` | the strikes and the canvas | `layer` is the LightningLayer with its buffer, `canvas` what has been painted and in which frame of the map |
| `Wind` | the grid fetcher and both overlays | a request is kept with the overlay whose generation it has; a box and a slice stand for a grid |
| `Basemap` | vector and raster basemap with their token chains | `vector`, `base`, `labels` and `raster` are the closures and layers; Home Assistant, MapLibre and WebGL are environment |
| `ViewerState` | the viewer states of a page and the server's records | one `vs` per card element, `owner` is `liveCardsByNonce`, websocket calls are handled in order and answered in any |
| `Card` | the card element, over `ViewerState` | INSTANCEs `ViewerState`: the card's handlers are composed with its operators. Map, player and overlays are built, running or paused |
| `MapView` | who moves the map | `view` has the map and its movers; `past` remembers who moved it last, for the property only |
| `PresetEditor` | the editor's presets with the preview card | EXTENDS `MapView`, which is the preview card (in `MCParts` with variables of its own); `focus` and `inbox` are the two ways from the editor to it; `editor.on` says whether Home Assistant has it on the page. Presets and markers of entities are left out of the list: they add nothing to the index |
| `*_proofs` | the theorems | `Lifecycles_proofs` is about `PlayerLifecycle`, `Wind` and `Basemap`; `FrameFacts_proofs` has the lemmas of `FrameLoop_proofs` about operators |
| `MC*` | instances for TLC | `MCFrames`, `MCTiles`, `MCNwsAlerts`, `MCCard`, `MCParts` and `MCHosts` check several independent modules in one run; `MCFrameLoop` is for the runs of the findings |

`PlayerLifecycle`, `FrameLoop`, `FrameListing` and `Motion` are views of one
class: the first says when a task runs, the second what it does to the frames,
the third which times it finds, the fourth what it measures between them; a
generation of the first is one behaviour of the second. `TileFetch` and
`TileShare` are two views of `createFetchTile`: the first keeps every retry
counter of tiles that share nothing, the second lets tiles of one URL meet and
only says *slot* for any wait before another attempt. `AlertShapes` begins where
`NwsAlerts` decides to draw; `ZoneStore` has the layer's batch with the store in
the middle, `NwsAlerts` with the pool in the middle.

In a run of several modules a behaviour is of one of them, chosen by the
initial state (`part`, `host`), while the variables of the others keep one
first value. Nothing is composed there: these modules share no state, and their
product would only multiply the states.

`frames`, `tiles`, `card` and `parts` give TLC a `VIEW`. It tells states apart by
what any action or property still reads, and forgets only names that nothing
compares (which layer, which download, which strike) and values that are
overwritten before they are read (the load's position once the load is over, the
place of a marker that nothing tracks). Two states of one view then have steps
to the same views, and the properties, which read what the view keeps, hold in
both or in neither. In `tiles` the two tiles are a symmetry set as well, in `card` the speeds, in `parts` the keys. Nothing
is proved of the views: for the loop, a smaller instance was also explored without
one, and its 197203 states fall into just the 4341 that the run with the view
finds.

## Runs

| Run | Question | Bounds and why they are enough |
|---|---|---|
| `player` | Do one update chain, one tick, a live refresh and a quiet teardown survive every interleaving? Does a blank card heal and a ready one refresh for ever? | 3 frames, two suspended updates, one shifted frame, 4 values of the generation: the first load, one rebuild or one retry of a failed listing, and the teardown. So a superseded init and a superseded update meet live ones, and a source fails once before it answers; with a second rebuild the run does not end in five minutes. The theorems have no bound. |
| `frames` | Two modules, one at a time | |
| – loop | Does a loop with failing frames, dedup, forecast refresh and shifts keep its order and its place, and lose no layer? Does anything but a shifted frame that loads late (see the findings) leave a second frame on screen? | One past and one forecast frame and "now", two overlapping shifts, a clock to 4: an index held across an await is outdated by each of the three writers. At most seven layers are on the map at once; steps that need an eighth are cut. The loop has two frames before the clock moves (`ThinLoop`) and no refresh is owed from before a rebuild (`StaleOwed`): see the findings. |
| – motion | Are vectors, snapshots and clip of the frames and the view there are? | 3 frames, 4 layers of which two are alike, one move, two jobs under way; motion compensation or the mask, which wait for each other nowhere. |
| `tiles` | Is each tile counted once, and does 'load' mean complete? Is only final content kept and shown as final, with one download per kind, within the budget? | `TileFetch`: 2 frames of 2 places, pans and resets, four error kinds with one attempt each. `TileShare`: 2 tiles, 3 downloads (one aborted beside two running kinds), one URL, a budget of 1 in a window of 2. |
| `tiles_retries` | Does the window hold; do tiles settle and held frames start? | 3 frames of which 2 are slots, a window of 1, timeouts and statusless errors with two attempts: every cap is reached. |
| `alerts` | Two modules, one at a time | |
| – requests | One refresh at a time and kept coming, drawing owed, zones heal | 2 zones, pool 2 that halves to 1, popups. |
| – shapes | Is a redraw skipped only where it would change nothing? | Three alerts, one replaced by another on one of its zones, one with its own polygon; two zones, two views, two tolerances, every start and end of them. |
| `wildfire` | Does the map show what the layer knows, is a full outline drawn or owed, is a popup kept, is the feed shown again and again? | One fire, three looks, one change of the feed that falls between any two requests: fires do not touch each other except through the popup and the stamp. Not kept for their length: two changes with two looks, and two fires, one always a polygon (no safety violation in 6.3 million states, not finished). |
| `card` | Two modules, one at a time | |
| – card | Do what runs and how fast the loop plays follow the viewer's choices and the config; is all paused exactly while hidden; does an outdated map have its rebuild coming? | One element, one overlay that some configs turn on, two speeds that are symmetric (the card only stores and compares them), one nonce. Twice: with the overlay, one call under way and hides and shows; and with both speeds and two calls, on a page that stays in view. Only a step that sends a call waits for the bound, so that an answer meets a rebuild, a new config, a flip of the theme, a click, an unmount and a second stay. Two elements are in `parts`. |
| – wind | Do both overlays draw the slice of now for the box on screen; is there one streamline loop? | Two boxes, one of NDFD's, two slices, two requests under way: one request for each overlay, each outdated by a pan, a half hour or a destroy. |
| `parts` | Five modules, one at a time (below) | |
| – viewer | Does an answer undo no choice, and the record hold what the card shows? | Two elements and one nonce, two keys (symmetric), two calls under way, one reset. |
| – storm | Does the canvas show the storm that is, where it is? | Two strikes, two frames of the map, three ages: a settled strike is removed, moved and aged beside a bolt. |
| – listing | Does the loop follow its listing? | RainViewer at its stride and at twice it, NOAA with its fallback; a clock through two lengths of the window. |
| – view | Is the map where its stop or the viewer put it? | Two places, a place preset and a followed one, a tracked marker. |
| – editor | Are preview and list in step, and does the open preset stay the one that is open? | Two presets, two places; YAML mode, in which the list comes back whole, shorter, turned round or empty. The property excepts the time between YAML mode and the next change of the index or the page: see the findings. |
| `hosts` | Do the map's tiles and labels come back with Home Assistant; does the alerts layer go on whether the browser's database answers, fails or hangs? | One token call per chain under way beside one of the other; two zones, one place for a record, a time to live of 0 and a clock of 1 (so that a record is both fresh and stale), one refresh of the list. |
| violations | see Findings | the smallest instance that shows each |

Every property of a passing run has a mutant in `PROJECT.json`: a plausible slip
in a mapped definition, written next to it in the module, under which TLC finds
the property violated. Every property is about one of the hazards listed there.

## Fairness

- `PlayerLifecycle!FairSpec`: fetches and tile loads end (each has a time
  limit in the code), armed timers fire, a move settles 100 ms after its
  `moveend`. Nothing is assumed of the user or of the source's answers; a
  source that fails for ever is allowed.
- `TileFetch!PlayingSpec`: microtasks run, lookups answer (5 s limit), downloads
  end (30 s limit), retry timers fire, and so does the playback timer. Strong
  fairness per tile, because microtasks come first and disable everything else.
  The map is reset, but not panned.
- `NwsAlerts!LiveSpec`: timers fire, requests and store reads end, time passes,
  the map comes to rest; for `ZonesHeal` also that a zone which is asked for
  again and again is at some time answered, and not each time aborted by the
  next refresh. `RefreshChained` needs only the first part. The card may stay
  hidden; then nothing is promised.
- `Wildfire!LiveSpec`: timers fire and requests end (time limit). Strong fairness
  of the three good ends says that a request made again and again succeeds some
  time; without it the layer may back off for ever, as it should. A card that
  stays hidden is promised nothing.
- `Basemap!FairnessMap`: token calls are made when due and answered, MapLibre loads
  or reports an error for what it asked, and throttle and grace timers fire.
  Nothing is assumed of Home Assistant, the page or the WebGL contexts;
  `MapHeals` speaks of behaviours in which they come back and stay, and of what
  MapLibre reports (see the findings for what it does not).
- `ZoneStore!FairnessStore`: the store's time limit runs out, requests to NWS end
  (time limit), continuations run and idle moments come. IndexedDB owes
  nothing: `BatchSettles` and `WrittenBack` hold though it never answers.
- The other modules have only safety properties.

## What is proved

TLAPS checks these for every value of the constants, from the assumptions named
in the modules (finite bounds are positive, names are distinct, tiles and places
are finitely many).

- `Lifecycles_proofs`, on `PlayerLifecycle`: types and seven safety properties, from the
  invariant `IInv`; `CarriedTheorem` states `RefreshCarried` of the run `player`
  and `TickingTheorem` its `PlayingMeansTicking`. `TickFindsFrames`,
  `FlightFlagExact` and `ReinitOnlyForRateLimit` are left to the proof. The
  properties are not inductive alone: a continuation of an old generation must
  find itself superseded, so stamps never lie in the future
  (`StampsInThePast`), a cleared player has nothing live
  (`NothingLiveAfterClear`), and refreshes of a generation come after its
  readiness (`RefreshMeansReady`). The step is proved conjunct by conjunct over
  lemmas of what a rebuild, a scheduled update and the end of an init leave.
- `FrameLoop_proofs`: `LoopIntact` of the run `frames`, for any number of frames and
  layers, any shifts and refreshes under way, with and without transitions, dedup
  and a thin loop. It is not inductive alone; it follows from `IInv`, which has two
  parts. `Held` says of the player's fields what the
  handlers rely on: the layers on the map are exactly those of the frames, of
  the staged replacements and of those still loading, each with one holder
  (`LayersGood`); replacements have different times (`Batch`) and are kept waiting
  only by a loop that plays (`Staffed`), so that a swap starts the loop at most
  once; layers still shifting in are no replacements and in no slot (`Apart`); the
  tick is armed only where it may be. `Loading` is about the load loop, which holds
  frame numbers of its own across awaits: until it ends nothing else runs, its
  order names each frame once, the frame it waits for has the layer it waits for,
  and those to come have none. Each synchronous operator has a lemma that it keeps
  `Held`'s parts, whatever a joining frame does (in `FrameFacts_proofs`: `SwapOneGood`, `SwapStagedGood`,
  `ShowSlotGood`, `StartLoopGood`, `StopLoopGood`, `ShiftAllGood`, `DedupGood`), over
  what it may change (`Follows`, `Swaps`); the two loops, over replacements and over
  new frames, are inductions on how far they have come. The handlers follow from
  these. The theorem assumes `~StaleOwed`: a refresh owed from before the load
  began makes it false (first of the player's findings below).
  `PlaybackKeepsPlace` needs, beyond `IInv`, that the cursor is never below 1
  (`PlaceInv`). Until two frames are loaded nothing but the load puts the cursor
  anywhere, and the load begins with the frame that is "now" (`FirstFrame`), so
  `_afterFrameInserted` finds "now" loaded when it looks for it. From then on a step
  that moves the cursor and is no playback either keeps the frame it is on or
  finds it gone. The theorem assumes `~StaleOwed` and `~ThinLoop`: a clock that
  moves between the first two frames makes it false (second finding below).
- `NwsAlerts_proofs`: `OneRefresh` is inductive with the types of the chain and
  "a cleared layer owes nothing"; each handler has a lemma of what it does to
  the chain, so that the zone pool need not be looked into. The refinement of
  `RefreshChain` follows step by step. `RenderOwed` does need the pool: it is
  inductive once "the list will draw" is said only of a list outside a backoff
  (`RenderComing`), with: a batch that was aborted is planned again by the list
  that aborted it (`AbortedReplans`), and no batch runs in a backoff. Of the nine
  fields of a batch the proof reads two, and lemmas say that the workers keep
  them.
- `FrameLoop_proofs`, on `Motion`: `MotionFits` follows from `MotionInv`. A snapshot
  is of the view there is (`FrameGood`), and a vector fits its pair as soon as both
  frames have layers, in the loop or not (`VectorGood`): a frame may join at any
  time. While frames are added, those to come are blank and those that have a
  layer join from the newest down, so that none of them comes between a vector and
  its pair (`LoadGood`). An estimate of this view was asked of two snapshots of it;
  without a first layer it finds no pair while frames are added (`EstimateGood`).
  A clip is of the mask there is, and if it is of another view, a cut or the
  debounce is on its way (`CoverGood`). That dedup keeps all of this needs what
  its walk knows at each frame, by induction over the walk (`WalkKeeps`): a pair
  that becomes adjacent has the scene of the frame that went. Assumed: `Null` is no
  layer, and the numbers of frames and scenes are natural.
- `NwsAlerts_proofs`, on `AlertShapes`: `ShapesDue` is inductive with the look at
  the alerts of which the picture was built (`ShapesInv`): it and the last look
  have the same decisions, and no outline has gone since. The decisions hold only
  the *number* of an alert's known zones; since outlines only arrive, an equal
  number means the same zones (`SameDecisions`), and from that on each zone what
  was kept then is what is due now (`KeptIsDue`). Assumed: zones are finitely many
  and named otherwise than places, and the alerts' times are integers.
- `NwsAlerts_proofs`, on `ZoneStore`: `ServedFresh` follows from
  `FreshInv`: a record's time is no later than the time at which NWS sent its shape,
  in the database (`SoundRecords`), in every request of the queue, awaited or not
  (`SoundQueue`), and in the write-back list (`SoundDrain`). The drain's answer
  needs the most: one write-back at most is awaited, and only by a drain that has
  its record in hand (`OneWriteBack`), so that a late answer of a given-up
  request takes nothing off the list. Assumed: zones are finitely many, the limit
  is a natural number, and what an earlier session left is no newer than its shape.
- `Wildfire_proofs`: `DrawnMatchesData` needs `DatesAgree`, which ties the three
  requests: the stamp holds the dates of the known outlines, so attributes that
  agree with the stamp belong to them. Lemmas say what a rebuild and a drawing
  left alone do to the picture. `DetailOwed` is inductive with the types of what is
  drawn, since a rebuild draws the outlines there are. `PopupKept` follows step by
  step: a rebuild for other decisions or another signature shows in `drawn`. The
  refinement of `RefreshChain` needs only the
  types of the chain and that a request, a due time and a cleared layer exclude
  each other.
- `Tiles_proofs`, on `TileShare`: `Wired` (a running download is in `inflight` under its key,
  and only those are), `Callers` (the waiter count is the number of tiles that
  wait, and a tile waits only for a running download of its kind) and `Content`
  (a download that counted as final began while the answer was final, and ends
  before that changes) are inductive together and give `OnlyFinal` and
  `OneSharedDownload` of the run `tiles`. `BudgetKept` is separate: the pruned
  window is the end of the sequence of all requests, and what it lacks is a
  minute old.
- `Lifecycles_proofs`, on `Wind`: an answer may start the loop, so `OneLoop` is inductive with: one
  request at most has a restart waiting for it, and meanwhile the streamlines are
  still, alive, and paused if motion is reduced; a paused overlay or one with a
  timer is alive. `_restart` restores all of it from any state that is alive and
  not paused, whatever waited before (`RestartAnew`); what the grids are does not
  matter. For `WindCurrent` it does: an entry of the cache is of its own key,
  answered or under way (`Entries`); a request asks for the slice that its key
  names (`Requests`); and what an overlay waits for has the key of the box on
  screen and of now, unless a timer, a move or the next show makes it ask again
  first (`ArrowsOK`, `FlowOK`). NDFD's boxes have no slice in their key, which is
  where the property stops.
- `Lifecycles_proofs`, on `Basemap`: `LabelsOnce` is inductive with: a layer of labels
  needs a base, and a restyle waits only in a layer whose context is lost
  (`LabelsInv`); it assumes that `None` is no style.
- `Tiles_proofs`, on `TileFetch`: `PendingExact` is inductive with types in which a count is
  any integer; that it is natural follows. The lemma of a burst (`UnloadCount`)
  splits a layer's outstanding tiles into those that stay, those cancelled at
  once and those whose promise settles later. `LoadMeansComplete` needs that a
  tile Leaflet marked loaded has ended, and that without a filter the promises of
  unloaded tiles are lookups or aborted requests (`LoadInv`); with a filter it is
  false (see the findings). For `WindowKept` of `PlayingSpec`: the plan has at most
  as many frames as the window, since a frame's number of busy predecessors is an
  injection into it (`PlanFits`); the shown frame is first, so that it is in the
  plan or, by `PendingExact`, has no tile that waits; and a reset queues a plan,
  because every layer holds the view's tiles (`WindowInv`).
- `Card_proofs`: `PausedExactly` and `RebuildOwed` are inductive with the types
  (`Sound`). `ChoicesApplied` needs that a built map which still waits for saved
  choices is owed them (`Awaited`), so that their answer applies them; and that
  every GET on its way finds the object waiting for it, of which one at most
  hydrates and none asks for a record that was read (`Flow`).
- `Parts_proofs`: `RecordKept` needs, for each element, an
  account of what is under way (`Kept`): what a merged cache lacks is neither in
  the record nor in a write on its way, unless the viewer removed it (`Covers`);
  the last write on its way is of the cache, or the record is the cache already
  (`Synced`); an object that has not read is told what the record is, since no
  write that concerns it follows its GET (`ToldWhatIs`), or it has been reset
  since and lacks only what was removed (`ResetRemoves`). All of it holds while
  the object keeps the id it asked with. Seven lemmas say what one change to the
  calls or the answers does to any object; removals of any kind are one lemma
  (`KeptThins`), over an order-preserving map of the places that stay. `ChoiceKept`
  follows from the types. `StormDrawn` is inductive with `StormInv`: a clean
  buffer holds every settled strike that is still in time and was projected where
  the layer is, and a layer that is in the page is where the map is. That theorem
  assumes only that the bounds are natural numbers, the clock's positive; the
  other two that `None` is no element, id or value.
- `Parts_proofs`, on `MapView`: `MapInPlace` follows from `MapInv`, which speaks of
  the base, where anything but a popup put the map last. The map rests there or is
  on its way there, unless a popup has panned it aside, and then the view to put
  back is the base (`Shown`, `Saves`). The base is what the stop on show was last
  sent to (`SentTo`), also while the tracking waits for a hand, and with no update
  missed that is where its entity is (`UpToDate`): so the catching up after a touch
  that moved nothing need not move the map when the stop has not moved. Whatever
  makes the card move the map is one of two operators, catching up and going to a
  stop (`CatchesUp`, `GoesTo`), and either sends the view to its stop or leaves
  both alone. Assumed: places, entities and stops are told apart from none and from
  each other, and the side to which popups pan is no place of theirs.

Only model-checked:

- liveness (`BlankHeals`, `RefreshesForever`, `TilesSettle`, `HeldTilesStart`,
  `ZonesHeal`, the `Refreshes` of `RefreshChained`, `FeedShown`, `MapHeals`, `BatchSettles`,
  `WrittenBack`), because the prover has no fairness;
- `OneFrameKept` of `FrameLoop`: the invariant behind it says which layers are on
  screen and in which of their roles, for every frame that joins or leaves, and
  has not been written;
- the type of the limiter's memory, whose removal is defined by recursion over the
  sequence;
- `LoopFollows` of `FrameListing`, whose times are the smallest and largest of sets
  and counts of them, and `EditorInStep`, which relates two lists and the view:
  its inductive form has not been written.

## Findings

With a run that shows them (`PROJECT.json` quotes the lines):

- `frames_reentrant_swap`: swapping in the first of several replacements may
  start the loop, which swaps the others; the outer loop dereferences nothing.
- `frames_ghost`: a shifted-in frame that joins below the frame on screen moves
  its position up, but not `_prev1Slot`, so that the wrong layer is faded out and
  two frames show until the loop wraps.
- `fires_orphaned`: a rebuild while a render waits for the popup to close runs
  that render inside itself; the layers it added stay on the map for good.

Met while modelling, by reading or by a run that is not kept.

Player and frames:

- A refresh owed from before a rebuild shifts frames while the rebuilt loop
  loads (radar-player.ts:2177, 3320); a layer stays on the map for good
  (`NoOrphanLayers` with `StaleOwed = TRUE`).
- `_afterFrameInserted` (radar-player.ts:3134) relies on "now" being loaded when
  the second frame joins; if the clock passes between the first and the second
  frame it is not, and the cursor becomes -1 (`ThinLoop = TRUE`).
- The comment at radar-player.ts:3159 says an update adds at most one frame; it
  adds as many as the listing has.
- After a gap longer than its listing reaches back, a RainViewer loop is not
  rebuilt and keeps frames older than `past_minutes`, at strides above the
  listing's own (`heard.old` in `LoopFollows`).
- A capture in flight when a shift renumbers the frames is lost, and a frame
  whose tiles failed keeps its partial snapshot, from which the next vector is
  measured.
- With playback paused, a tile that leaves the map during its lookup is counted
  off after the plan that its unload queued (radar-player.ts:2714), and no event
  queues another: held frames stay unfetched until the map moves
  (`HeldTilesStart` with two frames, without fairness of `ShowNextSlot`).
- Leaflet's `_loading` stays set when a pan prunes the last tile a layer waited
  for. The shown frame's tiles of the next view may then wait behind another
  frame's; `PlayingSpec` has no pans, and says so.
- With the DWD pixel filter a tile that is already gone still calls `done()`
  (fetch-tile-layer.ts:330), which may mark its successor loaded.

Overlays:

- A pan while the last zones of a queue load makes the batch read past its end
  (nws-alerts-layer.ts:431 against 422), and take the TypeError for a block by
  NWS. Parked workers that resume after a block go on asking (422, 430); a batch
  that is aborted after it saw the block forgets it (446); pause() does not stop
  zone requests of the running batch (280, 428).
- pause() of the wildfire layer leaves a refresh in flight, whose tail goes on to
  ask for outlines and full outlines (wildfire-layer.ts:260, 300); its comment
  (202) says that no new network activity happens. Tapping another fire while a
  render waits for the first popup removes the layer the new popup belongs to;
  clear() does not close it.
- The fetcher's key does not name NDFD's slice, so a cached NDFD grid may be the
  one of the half hour before; the shared promise of the coverage list hangs on
  its first requester's abort; the streamlines can restart in the middle of a drag.

Card, viewer state and map:

- A tile that Home Assistant answers with 404, because it is up before its proxy
  is registered, is drawn empty without an error (vector-basemap.ts:32): nothing
  owes a reload, the next token brings none (303), and the holes stay until
  something else reloads the map or it is moved on. `MapHeals` speaks of the rest
  (`broken`); `holes` are in the model and in no property.
- The editor tells the preview which preset is open when the index or the page
  changes (editor.ts:238). YAML mode takes the editor off the page, which lets go of
  the preset (223), and putting it back (195) tells nothing: a row is open that the
  preview does not show, whatever editor.ts:133 says, and pans of the map do not
  reach it. A list that was reordered in YAML mode leaves another preset open.
- A key deleted before the record has been read comes back with it
  (viewer-state.ts:236). After a first read that failed, a later one merges
  saved choices that nothing applies again. An element that is given a config
  while detached registers its nonce, and two elements can take one from each
  other again and again.
- A popup opened while the card moves the map takes the wrong place for the one
  to restore; a press of the button during its animation tells the editor a
  place on the way; an update of `hass` that comes during a touch is skipped
  though `moveend` has already cleared the touch's mark, so that the tracked
  marker waits for the next one. `MapInPlace` excepts the cases that `past`
  records.

## Not modelled

Within the modelled parts: two tabs on one zone store; the alerts layer's radius
filter and the timers of the workers' catch-up; RainViewer or NOAA
publications that arrive late, and dedup beside a listing (`FrameLoop` has
it); frames of `Motion` that are forecasts; fractions, projections and
tolerances of coordinates, which are places; the lengths of delays, which are
orders of events or small units of time.

Left out for good: pixels, colours, labels, CSS and DOM; the editor's pages that
only emit what was typed; `lk.ts`, floating point over images, whose vector is an
unknown value that belongs to two scenes; MapLibre and Leaflet themselves,
which appear as the environment; URL construction; parsers of the listings,
whose results are inputs; lookups over literal tables.

What could be added: `NwsAlerts` with `ZoneStore` in one run, which
needs a smaller pool.
