------------------------------- MODULE Basemap -------------------------------
(***************************************************************************)
(* The basemap of MapTiles and MapTilesVector: _setupBasemap of the card,   *)
(* the vector map (src/src/vector-basemap.ts: one MapLibre layer, or one    *)
(* for the map and one for its labels over the radar), the raster layer it  *)
(* falls back to, and the access token that both keep (map-tiles-token.ts). *)
(*                                                                          *)
(* Home Assistant is external: it goes down, which voids every token and    *)
(* rejects what it was asked, comes back, and serves the tiles a while      *)
(* later.  So are the browser's WebGL contexts, lost and given back, and    *)
(* MapLibre, which asks for what it draws and reports what was refused.     *)
(*                                                                          *)
(* Satellite's labels are the one-layer vector map with labels of CARTO's   *)
(* to fall back to, and have no module of their own.                        *)
(***************************************************************************)
EXTENDS Naturals

CONSTANTS None, MaxCalls   \* bound: token calls of one chain under way at once

\* No style is None.
ASSUME BasemapAssumption == None \notin {"full", "base", "labels"}

VARIABLES
    ha,        \* Home Assistant: connected, serving map tiles
    tabHidden, \* the page is in the background
    asked,     \* the config: the vector map, its labels over the radar
    vector,    \* startVectorBasemap's closure
    base,      \* its map's layer
    labels,    \* its labels' layer
    raster     \* the MapTiles FetchTileLayer and attachMapTilesLayer's closure

mapVars == <<ha, tabHidden, asked, vector, base, labels, raster>>

\* startMapTilesToken: whether it runs, its calls under way, its retry timer.
NoChain == [on |-> FALSE, calls |-> 0, retry |-> FALSE]

\* A token is None, "good" or "void": of a core that has been restarted since.
NoVector == [phase |-> "off", chain |-> NoChain, token |-> None, needsReload |-> FALSE,
             throttled |-> FALSE, timer |-> FALSE, recovering |-> FALSE]

\* style: "full", "base" or "labels"; restyle, the style that waits for a lost
\* context.  broken: something it drew was refused; error, MapLibre has yet to
\* say so; holes: tiles were not found, of which it says nothing.  grace: the
\* context is lost, and the time it has is running.
NoLayer == [on |-> FALSE, style |-> None, restyle |-> None, broken |-> FALSE,
            error |-> FALSE, holes |-> FALSE, lost |-> FALSE, grace |-> FALSE]

\* failing: tiles are being retried; failed: some gave up since the last token;
\* blank: some gave up and were not asked for since.
NoRaster == [chain |-> NoChain, onMap |-> FALSE, token |-> None,
             failing |-> FALSE, failed |-> FALSE, blank |-> FALSE]

\* What a request with this token comes to.
Refused(token) == ~(ha.connected /\ ha.serving /\ token = "good")

-----------------------------------------------------------------------------
(* startMapTilesToken                                                        *)

fetchOnce(c) == [c EXCEPT !.retry = FALSE, !.calls = IF @ < MaxCalls THEN @ + 1 ELSE @]
CallAnswered(c) == [c EXCEPT !.calls = @ - 1]
Rejected(c) == [c EXCEPT !.calls = 0, !.retry = @ \/ c.calls > 0]
StartedChain == fetchOnce([NoChain EXCEPT !.on = TRUE])

\* The interval, the retry timer, and every reconnection ask for a token.
Wakes(c) == c.on /\ c.calls < MaxCalls

-----------------------------------------------------------------------------
(* The vector map's layers                                                   *)

\* A layer that is added, or whose style is set, asks for all it draws, from the
\* TileJSON on, whose 404 is an error too.
Loaded(layer, style, token) ==
    [layer EXCEPT !.style = style, !.broken = Refused(token), !.error = Refused(token),
                  !.holes = FALSE]

\* applyStyle: a map with its context lost gets it as the context returns.
applyStyle(layer, style, token) ==
    IF layer.lost THEN [layer EXCEPT !.restyle = style] ELSE Loaded(layer, style, token)

\* reload: the maps that have a style, not those with their context lost.
reloadLayer(layer, token) ==
    IF layer.on /\ ~layer.lost THEN Loaded(layer, layer.style, token) ELSE layer

Reload(v) ==
    /\ vector' = [v EXCEPT !.needsReload = FALSE]
    /\ base' = reloadLayer(base, v.token)
    /\ labels' = reloadLayer(labels, v.token)

\* cleanup: the token chain, the timers and the layers go.
Cleanup == vector' = [NoVector EXCEPT !.phase = "gone"] /\ base' = NoLayer /\ labels' = NoLayer

\* attachMapTilesLayer, by the card's attachRaster.
attachRaster == raster' = [NoRaster EXCEPT !.chain = StartedChain]

fallback == Cleanup /\ attachRaster

\* Mutant: the map keeps the style it was split from.
labelsGoneOnly == labels' = NoLayer /\ UNCHANGED base

\* labelsGone: the map draws its labels again.
labelsGone == labels' = NoLayer /\ base' = applyStyle(base, "full", vector.token)

-----------------------------------------------------------------------------
(* The card sets the basemap up and takes it down                            *)

\* _setupBasemap: without WebGL2 the fallback comes before the start returns.
_setupBasemap(webGL2) ==
    /\ vector.phase = "off" /\ ~raster.chain.on
    /\ IF asked.vector /\ webGL2
       THEN /\ vector' = [NoVector EXCEPT !.phase = "loading", !.chain = StartedChain]
            /\ UNCHANGED raster
       ELSE /\ vector' = [NoVector EXCEPT !.phase = "gone"]
            /\ attachRaster
    /\ UNCHANGED <<ha, tabHidden, asked, base, labels>>

_teardown ==
    /\ vector.phase # "off"
    /\ vector' = NoVector /\ base' = NoLayer /\ labels' = NoLayer
    /\ raster' = NoRaster
    /\ UNCHANGED <<ha, tabHidden, asked>>

\* The MapLibre file, the style and the first token have all come.  The first
\* layer, or the labels' layer, may not start.
Started(baseRuns, labelsRun) ==
    /\ vector.phase = "loading" /\ vector.token # None
    /\ IF ~baseRuns THEN fallback
       ELSE /\ vector' = [vector EXCEPT !.phase = "up"]
            /\ base' = Loaded([NoLayer EXCEPT !.on = TRUE],
                              IF asked.labelsAbove /\ labelsRun THEN "base" ELSE "full",
                              vector.token)
            /\ labels' = IF asked.labelsAbove /\ labelsRun
                         THEN Loaded([NoLayer EXCEPT !.on = TRUE], "labels", vector.token)
                         ELSE NoLayer
            /\ UNCHANGED raster
    /\ UNCHANGED <<ha, tabHidden, asked>>

\* One of the downloads fails.
LoadFails ==
    /\ vector.phase = "loading"
    /\ fallback
    /\ UNCHANGED <<ha, tabHidden, asked>>

-----------------------------------------------------------------------------
(* The vector map's token and its recovery                                   *)

VectorAsks ==
    /\ Wakes(vector.chain)
    /\ vector' = [vector EXCEPT !.chain = IF ha.connected THEN fetchOnce(@) ELSE Rejected(fetchOnce(@))]
    /\ UNCHANGED <<ha, tabHidden, asked, base, labels, raster>>

\* Mutant: a new token reloads nothing.
TokenOnly(v) == vector' = v /\ UNCHANGED <<base, labels>>

\* A token finishes a reload that is owed.
TokenReloads(v) ==
    IF v.needsReload THEN Reload(v) ELSE vector' = v /\ UNCHANGED <<base, labels>>

VectorToken ==
    /\ vector.chain.calls > 0 /\ ha.connected
    /\ TokenReloads([vector EXCEPT !.chain = CallAnswered(@), !.token = "good"])
    /\ UNCHANGED <<ha, tabHidden, asked, raster>>

\* A tile's 404, while the proxy is not registered, is drawn empty, and is no
\* error; a stale token's 401, or no answer at all, is one.
refused(layer) ==
    IF ~layer.on \/ layer.lost THEN layer
    ELSE IF ha.connected /\ ~ha.serving THEN [layer EXCEPT !.holes = TRUE]
    ELSE [layer EXCEPT !.broken = TRUE, !.error = TRUE]

\* MapLibre asks for more tiles, as the map is moved, and is refused.
Refusal ==
     /\ base.on /\ Refused(vector.token)
        /\ base' = refused(base) /\ labels' = refused(labels)
        /\ UNCHANGED <<ha, tabHidden, asked, vector, raster>>

\* onError: recover now, or once RECOVERY_THROTTLE_MS have passed.
Recovers(v) ==
    IF v.timer THEN v
    ELSE IF v.throttled THEN [v EXCEPT !.timer = TRUE]
    ELSE [v EXCEPT !.throttled = TRUE, !.recovering = TRUE]

onError ==
    /\ base.error \/ labels.error
    /\ base' = [base EXCEPT !.error = FALSE] /\ labels' = [labels EXCEPT !.error = FALSE]
    /\ vector' = Recovers([vector EXCEPT !.needsReload = TRUE])
    /\ UNCHANGED <<ha, tabHidden, asked, raster>>

\* The throttle has passed, and recover runs if it was put off.
ThrottleEnds ==
    /\ vector.throttled
    /\ vector' = [vector EXCEPT !.timer = FALSE, !.throttled = vector.timer,
                                !.recovering = @ \/ vector.timer]
    /\ UNCHANGED <<ha, tabHidden, asked, base, labels, raster>>

\* recover's own token call is answered, or fails.
RecoverAnswered ==
    /\ vector.recovering
    /\ IF ha.connected THEN Reload([vector EXCEPT !.recovering = FALSE, !.token = "good"])
       ELSE vector' = [vector EXCEPT !.recovering = FALSE] /\ UNCHANGED <<base, labels>>
    /\ UNCHANGED <<ha, tabHidden, asked, raster>>

-----------------------------------------------------------------------------
(* WebGL contexts, watched by watchContext                                   *)

Losing(layer) == [layer EXCEPT !.lost = TRUE, !.error = FALSE, !.grace = ~tabHidden]

\* What was lost comes back with the style it had, asked for again, unless
\* another was put off until now.
Restored(layer) ==
    Loaded([layer EXCEPT !.lost = FALSE, !.grace = FALSE, !.restyle = None],
           IF layer.restyle = None THEN layer.style ELSE layer.restyle, vector.token)

BaseLost ==
    /\ base.on /\ ~base.lost
    /\ base' = Losing(base)
    /\ UNCHANGED <<ha, tabHidden, asked, vector, labels, raster>>

LabelsLost ==
    /\ labels.on /\ ~labels.lost
    /\ labels' = Losing(labels)
    /\ UNCHANGED <<ha, tabHidden, asked, vector, base, raster>>

BaseRestored ==
    /\ base.lost
    /\ base' = Restored(base)
    /\ UNCHANGED <<ha, tabHidden, asked, vector, labels, raster>>

LabelsRestored ==
    /\ labels.lost
    /\ labels' = Restored(labels)
    /\ UNCHANGED <<ha, tabHidden, asked, vector, base, raster>>

\* CONTEXT_RESTORE_GRACE_MS with the page in front.
BaseGivenUp ==
    /\ base.grace
    /\ fallback
    /\ UNCHANGED <<ha, tabHidden, asked>>

LabelsGivenUp ==
    /\ labels.grace
    /\ labelsGone
    /\ UNCHANGED <<ha, tabHidden, asked, vector, raster>>

TabSwitch ==
    /\ tabHidden' = ~tabHidden
    /\ base' = [base EXCEPT !.grace = base.lost /\ tabHidden]
    /\ labels' = [labels EXCEPT !.grace = labels.lost /\ tabHidden]
    /\ UNCHANGED <<ha, asked, vector, raster>>

-----------------------------------------------------------------------------
(* The raster layer: its tiles are retried a while, with the token they were  *)
(* asked for with, and then given up                                         *)

RasterAsks ==
    /\ Wakes(raster.chain)
    /\ raster' = [raster EXCEPT !.chain = IF ha.connected THEN fetchOnce(@) ELSE Rejected(fetchOnce(@))]
    /\ UNCHANGED <<ha, tabHidden, asked, vector, base, labels>>

\* The layer is added, or drawn again if tiles gave up since the last token.
Draws(r) == ~r.onMap \/ r.failed

RasterToken ==
    LET r == [raster EXCEPT !.chain = CallAnswered(@), !.token = "good", !.failed = FALSE]
        bad == ~ha.serving
    IN  /\ raster.chain.calls > 0 /\ ha.connected
        /\ raster' = IF Draws(raster)
                     THEN [r EXCEPT !.onMap = TRUE, !.failing = bad, !.blank = FALSE] ELSE r
        /\ UNCHANGED <<ha, tabHidden, asked, vector, base, labels>>

\* The map is moved, and new tiles are refused.
TilesRefused ==
    /\ raster.onMap /\ Refused(raster.token) /\ ~raster.failing
    /\ raster' = [raster EXCEPT !.failing = TRUE]
    /\ UNCHANGED <<ha, tabHidden, asked, vector, base, labels>>

TilesGiveUp ==
    /\ raster.failing
    /\ raster' = [raster EXCEPT !.failing = FALSE, !.failed = TRUE, !.blank = TRUE]
    /\ UNCHANGED <<ha, tabHidden, asked, vector, base, labels>>

-----------------------------------------------------------------------------
(* Home Assistant goes down: calls are rejected, tokens are void.  Its        *)
(* reconnection asks for new ones.                                           *)

Voided(token) == IF token = None THEN None ELSE "void"

GoesDown ==
    /\ ha.connected
    /\ ha' = [connected |-> FALSE, serving |-> FALSE]
    /\ vector' = [vector EXCEPT !.chain = Rejected(@), !.recovering = FALSE, !.token = Voided(@)]
    /\ raster' = [raster EXCEPT !.chain = Rejected(@), !.token = Voided(@)]
    /\ UNCHANGED <<tabHidden, asked, base, labels>>

Reconnects ==
    LET ready(c) == IF c.on THEN fetchOnce(c) ELSE c
    IN  /\ ~ha.connected
        /\ ha' = [ha EXCEPT !.connected = TRUE]
        /\ vector' = [vector EXCEPT !.chain = ready(@)]
        /\ raster' = [raster EXCEPT !.chain = ready(@)]
        /\ UNCHANGED <<tabHidden, asked, base, labels>>

Serves ==
    /\ ha.connected /\ ~ha.serving
    /\ ha' = [ha EXCEPT !.serving = TRUE]
    /\ UNCHANGED <<tabHidden, asked, vector, base, labels, raster>>

-----------------------------------------------------------------------------
InitMap ==
    /\ ha \in [connected : {TRUE}, serving : BOOLEAN]
    /\ tabHidden = FALSE
    /\ asked \in [vector : BOOLEAN, labelsAbove : BOOLEAN]
    /\ vector = NoVector /\ base = NoLayer /\ labels = NoLayer /\ raster = NoRaster

TokenStep == VectorAsks \/ VectorToken \/ RasterAsks \/ RasterToken

NextMap ==
    \/ (\E webGL2 \in BOOLEAN : _setupBasemap(webGL2)) \/ _teardown
    \/ (\E b, l \in BOOLEAN : Started(b, l)) \/ LoadFails
    \/ TokenStep
    \/ Refusal \/ onError \/ ThrottleEnds \/ RecoverAnswered
    \/ BaseLost \/ LabelsLost \/ BaseRestored \/ LabelsRestored
    \/ BaseGivenUp \/ LabelsGivenUp \/ TabSwitch
    \/ TilesRefused \/ TilesGiveUp
    \/ GoesDown \/ Reconnects \/ Serves

\* Timers fire, calls are answered, downloads end and MapLibre reports; nothing
\* is assumed of Home Assistant, the browser or the viewer.
FairnessMap ==
    /\ WF_mapVars(VectorAsks) /\ WF_mapVars(VectorToken)
    /\ WF_mapVars(RasterAsks) /\ WF_mapVars(RasterToken)
    /\ WF_mapVars((\E b, l \in BOOLEAN : Started(b, l)) \/ LoadFails)
    /\ WF_mapVars(onError) /\ WF_mapVars(ThrottleEnds) /\ WF_mapVars(RecoverAnswered)
    /\ WF_mapVars(BaseGivenUp) /\ WF_mapVars(TilesGiveUp)

SpecMap == InitMap /\ [][NextMap]_mapVars /\ FairnessMap

-----------------------------------------------------------------------------
\* The names are on the map once, however the labels' layer and the contexts
\* come and go: on their own layer over a map without them, or in the map.
LabelsOnce ==
    base.on => LET style == IF base.restyle = None THEN base.style ELSE base.restyle
               IN  labels.on <=> style = "base"

MapWhole ==
    \/ vector.phase = "off"
    \/ vector.phase = "up" /\ ~base.broken /\ (labels.on => ~labels.broken)
    \/ vector.phase = "gone" /\ raster.onMap /\ ~raster.blank /\ ~raster.failing

\* Whatever MapLibre said a restart of Home Assistant broke, and whenever it broke
\* it, the map is mended once Home Assistant serves tiles and the page is in
\* front: "a reload that failed again (HA still starting) would otherwise leave a
\* map nobody pans broken until the next token".  Of holes, tiles not found while
\* the proxy was not registered, nothing is said: they stay until a reload for
\* something else.
MapHeals ==
    <>[](ha.connected /\ ha.serving /\ ~tabHidden /\ ~labels.lost) => []<>MapWhole

=============================================================================
