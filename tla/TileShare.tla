------------------------------ MODULE TileShare ------------------------------
(***************************************************************************)
(* How radar tiles of several layers and cards share their bytes           *)
(* (src/src/tile-cache.ts, and createFetchTile of                          *)
(* src/src/fetch-tile-layer.ts, which calls it): a memory of recent tiles, *)
(* downloads that several tiles join, and a persistent store for tiles     *)
(* whose content can change no more.  TileFetch follows one tile through   *)
(* its retries; here tiles of the same URL meet.                           *)
(*                                                                         *)
(* What a URL stands for changes with time.  An unpinned frame is first    *)
(* answered with a forecast ("draft"), and once a run covers it with the   *)
(* observation ("final").  A forecast frame pinned to a run is answered    *)
(* with that run ("final") until its own time has passed, and then with    *)
(* an observation ("later").  A request that counts as final must never    *)
(* meet anything but "final".                                              *)
(***************************************************************************)
EXTENDS RateLimiter

CONSTANTS
  Tiles,      \* tiles that layers may create, over and over
  Downloads,  \* names for downloads
  None        \* no download, no content, no URL

ASSUME ShareAssumption ==
  /\ IsFiniteSet(Tiles)
  /\ None \notin Downloads
  /\ None \notin {"draft", "final", "later"} \cup Urls \cup (Urls \X BOOLEAN)

VARIABLES
  pinned,   \* the frame is pinned to a forecast run; never changes
  phase,    \* where the frame stands, see Phases
  at,       \* per tile: where it stands
  url,      \* per tile: its URL
  persists, \* per tile: its layer's policy has a persistUntil
  need,     \* per tile: it last asked for final content
  on,       \* per tile: the download it waits for
  got,      \* per tile: the content it was given
  memo,     \* per URL: the copy in memory and its final flag
  store,    \* per URL: the content in IndexedDB
  reading,  \* URLs whose IndexedDB read has not answered
  lookups,  \* URLs with a lookup that tiles wait for
  gone,     \* storeGone
  inflight, \* per key: the download others may join
  run,      \* per download: free, running or aborted
  key,      \* per download: the key it was started for, until it has settled
  waiters,  \* per download: its waiter count
  since     \* per download: the phase in which it was started

tiles == <<at, url, persists, need, on, got>>
copies == <<memo, store, reading, lookups, gone>>
loads == <<inflight, run, key, waiters, since>>
frame == <<pinned, phase>>
vars == <<limiter, frame, tiles, copies, loads>>

Stages == {"none", "lookup", "found", "missed", "slot", "fetching", "shown", "failed", "lost"}
Contents == {"draft", "final", "later"}

\* "early": requests count as final; "margin": none does, the answer is still
\* the run's (the last 5 minutes before the frame's time); "passed": it is not.
Phases == IF pinned THEN {"early", "margin", "passed"} ELSE {"draft", "fixed"}
FirstPhase == IF pinned THEN "early" ELSE "draft"
PhaseAfter(p) == CASE p = "early" -> "margin" [] p = "margin" -> "passed" [] OTHER -> "fixed"

\* What the server answers in a phase, and what a download begun in phase p
\* may bring by now.
Served(p) == CASE p = "draft" -> "draft" [] p = "passed" -> "later" [] OTHER -> "final"
Answers(p) == {Served(p), Served(phase)}

Keys == Urls \X BOOLEAN
NoCopy == [content |-> None, final |-> FALSE]
Copy(content, final) == [content |-> content, final |-> final]

\* isFinalRequest
IsFinalRequest(lasting) == lasting /\ (pinned => phase = "early")

\* shareKeyFor
ShareKeyFor(t, final) == <<url[t], final>>

\* memoGet
MemoHit(u, needed) == memo[u].content # None /\ (needed => memo[u].final)

Waiting(d) == {t \in Tiles : at[t] = "fetching" /\ on[t] = d}

\* A lookup has answered and its tiles' continuations are due.
Microtask == \E t \in Tiles : at[t] \in {"found", "missed"}

-----------------------------------------------------------------------------
(* A tile.                                                                 *)

Init ==
  /\ LimiterInit
  /\ pinned \in BOOLEAN /\ phase = FirstPhase
  /\ at = [t \in Tiles |-> "none"]
  /\ url = [t \in Tiles |-> None]
  /\ persists = [t \in Tiles |-> FALSE] /\ need = [t \in Tiles |-> FALSE]
  /\ on = [t \in Tiles |-> None] /\ got = [t \in Tiles |-> None]
  /\ memo = [u \in Urls |-> NoCopy] /\ store = [u \in Urls |-> None]
  /\ reading = {} /\ lookups = {} /\ gone = FALSE
  /\ inflight = [k \in Keys |-> None]
  /\ run = [d \in Downloads |-> "free"]
  /\ key = [d \in Downloads |-> None]
  /\ waiters = [d \in Downloads |-> 0]
  /\ since = [d \in Downloads |-> FirstPhase]

\* _tileCachePolicy and persistUntilFor, when a layer is built: an unpinned
\* layer persists only what a run covers by then.
MayPersist == pinned \/ phase = "fixed"

\* createFetchTile and start(): a copy in memory is shown, otherwise the store
\* is asked, or a lookup of the same URL joined.
Create(t, u, lasting) ==
  /\ at[t] = "none"
  /\ lasting => MayPersist
  /\ url' = [url EXCEPT ![t] = u]
  /\ persists' = [persists EXCEPT ![t] = lasting]
  /\ LET needed == IsFinalRequest(lasting)
         hit == MemoHit(u, needed)
     IN  /\ need' = [need EXCEPT ![t] = needed]
         /\ at' = [at EXCEPT ![t] = IF hit THEN "shown" ELSE IF gone THEN "missed" ELSE "lookup"]
         /\ got' = [got EXCEPT ![t] = IF hit THEN memo[u].content ELSE None]
         /\ IF hit \/ gone THEN UNCHANGED <<reading, lookups>>
            ELSE reading' = reading \cup {u} /\ lookups' = lookups \cup {u}
  /\ UNCHANGED <<limiter, frame, on, memo, store, gone, loads>>

\* A waiting tile leaves download d; the last one to leave aborts it.
Detach(t, d) ==
  /\ waiters' = [waiters EXCEPT ![d] = @ - 1]
  /\ IF waiters[d] = 1
     THEN /\ run' = [run EXCEPT ![d] = "aborted"]
          /\ inflight' = IF inflight[key[d]] = d THEN [inflight EXCEPT ![key[d]] = None] ELSE inflight
     ELSE UNCHANGED <<run, inflight>>
  /\ UNCHANGED <<key, since>>

\* cancelTile: a retry timer is cleared, a lookup goes on without the tile.
Cancel(t) ==
  /\ at[t] # "none"
  /\ at' = [at EXCEPT ![t] = "none"]
  /\ url' = [url EXCEPT ![t] = None]
  /\ persists' = [persists EXCEPT ![t] = FALSE] /\ need' = [need EXCEPT ![t] = FALSE]
  /\ on' = [on EXCEPT ![t] = None] /\ got' = [got EXCEPT ![t] = None]
  /\ IF at[t] = "fetching" THEN Detach(t, on[t]) ELSE UNCHANGED loads
  /\ UNCHANGED <<limiter, frame, copies>>

\* The tile is one more caller of download d.
Waits(t, d) ==
  /\ at' = [at EXCEPT ![t] = "fetching"] /\ on' = [on EXCEPT ![t] = d]
  /\ waiters' = [waiters EXCEPT ![d] = @ + 1]

\* tryFetch: join the download of the same key, or start one if the limiter
\* has a slot, or wait for a slot.
TryFetch(t) ==
  LET final == IsFinalRequest(persists[t])
      k == ShareKeyFor(t, final)
  IN  /\ need' = [need EXCEPT ![t] = final]
      /\ \/ /\ inflight[k] # None
            /\ Waits(t, inflight[k])
            /\ UNCHANGED <<window, sent, inflight, run, key, since>>
         \/ /\ inflight[k] = None /\ ~CanFetch(url[t])
            /\ NoSlot
            /\ at' = [at EXCEPT ![t] = "slot"]
            /\ UNCHANGED <<on, loads>>
         \/ /\ inflight[k] = None /\ CanFetch(url[t])
            /\ Record(url[t])
            /\ \E d \in Downloads :
                 /\ run[d] = "free"
                 /\ run' = [run EXCEPT ![d] = "running"]
                 /\ key' = [key EXCEPT ![d] = k]
                 /\ since' = [since EXCEPT ![d] = phase]
                 /\ inflight' = [inflight EXCEPT ![k] = d]
                 /\ Waits(t, d)

\* The timer of a tile that waits for a slot, or to try again.
RetryFires(t) ==
  /\ at[t] = "slot"
  /\ TryFetch(t)
  /\ UNCHANGED <<now, cache, frame, url, persists, got, copies>>

\* The tile's continuation after the lookup: the stored copy, or one another
\* tile's download left in memory meanwhile, or the network.
Continue(t) ==
  \/ /\ at[t] = "found" \/ (at[t] = "missed" /\ MemoHit(url[t], need[t]))
     /\ at' = [at EXCEPT ![t] = "shown"]
     /\ got' = [got EXCEPT ![t] = IF at[t] = "found" THEN @ ELSE memo[url[t]].content]
     /\ UNCHANGED <<limiter, frame, url, persists, need, on, copies, loads>>
  \/ /\ at[t] = "missed" /\ ~MemoHit(url[t], need[t])
     /\ TryFetch(t)
     /\ UNCHANGED <<now, cache, frame, url, persists, got, copies>>

-----------------------------------------------------------------------------
(* The store.                                                              *)

\* The lookup of u answers each of its tiles with content c.
LookupEnds(u, c) ==
  LET asked == {t \in Tiles : at[t] = "lookup" /\ url[t] = u}
  IN  /\ lookups' = lookups \ {u}
      /\ at' = [t \in Tiles |-> IF t \in asked THEN (IF c = None THEN "missed" ELSE "found") ELSE at[t]]
      /\ got' = [t \in Tiles |-> IF t \in asked THEN c ELSE got[t]]

\* IndexedDB answers: what it holds, or nothing (an error, or it expired).
\* After the limit only the memory gains.
StoreAnswers(u) ==
  /\ u \in reading
  /\ reading' = reading \ {u}
  /\ \E c \in {store[u], None} :
       /\ memo' = IF c = None THEN memo ELSE [memo EXCEPT ![u] = Copy(c, TRUE)]
       /\ IF u \in lookups THEN LookupEnds(u, c) ELSE UNCHANGED <<lookups, at, got>>
  /\ UNCHANGED <<limiter, frame, url, persists, need, on, store, gone, loads>>

\* LOOKUP_TIMEOUT_MS: the lookup counts as a miss and ends the store's use.
LookupTimesOut(u) ==
  /\ u \in lookups
  /\ gone' = TRUE
  /\ LookupEnds(u, None)
  /\ UNCHANGED <<limiter, frame, url, persists, need, on, memo, store, reading, loads>>

\* Entries leave the memory (5 minutes, 256 tiles) and the store (expiry,
\* quota, cleared by the user).
MemoForgets(u) ==
  /\ memo[u] # NoCopy
  /\ memo' = [memo EXCEPT ![u] = NoCopy]
  /\ UNCHANGED <<limiter, frame, tiles, store, reading, lookups, gone, loads>>

StoreForgets(u) ==
  /\ store[u] # None
  /\ store' = [store EXCEPT ![u] = None]
  /\ UNCHANGED <<limiter, frame, tiles, memo, reading, lookups, gone, loads>>

-----------------------------------------------------------------------------
(* Downloads.                                                              *)

\* Download d is over; only its own entry is taken out of the map.
Ends(d) ==
  /\ inflight' = IF inflight[key[d]] = d THEN [inflight EXCEPT ![key[d]] = None] ELSE inflight
  /\ run' = [run EXCEPT ![d] = "free"]
  /\ waiters' = [waiters EXCEPT ![d] = 0]
  /\ key' = [key EXCEPT ![d] = None] /\ since' = [since EXCEPT ![d] = FirstPhase]

\* Mutant of StoreTile: the layer's policy is used, the request's is not.
StoreTileByLayer(d, u, content) ==
  /\ memo' = [memo EXCEPT ![u] = Copy(content, \E t \in Waiting(d) : persists[t])]
  /\ store' \in {store, IF gone \/ ~(\E t \in Waiting(d) : persists[t]) THEN store
                        ELSE [store EXCEPT ![u] = content]}

\* storeTile: in memory, and in the store if the request was final.  The store
\* may have no room, or the frame's time there may be over.
StoreTile(d, u, content) ==
  /\ memo' = [memo EXCEPT ![u] = Copy(content, key[d][2])]
  /\ store' \in {store, IF gone \/ ~key[d][2] THEN store ELSE [store EXCEPT ![u] = content]}

\* The bytes are kept (unless they are no image) and shown by every tile that
\* waits; the limiter learns the URL.
DownloadArrives(d) ==
  /\ run[d] = "running"
  /\ LET u == key[d][1]
     IN  /\ \E content \in Answers(since[d]) :
              /\ at' = [t \in Tiles |-> IF t \in Waiting(d) THEN "shown" ELSE at[t]]
              /\ got' = [t \in Tiles |-> IF t \in Waiting(d) THEN content ELSE got[t]]
              /\ StoreTile(d, u, content) \/ UNCHANGED <<memo, store>>
         /\ cache' = RecordSuccess(cache, u)
  /\ on' = [t \in Tiles |-> IF t \in Waiting(d) THEN None ELSE on[t]]
  /\ Ends(d)
  /\ UNCHANGED <<now, window, sent, frame, url, persists, need, reading, lookups, gone>>

\* It fails or takes 30 s: every tile that waits tries again later, or gives up.
DownloadFails(d) ==
  /\ run[d] = "running"
  /\ \E again \in SUBSET Waiting(d) :
       at' = [t \in Tiles |-> IF t \in again THEN "slot"
                              ELSE IF t \in Waiting(d) THEN "failed" ELSE at[t]]
  /\ on' = [t \in Tiles |-> IF t \in Waiting(d) THEN None ELSE on[t]]
  /\ Ends(d)
  /\ UNCHANGED <<limiter, frame, url, persists, need, got, copies>>

\* Mutant of AbortSettles: whatever entry the key has now is taken out.
AbortSettlesAnyEntry(d) ==
  /\ run[d] = "aborted"
  /\ at' = [t \in Tiles |-> IF t \in Waiting(d) THEN "lost" ELSE at[t]]
  /\ inflight' = [inflight EXCEPT ![key[d]] = None]
  /\ run' = [run EXCEPT ![d] = "free"]
  /\ waiters' = [waiters EXCEPT ![d] = 0]
  /\ key' = [key EXCEPT ![d] = None] /\ since' = [since EXCEPT ![d] = FirstPhase]
  /\ UNCHANGED <<limiter, frame, url, persists, need, on, got, copies>>

\* The rejection of an aborted download: a tile that still waited would take
\* it for its own cancel and never be shown.
AbortSettles(d) ==
  /\ run[d] = "aborted"
  /\ at' = [t \in Tiles |-> IF t \in Waiting(d) THEN "lost" ELSE at[t]]
  /\ Ends(d)
  /\ UNCHANGED <<limiter, frame, url, persists, need, on, got, copies>>

\* The frame's time comes, or a run covers it.  A download that counted as
\* final is over before the answer changes: its limit is 30 s, the margin 5
\* minutes.
PhaseAdvances ==
  /\ phase \notin {"passed", "fixed"}
  /\ phase = "margin" => \A d \in Downloads : run[d] = "running" => ~key[d][2]
  /\ phase' = PhaseAfter(phase)
  /\ UNCHANGED <<limiter, pinned, tiles, copies, loads>>

TimePasses == Tick /\ UNCHANGED <<frame, tiles, copies, loads>>

-----------------------------------------------------------------------------

Event ==
  \/ \E t \in Tiles :
       \/ \E u \in Urls, lasting \in BOOLEAN : Create(t, u, lasting)
       \/ Cancel(t) \/ RetryFires(t)
  \/ \E u \in Urls : StoreAnswers(u) \/ LookupTimesOut(u) \/ MemoForgets(u) \/ StoreForgets(u)
  \/ \E d \in Downloads : DownloadArrives(d) \/ DownloadFails(d) \/ AbortSettles(d)
  \/ PhaseAdvances \/ TimePasses

\* Microtasks run before the next event.
Next == (\E t \in Tiles : Continue(t)) \/ (~Microtask /\ Event)

Spec == Init /\ [][Next]_vars

-----------------------------------------------------------------------------
(* Properties.                                                             *)

TypeOK ==
  /\ LimiterTypeOK
  /\ pinned \in BOOLEAN /\ phase \in Phases
  /\ at \in [Tiles -> Stages]
  /\ url \in [Tiles -> Urls \cup {None}]
  /\ persists \in [Tiles -> BOOLEAN] /\ need \in [Tiles -> BOOLEAN]
  /\ on \in [Tiles -> Downloads \cup {None}]
  /\ got \in [Tiles -> Contents \cup {None}]
  /\ memo \in [Urls -> [content : Contents \cup {None}, final : BOOLEAN]]
  /\ store \in [Urls -> Contents \cup {None}]
  /\ reading \subseteq Urls /\ lookups \subseteq reading /\ gone \in BOOLEAN
  /\ inflight \in [Keys -> Downloads \cup {None}]
  /\ run \in [Downloads -> {"free", "running", "aborted"}]
  /\ key \in [Downloads -> Keys \cup {None}]
  /\ waiters \in [Downloads -> Nat]
  /\ since \in [Downloads -> Phases]

\* What is kept as final is final: no draft, and no observation that took the
\* place of a pinned forecast, is stored or flagged as final in memory.
KeptIsFinal ==
  \A u \in Urls : /\ store[u] \in {None, "final"}
                  /\ memo[u].final => memo[u].content = "final"

\* "A layer that persists must not be handed a non-final copy": a tile whose
\* last request counted as final shows final content, wherever it came from.
FinalGetsFinal == \A t \in Tiles : at[t] = "shown" /\ need[t] => got[t] = "final"

\* No tile is shown, and nothing is kept for later, as final that is not.
OnlyFinal == KeptIsFinal /\ FinalGetsFinal

\* Each URL is downloaded once for every concurrent caller of the same kind, and
\* the running download is the one that others join.
OneDownload == \A d \in Downloads : run[d] = "running" => inflight[key[d]] = d

\* A download is cancelled only when every caller has gone ("the coverage mask
\* unloading a tile never cancels the frame layer's copy"), and then it is; so
\* no tile on the map takes another one's cancel for its own.
RunsWhileWanted ==
  /\ \A t \in Tiles : at[t] # "lost" /\ (at[t] = "fetching" => run[on[t]] = "running")
  /\ \A d \in Downloads : run[d] = "running" => Waiting(d) # {}

\* The callers of a URL share one download, which lives as long as one of them.
OneSharedDownload == OneDownload /\ RunsWhileWanted
==============================================================================
