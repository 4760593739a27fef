----------------------------- MODULE ZoneStore -----------------------------
(***************************************************************************)
(* The stored zone shapes (src/src/zone-store.ts) of one browser tab: the   *)
(* reads, writes, sweep and write-back the alerts layer asks for, each a    *)
(* chain of IndexedDB requests in one queue, and the time limit after which *)
(* the tab gives its store up.  IndexedDB itself, NWS and the clock are the  *)
(* environment: the database may stop answering, refuse, be full, or answer *)
(* after the limit; the page may be reloaded at any step.                   *)
(*                                                                          *)
(* Of the layer (nws-alerts-layer.ts) there is what uses the store: a zone  *)
(* batch asks for every zone at once (the pool is NwsAlerts'), and a drain  *)
(* rewrites records of an older format.  Its wait for a still map is part   *)
(* of its wait for an idle moment.                                          *)
(***************************************************************************)
EXTENDS Integers, Sequences, FiniteSets, SequencesExt, FiniteSetsExt

CONSTANTS
  Urls,            \* zones the alerts name
  TTL,             \* TTL_MS
  MaxEntries,      \* MAX_ENTRIES
  WriteBackBatch,  \* WRITE_BACK_BATCH
  Stored,          \* what an earlier session may have left in the database
  LastNow,        \* bound: the clock
  MaxRefreshes,    \* bound: refreshes of the alerts list
  Nothing

\* A record's ts is when its shape came, so never later than that.
ASSUME StoreAssumption ==
  /\ IsFiniteSet(Urls)
  /\ TTL \in Nat /\ WriteBackBatch \in Nat \ {0}
  /\ \A d \in Stored, u \in Urls :
       d[u] # Nothing => {d[u].ts, d[u].made} \subseteq Int /\ d[u].ts <= d[u].made

VARIABLES
  now,     \* Date.now()
  db,      \* the records: ts, format; and made, when NWS sent the shape
  queue,   \* the requests at IndexedDB, in order, and whether they are awaited
  dead,    \* guardedZoneKV gave the store up
  zone,    \* missing, reading (from the store), fetching (from NWS) or have
  loads,   \* _zoneBatchRunning, superseded (another _gen), replan; listing: the list is asked for
  back,    \* _writeBack; drain: _writeBackRunning and what it awaits; hand: spliced off
  past     \* history: age of the shapes read, owed rewrites, refreshes so far

storeVars == <<now, db, queue, dead, zone, loads, back, past>>

Record(ts, made, format) == [ts |-> ts, made |-> made, format |-> format]

Keys == {u \in Urls : db[u] # Nothing}

-----------------------------------------------------------------------------
(* The store.  A call is a chain of requests.  read: get, and delete when    *)
(* the record has expired or is corrupt.  write, back: put, and when the     *)
(* quota is exceeded keys, drop and put once more.  sweep: keys, drop.       *)

Request(call, op, url, rec, at) ==
    [call |-> call, op |-> op, url |-> url, rec |-> rec, drop |-> {}, at |-> at, awaited |-> TRUE]

isExpired(ts, at) == at - ts > TTL

\* evictOldest: a quarter, at least one (the instances hold less than eight).
Oldest == CHOOSE u \in Keys : \A v \in Keys : db[u].ts <= db[v].ts

\* sweepZones: the expired, and the oldest beyond MAX_ENTRIES.
Doomed(at) ==
    LET fresh == {u \in Keys : ~isExpired(db[u].ts, at)}
        keep(s) == Cardinality(s) = MaxEntries
                   /\ \A u \in s, v \in fresh \ s : db[u].ts >= db[v].ts
        kept == IF Cardinality(fresh) <= MaxEntries THEN fresh
                ELSE CHOOSE s \in SUBSET fresh : keep(s)
    IN  Keys \ kept

\* What IndexedDB says to a request: it carries it out, or one of its errors.  A
\* record that cannot be decoded is as good as refused.
Answers(r) == {"done", "refused"} \cup IF r.op \in {"put", "again"} THEN {"quota"} ELSE {}

Effect(r) ==
    [u \in Urls |->
        IF (r.op = "delete" /\ u = r.url) \/ (r.op = "drop" /\ u \in r.drop) THEN Nothing
        ELSE IF r.op \in {"put", "again"} /\ u = r.url THEN r.rec
        ELSE db[u]]

Hit(r, answer) ==
    /\ r.op = "get" /\ answer = "done" /\ db[r.url] # Nothing
    /\ ~isExpired(db[r.url].ts, r.at)

\* The request a call makes next, or None when it ends.
Follows(r, answer) ==
    CASE r.op = "get" /\ ~Hit(r, answer) /\ ~(answer = "done" /\ db[r.url] = Nothing)
           -> [r EXCEPT !.op = "delete"]
      [] r.op = "put" /\ answer = "quota" -> [r EXCEPT !.op = "keys"]
      [] r.op = "keys" /\ r.call = "sweep" /\ answer = "done" /\ Doomed(r.at) # {}
           -> [r EXCEPT !.op = "drop", !.drop = Doomed(r.at)]
      [] r.op = "keys" /\ r.call # "sweep" /\ answer = "done" /\ Keys # {}
           -> [r EXCEPT !.op = "drop", !.drop = {Oldest}]
      [] r.op \in {"keys", "drop"} /\ r.call # "sweep" -> [r EXCEPT !.op = "again"]
      [] OTHER -> Nothing

-----------------------------------------------------------------------------
(* The layer                                                                 *)

\* _zonesSettled starts _drainWriteBack, which waits for an idle moment while
\* there is something to write back and no batch runs.
Awaits(wb, running) == IF wb # <<>> /\ ~running THEN "idle" ELSE "none"

_zonesSettled == back' = [back EXCEPT !.drain = IF @ = "none" THEN Awaits(back.wb, FALSE) ELSE @]

\* _resolveZones: it reads every zone that is missing, from the store first.  A
\* store that is given up is a miss at once.
_resolveZones(b) ==
    LET missing == {u \in Urls : zone[u] = "missing"}
    IN  /\ loads' = IF b.running THEN [b EXCEPT !.replan = TRUE]
                    ELSE [b EXCEPT !.running = missing # {}, !.superseded = FALSE]
        /\ IF b.running \/ missing = {}
           THEN /\ UNCHANGED <<queue, zone>>
                /\ IF b.running THEN UNCHANGED back ELSE _zonesSettled
           ELSE /\ zone' = [u \in Urls |-> IF u \notin missing THEN zone[u]
                                           ELSE IF dead THEN "fetching" ELSE "reading"]
                /\ queue' = queue \o IF dead THEN <<>>
                      ELSE SetToSeq({Request("read", "get", u, Nothing, now) : u \in missing})
                /\ UNCHANGED back

\* What the layer does with the answer to a call of its own.  A zone that is not
\* in the store is requested from NWS, unless its batch was aborted.
Settled(r, answer) ==
    LET rec == db[r.url]
        old == rec.format = "old"
        hand == Tail(back.hand)
    IN  CASE r.call = "read" /\ Hit(r, answer) ->
               /\ zone' = [zone EXCEPT ![r.url] = "have"]
               /\ back' = [back EXCEPT !.wb = IF old
                             THEN Append(@, [url |-> r.url, ts |-> rec.ts, made |-> rec.made]) ELSE @]
               /\ past' = [past EXCEPT !.age[r.url] = r.at - rec.made,
                                       !.owed = IF old THEN @ \cup {r.url} ELSE @]
          [] r.call = "read" /\ ~Hit(r, answer) ->
               /\ zone' = [zone EXCEPT ![r.url] = IF loads.superseded THEN "missing" ELSE "fetching"]
               /\ UNCHANGED <<back, past>>
          [] r.call = "back" ->
               /\ back' = [back EXCEPT !.hand = hand,
                             !.drain = IF hand # <<>> THEN "encoding" ELSE Awaits(back.wb, loads.running)]
               /\ past' = [past EXCEPT !.owed = @ \ {r.url}]
               /\ UNCHANGED zone
          [] OTHER -> UNCHANGED <<zone, back, past>>

-----------------------------------------------------------------------------
(* Steps                                                                     *)

\* Mutant: a record written back counts as new.
WrittenBackNow(h) == now

\* The record's own time, so that its TTL is unchanged.
WrittenBackAt(h) == h.ts

\* The request of r at i is answered, or its time is up.
Answered(i, r, answer) ==
    LET follows == IF dead' THEN Nothing ELSE Follows(r, answer)
        rest == IF answer = "late" THEN [queue EXCEPT ![i].awaited = FALSE] ELSE Tail(queue)
    IN  /\ queue' = IF follows = Nothing THEN rest ELSE Append(rest, follows)
        /\ IF follows = Nothing THEN Settled(r, answer) ELSE UNCHANGED <<zone, back, past>>

\* IndexedDB takes the requests in order, also those nothing waits for.
DatabaseAnswers ==
    /\ queue # <<>>
    /\ UNCHANGED <<now, dead, loads>>
    /\ \E answer \in Answers(Head(queue)) :
         /\ db' = IF answer = "done" THEN Effect(Head(queue)) ELSE db
         /\ IF Head(queue).awaited THEN Answered(1, Head(queue), answer)
            ELSE queue' = Tail(queue) /\ UNCHANGED <<zone, back, past>>

\* Mutant: a delete has no time limit.
GuardedButDelete(r) == r.awaited /\ r.op # "delete"

Guarded(r) == r.awaited

\* guardedZoneKV: KV_TIMEOUT_MS is over for the oldest request.
TimesOut(i) ==
    /\ i \in DOMAIN queue /\ Guarded(queue[i])
    /\ \A j \in 1..(i - 1) : ~Guarded(queue[j])
    /\ dead' = TRUE
    /\ UNCHANGED <<now, db, loads>>
    /\ Answered(i, queue[i], "late")

\* The alerts list has come; or it has failed, and the old one is kept.
ListAnswers ==
    /\ loads.listing
    /\ UNCHANGED <<now, db, dead, past>>
    /\ _resolveZones([loads EXCEPT !.listing = FALSE])

\* _fetch: the list is asked for again, and the batch for the old one aborted.
ListRefresh ==
    /\ ~loads.listing /\ past.refreshes < MaxRefreshes
    /\ loads' = [loads EXCEPT !.listing = TRUE, !.superseded = loads.running]
    /\ zone' = [u \in Urls |-> IF zone[u] = "fetching" THEN "missing" ELSE zone[u]]
    /\ past' = [past EXCEPT !.refreshes = @ + 1]
    /\ UNCHANGED <<now, db, queue, dead, back>>

\* NWS answers for a zone, which is stored; or it fails.
ZoneAnswers(u) ==
    /\ zone[u] = "fetching"
    /\ \/ /\ zone' = [zone EXCEPT ![u] = "have"]
          /\ past' = [past EXCEPT !.age[u] = 0]
          /\ queue' = IF dead THEN queue
                      ELSE Append(queue, Request("write", "put", u, Record(now, now, "now"), now))
       \/ zone' = [zone EXCEPT ![u] = "missing"] /\ UNCHANGED <<queue, past>>
    /\ UNCHANGED <<now, db, dead, loads, back>>

\* Every worker of the batch is done.
ZoneBatchEnds ==
    /\ loads.running /\ \A u \in Urls : zone[u] \notin {"reading", "fetching"}
    /\ UNCHANGED <<now, db, dead, past>>
    /\ LET over == [loads EXCEPT !.running = FALSE, !.replan = FALSE]
       IN  IF loads.replan THEN _resolveZones(over)
           ELSE /\ loads' = over /\ UNCHANGED <<queue, zone>>
                /\ IF loads.superseded THEN UNCHANGED back ELSE _zonesSettled

Taken == Min({Len(back.wb), WriteBackBatch})

\* Mutant: the drain takes its batch before it looks whether zones are loading.
TakenFirst(running) ==
    [wb |-> SubSeq(back.wb, Taken + 1, Len(back.wb)),
     hand |-> IF running THEN <<>> ELSE SubSeq(back.wb, 1, Taken),
     drain |-> IF running THEN "none" ELSE "encoding"]

\* The drain's moment has come: it stops for a batch, else it takes the next few.
Resumed(running) ==
    IF running THEN [back EXCEPT !.drain = "none"]
    ELSE [wb |-> SubSeq(back.wb, Taken + 1, Len(back.wb)), hand |-> SubSeq(back.wb, 1, Taken),
          drain |-> "encoding"]

DrainResumes ==
    /\ back.drain = "idle"
    /\ back' = Resumed(loads.running)
    /\ UNCHANGED <<now, db, queue, dead, zone, loads, past>>

\* writeZone of the first shape in hand: encoded, it is put.
DrainStores ==
    LET h == Head(back.hand)
        put == Request("back", "put", h.url, Record(WrittenBackAt(h), h.made, "now"), now)
    IN  /\ back.drain = "encoding"
        /\ IF dead THEN Settled(put, "late") /\ UNCHANGED queue
           ELSE /\ queue' = Append(queue, put) /\ back' = [back EXCEPT !.drain = "writing"]
                /\ UNCHANGED <<zone, past>>
        /\ UNCHANGED <<now, db, dead, loads>>

Tick == now < LastNow /\ now' = now + 1 /\ UNCHANGED <<db, queue, dead, zone, loads, back, past>>

\* start: the sweep, and the list is asked for.
FreshTab == [queue |-> <<Request("sweep", "keys", Nothing, Nothing, now)>>,
          zone  |-> [u \in Urls |-> "missing"],
          loads |-> [running |-> FALSE, superseded |-> FALSE, replan |-> FALSE, listing |-> TRUE],
          back  |-> [wb |-> <<>>, drain |-> "none", hand |-> <<>>]]

\* The page is loaded again: what IndexedDB had not begun never happens.
PageReloads ==
    /\ queue' = FreshTab.queue /\ zone' = FreshTab.zone /\ loads' = FreshTab.loads /\ back' = FreshTab.back
    /\ dead' = FALSE
    /\ past' = [past EXCEPT !.age = [u \in Urls |-> 0], !.owed = {}]
    /\ UNCHANGED <<now, db>>

InitStore ==
    /\ now = 0
    /\ db \in Stored
    /\ queue = FreshTab.queue /\ zone = FreshTab.zone /\ loads = FreshTab.loads /\ back = FreshTab.back
    /\ dead = FALSE
    /\ past = [age |-> [u \in Urls |-> 0], owed |-> {}, refreshes |-> 0]

NextStore ==
    \/ DatabaseAnswers
    \/ \E i \in DOMAIN queue : TimesOut(i)
    \/ ListAnswers
    \/ ListRefresh
    \/ \E u \in Urls : ZoneAnswers(u)
    \/ ZoneBatchEnds
    \/ DrainResumes
    \/ DrainStores
    \/ Tick
    \/ PageReloads

\* Timers fire, requests to NWS settle (they have a time limit), the promises'
\* continuations run and idle moments come.  IndexedDB may never answer.
FairnessStore ==
    /\ WF_storeVars(\E i \in DOMAIN queue : TimesOut(i))
    /\ WF_storeVars(ListAnswers)
    /\ \A u \in Urls : WF_storeVars(ZoneAnswers(u))
    /\ WF_storeVars(ZoneBatchEnds)
    /\ WF_storeVars(DrainResumes)
    /\ WF_storeVars(DrainStores)

SpecStore == InitStore /\ [][NextStore]_storeVars /\ FairnessStore

-----------------------------------------------------------------------------
(* Properties                                                                *)

\* A shape that is read from the store left NWS no longer than TTL_MS before it
\* was asked for, however often its record was rewritten.
ServedFresh == \A u \in Urls : past.age[u] <= TTL

\* A batch ends, even when the database never answers again: no read of it, and
\* no delete of a bad record, holds it for the rest of the session.
BatchSettles == loads.running ~> ~loads.running

\* A record of an older format that was read is written back, or the store is
\* full or gone; no batch that comes between loses it.
WrittenBack == \A u \in Urls : u \in past.owed ~> u \notin past.owed

=============================================================================
