----------------------------- MODULE ViewerState -----------------------------
(***************************************************************************)
(* The per-viewer state of src/src/viewer-state.ts: one ViewerState object  *)
(* per connected card element, the module-wide map of the objects that hold *)
(* an identity (liveCardsByNonce), the debounced write, and the Home        *)
(* Assistant record they read and write over the websocket.  callWS is      *)
(* external: calls reach the server in the order they were sent, each is    *)
(* applied or fails, and answers come back in any order.                    *)
(*                                                                          *)
(* A handler runs to its next await; the awaits are _doHydrate's GET and    *)
(* the SETs, whose answers nobody acts on.  Values other than the stored    *)
(* ones are None: an absent key.                                            *)
(***************************************************************************)
EXTENDS Naturals, Sequences, SequencesExt

CONSTANTS Elements,    \* card elements on the page
          Nonces,      \* _layer_state_id nonces
          Keys,        \* what consumers store: layer_<overlay>, playback_speed
          Values,      \* the non-default choices
          Switched,    \* bound: the elements whose opt-in is switched while they are up
          None,        \* no nonce, no value
          MaxCalls,    \* bound: websocket calls under way at once
          MaxResets    \* bound: resets of one element

ASSUME ViewerAssumption == None \notin Elements \cup Nonces \cup Values

VARIABLES
    config,    \* the nonce each element's config carries for this dashboard, if the opt-in is on
    owner,     \* liveCardsByNonce
    vs,        \* each element's ViewerState
    record,    \* the server's record per nonce
    calls,     \* callWS requests the server has not handled, oldest first
    answers,   \* get_user_data answers on their way back
    seen       \* history: what each element's viewer removed, and whether its cache is unbroken

viewerVars == <<config, owner, vs, record, calls, answers, seen>>

Empty == [k \in Keys |-> None]

\* A disconnected element has no ViewerState; a constructed one starts like this.
Fresh == [live |-> TRUE, nonce |-> None, cache |-> Empty, timer |-> FALSE,
          hydrated |-> FALSE, persistedRead |-> FALSE, epoch |-> 0,
          promise |-> FALSE, waiting |-> {}]
Gone == [Fresh EXCEPT !.live = FALSE]

\* history: the keys the viewer removed and has not set since; the object has
\* kept its id ever since it asked for the record; and has not
\* dropped a write for want of it; its last write failed
Unseen == [removed |-> {}, unbroken |-> TRUE, unsaved |-> FALSE]

isActive(e) == vs[e].nonce # None

\* Mutant: the answer replaces the cache.
MergeReplaces(stored, cache) == stored

\* Persisted values under the in-memory ones.
MergeUnder(stored, cache) ==
    [k \in Keys |-> IF cache[k] # None THEN cache[k] ELSE stored[k]]

\* free is history: the keys this write may leave out of the record.
Write(e, n, v) ==
    [el |-> e, op |-> "set", by |-> "write", nonce |-> n, epoch |-> 0, value |-> v,
     free |-> IF seen[e].unbroken THEN seen[e].removed ELSE Keys]

Read(e, by, s) ==
    [el |-> e, op |-> "get", by |-> by, nonce |-> s.nonce, epoch |-> s.epoch,
     value |-> Empty, free |-> {}]

CallsUnderWay == Len(calls) + Len(answers)

-----------------------------------------------------------------------------
(* ensureIdentity: the id the config now carries, unless another live        *)
(* element holds it.                                                         *)

Claimed(e, n) ==
    IF n # None /\ owner[n] \in {e, None} THEN n ELSE None

\* The object has read the record, or asked for it.
HasRead(e) == vs[e].hydrated \/ vs[e].promise

OwnerAfter(e, n) ==
    [m \in Nonces |-> IF m = n THEN e
                      ELSE IF owner[m] = e THEN None ELSE owner[m]]

\* The object after _ensureViewerState and ensureIdentity, and after the
\* hydrate() that several handlers call next: one GET, shared by every caller
\* until it settles.
Identified(e, n) ==
    [(IF vs[e].live THEN vs[e] ELSE Fresh) EXCEPT !.nonce = Claimed(e, n)]

CanHydrate(s) == s.nonce # None /\ ~s.hydrated /\ ~s.promise
Hydrating(s)  == [s EXCEPT !.promise = @ \/ CanHydrate(s)]

\* setConfig, connectedCallback, _initMap: the config carries n (or None); read
\* tells whether the handler calls hydrate().
Identify(e, n, read) ==
    LET s == Identified(e, n)
        asks == read /\ CanHydrate(s)
    IN
    /\ asks => CallsUnderWay < MaxCalls
    /\ config' = [config EXCEPT ![e] = n]
    /\ owner' = OwnerAfter(e, s.nonce)
    /\ vs' = [vs EXCEPT ![e] = IF read THEN Hydrating(s) ELSE s]
    /\ calls' = IF asks THEN Append(calls, Read(e, "hydrate", s)) ELSE calls
    /\ seen' = [seen EXCEPT ![e].unbroken = @ /\ (HasRead(e) => s.nonce = vs[e].nonce)]
    /\ UNCHANGED <<record, answers>>

-----------------------------------------------------------------------------
(* Reading.                                                                  *)

\* _doHydrate after its await: the object as the answer leaves it.
Merged(e, a) ==
    IF a.epoch = vs[e].epoch THEN MergeUnder(a.value, vs[e].cache) ELSE vs[e].cache

AfterAnswer(e, a) ==
    [vs[e] EXCEPT !.cache         = IF a.ok THEN Merged(e, a) ELSE @,
                  !.persistedRead = @ \/ a.ok,
                  !.hydrated      = TRUE,
                  !.promise       = @ /\ a.by # "hydrate",
                  !.waiting       = IF a.by = "hydrate" THEN {} ELSE @]

\* The flushes this answer lets go on: those that waited for the shared
\* hydrate, or the one that re-read the record itself.  Each kept the key it
\* started with and writes only if the object still has that key and the
\* record was read.
Resumed(e, a) == IF a.by = "hydrate" THEN vs[e].waiting ELSE {a.nonce}

\* Mutant: a flush writes though the record could not be read.
MayWriteUnread(e, flushes, after) == after.nonce \in flushes

MayWrite(e, flushes, after) ==
    /\ after.nonce \in flushes
    /\ after.persistedRead

Answered(i) ==
    LET a == answers[i]
        e == a.el
        after == AfterAnswer(e, a)
    IN /\ vs' = [vs EXCEPT ![e] = after]
       /\ answers' = RemoveAt(answers, i)
       /\ calls' = IF MayWrite(e, Resumed(e, a), after)
                   THEN Append(calls, Write(e, after.nonce, after.cache))
                   ELSE calls
       /\ seen' = [seen EXCEPT ![e].unbroken = @ /\ Resumed(e, a) \subseteq {after.nonce}]
       /\ UNCHANGED <<config, owner, record>>

-----------------------------------------------------------------------------
(* The consumer API.                                                         *)

set(e, k, v) ==
    /\ isActive(e)
    /\ vs[e].cache[k] # v
    /\ vs' = [vs EXCEPT ![e].cache[k] = v, ![e].timer = TRUE]
    /\ seen' = [seen EXCEPT ![e].removed = @ \ {k}]
    /\ UNCHANGED <<config, owner, record, calls, answers>>

\* delete does nothing to a key the cache does not hold.
delete(e, k) ==
    /\ isActive(e)
    /\ vs[e].cache[k] # None
    /\ vs' = [vs EXCEPT ![e].cache[k] = None, ![e].timer = TRUE]
    /\ seen' = [seen EXCEPT ![e].removed = @ \cup {k}]
    /\ UNCHANGED <<config, owner, record, calls, answers>>

reset(e) ==
    /\ isActive(e)
    /\ vs[e].epoch < MaxResets
    /\ CallsUnderWay < MaxCalls
    /\ vs' = [vs EXCEPT ![e].cache = Empty, ![e].epoch = @ + 1, ![e].timer = FALSE]
    /\ calls' = Append(calls, [Write(e, vs[e].nonce, Empty) EXCEPT !.free = Keys])
    /\ seen' = [seen EXCEPT ![e].removed = Keys]
    /\ UNCHANGED <<config, owner, record, answers>>

-----------------------------------------------------------------------------
(* Writing.                                                                  *)

\* _flush up to its first await: the object, and the call it sends.
FlushState(s) ==
    IF s.nonce = None \/ s.hydrated THEN s
    ELSE [Hydrating(s) EXCEPT !.waiting = @ \cup {s.nonce}]

FlushCalls(e, s) ==
    IF s.nonce = None THEN <<>>
    ELSE IF ~s.hydrated THEN IF s.promise THEN <<>> ELSE <<Read(e, "hydrate", s)>>
    ELSE IF ~s.persistedRead THEN <<Read(e, "reread", s)>>
    ELSE <<Write(e, s.nonce, s.cache)>>

\* The debounce timer fires.
TimerFires(e) ==
    /\ vs[e].timer
    /\ CallsUnderWay < MaxCalls
    /\ vs' = [vs EXCEPT ![e] = [FlushState(vs[e]) EXCEPT !.timer = FALSE]]
    /\ calls' = calls \o FlushCalls(e, vs[e])
    /\ seen' = [seen EXCEPT ![e].unbroken = @ /\ isActive(e)]
    /\ UNCHANGED <<config, owner, record, answers>>

\* dispose: a pending write starts before the id is given up.  A flush that
\* has to read first finds the id gone when it resumes, so of the object
\* only the write already sent outlives it.
DisposeCalls(e) ==
    IF vs[e].timer /\ isActive(e) /\ vs[e].persistedRead
    THEN <<Write(e, vs[e].nonce, vs[e].cache)>> ELSE <<>>

OfOthers(e, c) == ~(c.el = e /\ c.op = "get")

\* s without e's reads, in the order of s: a set of one sequence.
Without(e, s) ==
    LET kept == {i \in DOMAIN s : OfOthers(e, s[i])}
    IN UNION {{[j \in 1..n |-> s[f[j]]] :
                 f \in {g \in [1..n -> kept] :
                          /\ \A i \in kept : \E j \in 1..n : g[j] = i
                          /\ \A j, k \in 1..n : j < k => g[j] < g[k]}}
                : n \in 0..Len(s)}

dispose(e) ==
    /\ vs[e].live
    /\ vs' = [vs EXCEPT ![e] = Gone]
    /\ owner' = OwnerAfter(e, None)
    /\ \E c \in Without(e, calls) : calls' = c \o DisposeCalls(e)
    /\ answers' \in Without(e, answers)
    /\ seen' = [seen EXCEPT ![e] = Unseen]
    /\ UNCHANGED <<config, record>>

-----------------------------------------------------------------------------
(* Home Assistant (external).                                                *)

ServerHandles(ok) ==
    LET c == Head(calls) IN
    /\ calls # <<>>
    /\ calls' = Tail(calls)
    /\ IF c.op = "get"
       THEN /\ answers' = Append(answers,
                   [el |-> c.el, op |-> "get", by |-> c.by, nonce |-> c.nonce, epoch |-> c.epoch,
                    ok |-> ok, value |-> IF ok THEN record[c.nonce] ELSE Empty])
            /\ UNCHANGED <<record, seen>>
       ELSE /\ record' = IF ok THEN [record EXCEPT ![c.nonce] = c.value] ELSE record
            /\ seen' = [seen EXCEPT ![c.el].unsaved = vs[c.el].live /\ ~ok]
            /\ UNCHANGED answers
    /\ UNCHANGED <<config, owner, vs>>

-----------------------------------------------------------------------------
Init ==
    /\ config \in [Elements -> Nonces \cup {None}]
    /\ owner = [n \in Nonces |-> None]
    /\ vs = [e \in Elements |-> Gone]
    /\ record \in [Nonces -> [Keys -> Values \cup {None}]]
    /\ calls = <<>>
    /\ answers = <<>>
    /\ seen = [e \in Elements |-> Unseen]

ElementStep(e) ==
    \/ \E n \in Nonces \cup {None}, read \in BOOLEAN :
          (e \in Switched \/ n = config[e]) /\ Identify(e, n, read)
    \/ \E k \in Keys, v \in Values : set(e, k, v)
    \/ \E k \in Keys : delete(e, k)
    \/ reset(e)
    \/ TimerFires(e)
    \/ dispose(e)

Next ==
    \/ \E e \in Elements : ElementStep(e)
    \/ \E i \in DOMAIN answers : Answered(i)
    \/ \E ok \in BOOLEAN : ServerHandles(ok)

Spec == Init /\ [][Next]_viewerVars

-----------------------------------------------------------------------------
TypeOK ==
    /\ config \in [Elements -> Nonces \cup {None}]
    /\ owner \in [Nonces -> Elements \cup {None}]
    /\ \A e \in Elements :
         /\ vs[e].nonce \in Nonces \cup {None}
         /\ vs[e].cache \in [Keys -> Values \cup {None}]
         /\ vs[e].waiting \subseteq Nonces
         /\ vs[e].nonce # None => owner[vs[e].nonce] = e
    /\ record \in [Nonces -> [Keys -> Values \cup {None}]]

\* A write replaces the whole record, and a cache that has not been merged with
\* the stored one holds only this session's keys.  No write, whenever it was
\* started, leaves out a stored key its viewer did not remove.
WritesKeepRecord ==
    \A i \in DOMAIN calls :
        LET c == calls[i] IN
        c.op = "set" =>
            \A k \in Keys : c.value[k] = None /\ record[c.nonce][k] # None => k \in c.free

Settled(e) ==
    /\ isActive(e) /\ vs[e].persistedRead /\ ~vs[e].timer /\ ~vs[e].promise
    /\ \A i \in DOMAIN calls : calls[i].el # e
    /\ \A i \in DOMAIN answers : answers[i].el # e
    /\ ~seen[e].unsaved /\ seen[e].unbroken

\* Once a card's calls and its timer are done, and its last write went
\* through, what it shows is what is stored: no choice is left unwritten, and
\* no write of an earlier cache came last.
StoredIsShown ==
    \A e \in Elements : Settled(e) => record[vs[e].nonce] = vs[e].cache

\* An answer leaves alone every key the viewer has set meanwhile, and
\* one that was asked before a reset restores nothing.
ChoiceKept ==
    [][\A i \in DOMAIN answers :
         LET e == answers[i].el IN
         Answered(i) =>
            /\ \A k \in Keys : vs[e].cache[k] # None => vs'[e].cache[k] = vs[e].cache[k]
            /\ answers[i].epoch # vs[e].epoch => vs'[e].cache = vs[e].cache]_viewerVars

\* The record and what the card shows agree: in types, and in both ways.
RecordKept == TypeOK /\ WritesKeepRecord /\ StoredIsShown
=============================================================================
