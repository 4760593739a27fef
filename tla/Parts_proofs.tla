----------------------------- MODULE Parts_proofs -----------------------------
(***************************************************************************)
(* RecordKept and ChoiceKept of ViewerState for any elements, ids, keys and *)
(* calls under way; StormDrawn of Lightning for any strikes, frames, ages   *)
(* and length of a run; and MapInPlace of MapView for any places,           *)
(* presets and entities.                                                    *)
(*                                                                         *)
(* ViewerState.  ViewerInv follows, for each element, the calls and the     *)
(* answers on their way (Kept): what is missing in a merged cache is        *)
(* nowhere, unless the viewer removed it (Covers); the last write on its    *)
(* way is of the cache, or the record is the cache already (Synced); and    *)
(* an object that has not read the record will be told what it is, or has   *)
(* been reset meanwhile (ToldWhatIs, ResetRemoves).  That holds as long as  *)
(* the object keeps the id it asked for.  The lemmas are about one change   *)
(* to the calls or the answers each, for any object; the steps are last.    *)
(*                                                                         *)
(* Lightning.  The canvas is drawn from the buffer and the live strikes, so *)
(* what has to be kept is about the buffer, between the frames that rebuild *)
(* it: a buffer that counts as clean holds every settled strike that is     *)
(* there (Buffered), and was projected where the layer is (Projected); a    *)
(* layer in the page is where the map is.                                   *)
(*                                                                         *)
(* MapView.  The history's base is where anything but a popup put the map   *)
(* last: the map rests on it or is on its way there, or a popup has panned  *)
(* it aside and will put it back there (Shown, Saves).  The base is what    *)
(* the stop on show was last sent to (SentTo), and that is where its entity *)
(* was at the last hass update, unless the hand kept that from the tracking *)
(* (UpToDate).                                                              *)
(***************************************************************************)
EXTENDS ViewerState, Lightning, MapView, SequenceTheorems, WellFoundedInduction, TLAPS

-----------------------------------------------------------------------------
(* ViewerState                                                               *)

\* Caches and the records of the server.
Caches == [Keys -> Values \cup {None}]

ViewerStates ==
    [live : BOOLEAN, nonce : Nonces \cup {None}, cache : Caches, timer : BOOLEAN,
     hydrated : BOOLEAN, persistedRead : BOOLEAN, epoch : Nat, promise : BOOLEAN,
     waiting : SUBSET Nonces]

Gets ==
    [el : Elements, op : {"get"}, by : {"hydrate", "reread"}, nonce : Nonces, epoch : Nat,
     value : Caches, free : SUBSET Keys]

Sets ==
    [el : Elements, op : {"set"}, by : {"write"}, nonce : Nonces, epoch : Nat,
     value : Caches, free : SUBSET Keys]

Calls == Gets \cup Sets

Replies ==
    [el : Elements, op : {"get"}, by : {"hydrate", "reread"}, nonce : Nonces, epoch : Nat,
     ok : BOOLEAN, value : Caches]

Histories == [removed : SUBSET Keys, unbroken : BOOLEAN, unsaved : BOOLEAN]

ViewerTypes ==
    /\ config \in [Elements -> Nonces \cup {None}]
    /\ owner \in [Nonces -> Elements \cup {None}]
    /\ vs \in [Elements -> ViewerStates]
    /\ record \in [Nonces -> Caches]
    /\ calls \in Seq(Calls)
    /\ answers \in Seq(Replies)
    /\ seen \in [Elements -> Histories]

\* An identity belongs to one element, and a gone object has none.
Owned ==
    \A e \in Elements : /\ vs[e].nonce # None => owner[vs[e].nonce] = e
                        /\ ~vs[e].live => vs[e] = Gone

-----------------------------------------------------------------------------
(* What is on its way: q the calls, ans the answers; s and h the object of e *)
(* and its history.                                                          *)

IsGet(c, e) == c.el = e /\ c.op = "get"
Hydrates(c, e) == IsGet(c, e) /\ c.by = "hydrate"

\* A GET finds its object waiting, for the record or for its re-read.
Awaits(s, c) == /\ IF c.by = "hydrate" THEN s.promise ELSE s.hydrated
                /\ c.epoch <= s.epoch

Expected(e, s, q) == \A i \in DOMAIN q : IsGet(q[i], e) => Awaits(s, q[i])

Flow(e, s, q, ans) ==
    /\ Expected(e, s, q) /\ Expected(e, s, ans)
    /\ \A i, j \in DOMAIN q : Hydrates(q[i], e) /\ Hydrates(q[j], e) => i = j
    /\ \A i, j \in DOMAIN ans : Hydrates(ans[i], e) /\ Hydrates(ans[j], e) => i = j
    /\ \A i \in DOMAIN q, j \in DOMAIN ans : ~(Hydrates(q[i], e) /\ Hydrates(ans[j], e))
    /\ s.promise => ~s.hydrated
    /\ s.persistedRead => s.hydrated
    /\ s.waiting # {} => s.promise

\* While the object keeps its id, what it asked for is of that id.
OfItsId(e, s, q, ans) ==
    /\ s.hydrated \/ s.promise => s.nonce # None
    /\ \A i \in DOMAIN q : IsGet(q[i], e) => q[i].nonce = s.nonce
    /\ \A i \in DOMAIN ans : IsGet(ans[i], e) => ans[i].nonce = s.nonce

\* The writes that may change what e reads, or that e waits for.
Concerns(e, n, c) == c.op = "set" /\ (c.el = e \/ c.nonce = n)

NoneConcerns(e, n, q) == \A i \in DOMAIN q : ~Concerns(e, n, q[i])

\* Once the calls have been handled, the record is the cache: it is already, or
\* the last write that concerns e makes it so.
Synced(e, s, h, q, rec) ==
    \/ NoneConcerns(e, s.nonce, q) /\ (h.unsaved \/ rec[s.nonce] = s.cache)
    \/ \E i \in DOMAIN q :
          /\ q[i].op = "set" /\ q[i].el = e /\ q[i].nonce = s.nonce /\ q[i].value = s.cache
          /\ \A j \in DOMAIN q : i < j => ~Concerns(e, s.nonce, q[j])

\* After a reset all that is missing was removed.
ResetRemoves(s, h) == s.epoch > 0 => \A k \in Keys : s.cache[k] = None => k \in h.removed

\* What is missing in a merged cache, and was not removed, is nowhere.
Covers(s, h, q, rec) ==
    \A k \in Keys : s.cache[k] = None /\ k \notin h.removed =>
        /\ rec[s.nonce][k] = None
        /\ \A i \in DOMAIN q : q[i].op = "set" /\ q[i].nonce = s.nonce => q[i].value[k] = None

\* What an object that has not read will be told is what is there.
ToldWhatIs(e, s, q, ans, rec) ==
    /\ \A i, j \in DOMAIN q :
          IsGet(q[i], e) /\ q[i].epoch = s.epoch /\ i < j => ~Concerns(e, s.nonce, q[j])
    /\ \A i \in DOMAIN ans :
          IsGet(ans[i], e) /\ ans[i].epoch = s.epoch =>
             NoneConcerns(e, s.nonce, q) /\ (ans[i].ok => ans[i].value = rec[s.nonce])

OutdatedGet(e, s, q, ans) ==
    \/ \E i \in DOMAIN q : IsGet(q[i], e) /\ q[i].epoch # s.epoch
    \/ \E i \in DOMAIN ans : IsGet(ans[i], e) /\ ans[i].epoch # s.epoch

\* An object that has not read holds nothing it does not owe a write for.
UnreadIsEmpty(e, s, h, q, ans, rec) ==
    ~s.hydrated /\ ~s.timer /\ s.nonce \notin s.waiting =>
        s.cache = Empty /\ (OutdatedGet(e, s, q, ans) => Synced(e, s, h, q, rec))

Unbroken(e, s, h, q, ans, rec) ==
    /\ OfItsId(e, s, q, ans)
    /\ IF s.persistedRead
       THEN Covers(s, h, q, rec) /\ (~s.timer => Synced(e, s, h, q, rec))
       ELSE ToldWhatIs(e, s, q, ans, rec)
    /\ UnreadIsEmpty(e, s, h, q, ans, rec)

Kept(e, s, h, q, ans, rec) ==
    /\ Flow(e, s, q, ans)
    /\ ResetRemoves(s, h)
    /\ h.unbroken => Unbroken(e, s, h, q, ans, rec)

\* WritesKeepRecord, of the record that will be when a write is handled.
WritesKeep(q, rec) ==
    \A i \in DOMAIN q : q[i].op = "set" =>
        \A k \in Keys : q[i].value[k] = None /\ k \notin q[i].free =>
            /\ rec[q[i].nonce][k] = None
            /\ \A j \in DOMAIN q :
                  j < i /\ q[j].op = "set" /\ q[j].nonce = q[i].nonce => q[j].value[k] = None

ViewerInv ==
    /\ ViewerTypes /\ Owned
    /\ WritesKeep(calls, record)
    /\ \A e \in Elements : Kept(e, vs[e], seen[e], calls, answers, record)

-----------------------------------------------------------------------------
(* Sequences                                                                 *)

\* p is q with some of it left out: place f[j] of q is place j of p.
Thins(f, p, q) ==
    \A j \in DOMAIN p :
        /\ f[j] \in DOMAIN q /\ p[j] = q[f[j]]
        /\ \A k \in DOMAIN p : j < k => f[j] < f[k]

Keeps(f, p, i) == \E j \in DOMAIN p : f[j] = i

\* Thinning keeps the order in both directions, and no place twice.
LEMMA ThinsKeepsOrder ==
    ASSUME NEW S, NEW T, NEW p \in Seq(S), NEW q \in Seq(T), NEW f, Thins(f, p, q)
    PROVE  \A j, k \in DOMAIN p : (f[j] < f[k] => j < k) /\ (f[j] = f[k] => j = k)
<1>1. DOMAIN p = 1..Len(p) /\ Len(p) \in Nat /\ DOMAIN q = 1..Len(q) /\ Len(q) \in Nat
    BY LenProperties
<1> SUFFICES ASSUME NEW j \in DOMAIN p, NEW k \in DOMAIN p
             PROVE  (f[j] < f[k] => j < k) /\ (f[j] = f[k] => j = k)
    OBVIOUS
<1>2. f[j] \in Nat /\ f[k] \in Nat /\ j \in Nat /\ k \in Nat
    BY <1>1 DEF Thins
<1>3. (j < k => f[j] < f[k]) /\ (k < j => f[k] < f[j])
    BY DEF Thins
<1> QED  BY <1>2, <1>3

LEMMA WithoutThins ==
    ASSUME NEW S, NEW q \in Seq(S), NEW e, NEW p \in Without(e, q)
    PROVE  /\ p \in Seq(S)
           /\ \E f : /\ Thins(f, p, q)
                     /\ \A j \in DOMAIN p : OfOthers(e, p[j])
                     /\ \A i \in DOMAIN q : OfOthers(e, q[i]) => Keeps(f, p, i)
<1> DEFINE kept == {i \in DOMAIN q : OfOthers(e, q[i])}
           Onto(n) == {g \in [1..n -> kept] :
                          /\ \A i \in kept : \E j \in 1..n : g[j] = i
                          /\ \A j, k \in 1..n : j < k => g[j] < g[k]}
           Picks(n) == {[j \in 1..n |-> q[f[j]]] : f \in Onto(n)}
<1>1. Without(e, q) = UNION {Picks(n) : n \in 0..Len(q)}
    BY DEF Without
<1>2. PICK n \in 0..Len(q) : p \in Picks(n)
    <2> HIDE DEF Picks
    <2> QED  BY <1>1
<1>3. PICK f \in Onto(n) : p = [j \in 1..n |-> q[f[j]]]
    BY <1>2
<1>4. /\ f \in [1..n -> kept]
      /\ \A i \in kept : \E j \in 1..n : f[j] = i
      /\ \A j, k \in 1..n : j < k => f[j] < f[k]
    BY <1>3
<1>5. n \in Nat /\ DOMAIN p = 1..n
    BY <1>3, LenProperties
<1>6. \A j \in 1..n : f[j] \in DOMAIN q /\ OfOthers(e, q[f[j]]) /\ p[j] = q[f[j]]
    BY <1>3, <1>4
<1>7. p \in Seq(S)
    <2>1. \A j \in 1..n : q[f[j]] \in S
        BY <1>6, ElementOfSeq, LenProperties
    <2>2. p \in [1..n -> S]
        BY <1>3, <2>1
    <2> QED  BY <1>5, <2>2, SeqDef
<1>8. Thins(f, p, q)
    BY <1>4, <1>5, <1>6 DEF Thins
<1>9. \A i \in DOMAIN q : OfOthers(e, q[i]) => Keeps(f, p, i)
    <2>1. \A i \in DOMAIN q : OfOthers(e, q[i]) => i \in kept
        OBVIOUS
    <2> HIDE DEF kept
    <2> QED  BY <1>4, <1>5, <2>1 DEF Keeps
<1> QED  BY <1>5, <1>6, <1>7, <1>8, <1>9

\* RemoveAt leaves out one place.
LEMMA RemovedThins ==
    ASSUME NEW S, NEW q \in Seq(S), NEW i \in DOMAIN q
    PROVE  /\ RemoveAt(q, i) \in Seq(S)
           /\ \E f : /\ Thins(f, RemoveAt(q, i), q)
                     /\ \A j \in DOMAIN RemoveAt(q, i) : f[j] # i
<1> DEFINE a == SubSeq(q, 1, i - 1)
           b == SubSeq(q, i + 1, Len(q))
           r == a \o b
           f == [j \in 1..(Len(q) - 1) |-> IF j < i THEN j ELSE j + 1]
<1>1. i \in 1..Len(q) /\ Len(q) \in Nat /\ DOMAIN q = 1..Len(q)
    BY LenProperties
<1>2. a \in Seq(S) /\ Len(a) = i - 1 /\ \A j \in 1..(i - 1) : a[j] = q[j]
    BY <1>1, SubSeqProperties
<1>3. b \in Seq(S) /\ Len(b) = Len(q) - i /\ \A j \in 1..(Len(q) - i) : b[j] = q[i + j]
    BY <1>1, SubSeqProperties
<1>4. RemoveAt(q, i) = r
    BY DEF RemoveAt
<1> HIDE DEF a, b
<1>5. /\ r \in Seq(S) /\ Len(r) = Len(a) + Len(b)
      /\ \A j \in 1..(Len(a) + Len(b)) : r[j] = IF j <= Len(a) THEN a[j] ELSE b[j - Len(a)]
    BY <1>2, <1>3, ConcatProperties
<1>6. Len(a) + Len(b) = Len(q) - 1
    BY <1>1, <1>2, <1>3
<1>7. DOMAIN r = 1..(Len(q) - 1)
    BY <1>5, <1>6, LenProperties
<1> HIDE DEF r
<1>8. \A j \in 1..(Len(q) - 1) : j < i => r[j] = q[j]
    <2>1. \A j \in 1..(Len(q) - 1) : j < i => j <= Len(a) /\ j \in 1..(i - 1)
        BY <1>1, <1>2
    <2> QED  BY <1>2, <1>5, <1>6, <2>1
<1>9. \A j \in 1..(Len(q) - 1) : ~(j < i) => r[j] = q[j + 1]
    <2>1. \A j \in 1..(Len(q) - 1) : ~(j < i) =>
              ~(j <= Len(a)) /\ j - Len(a) \in 1..(Len(q) - i) /\ i + (j - Len(a)) = j + 1
        BY <1>1, <1>2
    <2> QED  BY <1>3, <1>5, <1>6, <2>1
<1>10. \A j \in 1..(Len(q) - 1) : f[j] \in DOMAIN q /\ f[j] # i /\ r[j] = q[f[j]]
    BY <1>1, <1>8, <1>9
<1>11. \A j, k \in 1..(Len(q) - 1) : j < k => f[j] < f[k]
    BY <1>1
<1>12. Thins(f, r, q)
    <2> HIDE DEF f
    <2> QED  BY <1>7, <1>10, <1>11 DEF Thins
<1> HIDE DEF f
<1> QED  BY <1>4, <1>5, <1>7, <1>10, <1>12

LEMMA TailThins ==
    ASSUME NEW S, NEW q \in Seq(S), q # <<>>
    PROVE  /\ Tail(q) \in Seq(S) /\ Head(q) \in S /\ 1 \in DOMAIN q /\ Head(q) = q[1]
           /\ \E f : /\ Thins(f, Tail(q), q)
                     /\ \A j \in DOMAIN Tail(q) : 1 < f[j]
                     /\ \A i \in DOMAIN q : i # 1 => Keeps(f, Tail(q), i)
<1> DEFINE f == [j \in DOMAIN Tail(q) |-> j + 1]
<1>1. DOMAIN q = 1..Len(q) /\ Len(q) \in Nat /\ Len(q) # 0
    BY LenProperties, EmptySeq
<1>2. /\ Tail(q) \in Seq(S) /\ Len(Tail(q)) = Len(q) - 1
      /\ \A j \in 1..Len(Tail(q)) : Tail(q)[j] = q[j + 1]
    BY HeadTailProperties
<1>3. DOMAIN Tail(q) = 1..(Len(q) - 1)
    BY <1>2, LenProperties
<1>4. Head(q) = q[1] /\ Head(q) \in S
    BY HeadTailProperties
<1>5. \A j \in DOMAIN Tail(q) : f[j] = j + 1 /\ f[j] \in DOMAIN q /\ 1 < f[j] /\ Tail(q)[j] = q[f[j]]
    BY <1>1, <1>2, <1>3
<1>6. \A j, k \in DOMAIN Tail(q) : j < k => f[j] < f[k]
    BY <1>1, <1>3
<1>7. \A i \in DOMAIN q : i # 1 => i - 1 \in DOMAIN Tail(q) /\ f[i - 1] = i
    BY <1>1, <1>3
<1> HIDE DEF f
<1>8. Thins(f, Tail(q), q)
    BY <1>5, <1>6 DEF Thins
<1>9. \A i \in DOMAIN q : i # 1 => Keeps(f, Tail(q), i)
    BY <1>7 DEF Keeps
<1> QED  BY <1>1, <1>2, <1>4, <1>5, <1>8, <1>9

LEMMA AppendAdds ==
    ASSUME NEW S, NEW q \in Seq(S), NEW c \in S
    PROVE  /\ Append(q, c) \in Seq(S)
           /\ Len(q) + 1 \in DOMAIN Append(q, c) /\ Append(q, c)[Len(q) + 1] = c
           /\ \A j \in DOMAIN q : j \in DOMAIN Append(q, c) /\ Append(q, c)[j] = q[j] /\ j < Len(q) + 1
           /\ \A j \in DOMAIN Append(q, c) : j \in DOMAIN q \/ j = Len(q) + 1
           /\ \A j \in DOMAIN Append(q, c) : j \in Nat
           /\ Len(q) + 1 \notin DOMAIN q /\ Len(q) \in Nat
<1>1. DOMAIN q = 1..Len(q) /\ Len(q) \in Nat
    BY LenProperties
<1>2. /\ Append(q, c) \in Seq(S) /\ Len(Append(q, c)) = Len(q) + 1
      /\ \A j \in 1..Len(q) : Append(q, c)[j] = q[j]
      /\ Append(q, c)[Len(q) + 1] = c
    BY AppendProperties
<1>3. DOMAIN Append(q, c) = 1..(Len(q) + 1)
    BY <1>2, LenProperties
<1> QED  BY <1>1, <1>2, <1>3

-----------------------------------------------------------------------------
(* What is on its way                                                        *)

\* What is on its way gets less, of what does not concern e or of its answers.
LEMMA FlowThins ==
    ASSUME NEW S, NEW T, NEW q \in Seq(S), NEW p \in Seq(S), NEW ans \in Seq(T), NEW rest \in Seq(T),
           NEW f, NEW g, Thins(f, p, q), Thins(g, rest, ans),
           NEW e, NEW s, Flow(e, s, q, ans)
    PROVE  Flow(e, s, p, rest)
<1>1. \A j, k \in DOMAIN p : f[j] = f[k] => j = k
    BY ThinsKeepsOrder
<1>2. \A j, k \in DOMAIN rest : g[j] = g[k] => j = k
    BY ThinsKeepsOrder
<1>3. /\ \A j \in DOMAIN p : f[j] \in DOMAIN q /\ p[j] = q[f[j]]
      /\ \A j \in DOMAIN rest : g[j] \in DOMAIN ans /\ rest[j] = ans[g[j]]
    BY DEF Thins
<1>4. Expected(e, s, p) /\ Expected(e, s, rest)
    BY <1>3 DEF Flow, Expected
<1>5. \A j, k \in DOMAIN p : Hydrates(p[j], e) /\ Hydrates(p[k], e) => j = k
    BY <1>1, <1>3 DEF Flow
<1>6. \A j, k \in DOMAIN rest : Hydrates(rest[j], e) /\ Hydrates(rest[k], e) => j = k
    BY <1>2, <1>3 DEF Flow
<1>7. ASSUME NEW j \in DOMAIN p, NEW k \in DOMAIN rest
      PROVE  ~(Hydrates(p[j], e) /\ Hydrates(rest[k], e))
    <2>1. /\ f[j] \in DOMAIN q /\ p[j] = q[f[j]]
          /\ g[k] \in DOMAIN ans /\ rest[k] = ans[g[k]]
        BY <1>3
    <2>2. ~(Hydrates(q[f[j]], e) /\ Hydrates(ans[g[k]], e))
        BY <2>1 DEF Flow
    <2> QED  BY <2>1, <2>2
<1> QED  BY <1>4, <1>5, <1>6, <1>7 DEF Flow

LEMMA SyncedThins ==
    ASSUME NEW S, NEW q \in Seq(S), NEW p \in Seq(S), NEW f, Thins(f, p, q),
           NEW e, NEW s, NEW h, NEW rec, Synced(e, s, h, q, rec),
           \A i \in DOMAIN q : Concerns(e, s.nonce, q[i]) => Keeps(f, p, i)
    PROVE  Synced(e, s, h, p, rec)
<1>1. \A j, k \in DOMAIN p : j < k => f[j] < f[k]
    BY DEF Thins
<1>2. \A j \in DOMAIN p : f[j] \in DOMAIN q /\ p[j] = q[f[j]]
    BY DEF Thins
<1>3. CASE NoneConcerns(e, s.nonce, q) /\ (h.unsaved \/ rec[s.nonce] = s.cache)
    BY <1>2, <1>3 DEF Synced, NoneConcerns
<1>4. CASE \E i \in DOMAIN q :
              /\ q[i].op = "set" /\ q[i].el = e /\ q[i].nonce = s.nonce /\ q[i].value = s.cache
              /\ \A j \in DOMAIN q : i < j => ~Concerns(e, s.nonce, q[j])
    <2>1. PICK i \in DOMAIN q :
              /\ q[i].op = "set" /\ q[i].el = e /\ q[i].nonce = s.nonce /\ q[i].value = s.cache
              /\ \A j \in DOMAIN q : i < j => ~Concerns(e, s.nonce, q[j])
        BY <1>4
    <2>2. PICK k \in DOMAIN p : f[k] = i
        BY <2>1 DEF Concerns, Keeps
    <2>3. \A j \in DOMAIN p : k < j => ~Concerns(e, s.nonce, p[j])
        BY <1>1, <1>2, <2>1, <2>2
    <2>4. p[k] = q[i]
        BY <1>2, <2>2
    <2> QED  BY <2>1, <2>3, <2>4 DEF Synced
<1> QED  BY <1>3, <1>4 DEF Synced

LEMMA KeptThins ==
    ASSUME NEW S, NEW T, NEW q \in Seq(S), NEW p \in Seq(S), NEW ans \in Seq(T), NEW rest \in Seq(T),
           NEW f, NEW g, Thins(f, p, q), Thins(g, rest, ans),
           NEW e, NEW s, NEW h, NEW rec, Kept(e, s, h, q, ans, rec),
           \A i \in DOMAIN q : Concerns(e, s.nonce, q[i]) => Keeps(f, p, i)
    PROVE  Kept(e, s, h, p, rest, rec)
<1>1. Flow(e, s, p, rest)
    BY FlowThins DEF Kept
<1>2. /\ \A j \in DOMAIN p : f[j] \in DOMAIN q /\ p[j] = q[f[j]]
      /\ \A j \in DOMAIN rest : g[j] \in DOMAIN ans /\ rest[j] = ans[g[j]]
    BY DEF Thins
<1>3. Synced(e, s, h, q, rec) => Synced(e, s, h, p, rec)
    BY SyncedThins
<1>4. ASSUME Unbroken(e, s, h, q, ans, rec)
      PROVE  Unbroken(e, s, h, p, rest, rec)
    <2>1. OfItsId(e, s, p, rest)
        <3>1. ASSUME NEW j \in DOMAIN p, IsGet(p[j], e)
              PROVE  p[j].nonce = s.nonce
            BY <1>2, <1>4, <3>1 DEF Unbroken, OfItsId
        <3>2. ASSUME NEW j \in DOMAIN rest, IsGet(rest[j], e)
              PROVE  rest[j].nonce = s.nonce
            BY <1>2, <1>4, <3>2 DEF Unbroken, OfItsId
        <3> QED  BY <1>4, <3>1, <3>2 DEF Unbroken, OfItsId
    <2>2. Covers(s, h, q, rec) => Covers(s, h, p, rec)
        <3>1. ASSUME Covers(s, h, q, rec), NEW k \in Keys, s.cache[k] = None, k \notin h.removed
              PROVE  /\ rec[s.nonce][k] = None
                     /\ \A i \in DOMAIN p : p[i].op = "set" /\ p[i].nonce = s.nonce => p[i].value[k] = None
            <4>1. \A i \in DOMAIN q : q[i].op = "set" /\ q[i].nonce = s.nonce => q[i].value[k] = None
                BY <3>1 DEF Covers
            <4>2. rec[s.nonce][k] = None
                BY <3>1 DEF Covers
            <4>3. ASSUME NEW i \in DOMAIN p, p[i].op = "set", p[i].nonce = s.nonce
                  PROVE  p[i].value[k] = None
                BY <1>2, <4>1, <4>3
            <4> QED  BY <4>2, <4>3
        <3> QED  BY <3>1 DEF Covers
    <2>3. ToldWhatIs(e, s, q, ans, rec) => ToldWhatIs(e, s, p, rest, rec)
        <3> SUFFICES ASSUME ToldWhatIs(e, s, q, ans, rec)
                     PROVE  ToldWhatIs(e, s, p, rest, rec)
            OBVIOUS
        <3>1. \A i, j \in DOMAIN p :
                 IsGet(p[i], e) /\ p[i].epoch = s.epoch /\ i < j => ~Concerns(e, s.nonce, p[j])
            <4>1. \A i, j \in DOMAIN p : i < j => f[i] < f[j]
                BY DEF Thins
            <4>2. \A i, j \in DOMAIN q :
                     IsGet(q[i], e) /\ q[i].epoch = s.epoch /\ i < j => ~Concerns(e, s.nonce, q[j])
                BY DEF ToldWhatIs
            <4> SUFFICES ASSUME NEW i \in DOMAIN p, NEW j \in DOMAIN p,
                                IsGet(p[i], e), p[i].epoch = s.epoch, i < j
                         PROVE  ~Concerns(e, s.nonce, p[j])
                OBVIOUS
            <4>3. /\ f[i] \in DOMAIN q /\ p[i] = q[f[i]] /\ f[j] \in DOMAIN q /\ p[j] = q[f[j]]
                  /\ f[i] < f[j]
                BY <1>2, <4>1
            <4> QED  BY <4>2, <4>3
        <3>2. NoneConcerns(e, s.nonce, q) => NoneConcerns(e, s.nonce, p)
            BY <1>2 DEF NoneConcerns
        <3>3. \A i \in DOMAIN rest :
                 IsGet(rest[i], e) /\ rest[i].epoch = s.epoch =>
                    NoneConcerns(e, s.nonce, p) /\ (rest[i].ok => rest[i].value = rec[s.nonce])
            BY <1>2, <3>2 DEF ToldWhatIs
        <3> QED  BY <3>1, <3>3 DEF ToldWhatIs
    <2>4. OutdatedGet(e, s, p, rest) => OutdatedGet(e, s, q, ans)
        BY <1>2 DEF OutdatedGet
    <2> QED  BY <1>3, <1>4, <2>1, <2>2, <2>3, <2>4 DEF Unbroken, UnreadIsEmpty
<1> QED  BY <1>1, <1>4 DEF Kept

\* A call is added that e neither waits for nor is concerned by.
LEMMA KeptAdds ==
    ASSUME NEW S, NEW q \in Seq(S), NEW c \in S, NEW ans,
           NEW e, NEW s, NEW h, NEW rec, Kept(e, s, h, q, ans, rec),
           ~IsGet(c, e), ~Concerns(e, s.nonce, c)
    PROVE  Kept(e, s, h, Append(q, c), ans, rec)
<1> DEFINE p == Append(q, c)
<1>1. /\ Len(q) + 1 \in DOMAIN p /\ p[Len(q) + 1] = c
      /\ \A j \in DOMAIN q : j \in DOMAIN p /\ p[j] = q[j] /\ j < Len(q) + 1
      /\ \A j \in DOMAIN p : j \in DOMAIN q \/ j = Len(q) + 1
    BY AppendAdds
<1> HIDE DEF p
<1>2. Flow(e, s, p, ans)
    <2>1. Expected(e, s, p)
        BY <1>1 DEF Kept, Flow, Expected
    <2>2. \A j \in DOMAIN p : Hydrates(p[j], e) => j \in DOMAIN q /\ p[j] = q[j]
        BY <1>1 DEF Hydrates
    <2> QED  BY <2>1, <2>2 DEF Kept, Flow
<1>3. NoneConcerns(e, s.nonce, q) => NoneConcerns(e, s.nonce, p)
    BY <1>1 DEF NoneConcerns
<1>4. Synced(e, s, h, q, rec) => Synced(e, s, h, p, rec)
    <2>1. CASE NoneConcerns(e, s.nonce, q) /\ (h.unsaved \/ rec[s.nonce] = s.cache)
        BY <1>3, <2>1 DEF Synced
    <2>2. CASE \E i \in DOMAIN q :
                  /\ q[i].op = "set" /\ q[i].el = e /\ q[i].nonce = s.nonce /\ q[i].value = s.cache
                  /\ \A j \in DOMAIN q : i < j => ~Concerns(e, s.nonce, q[j])
        BY <1>1, <2>2 DEF Synced
    <2> QED  BY <2>1, <2>2 DEF Synced
<1>5. ASSUME Unbroken(e, s, h, q, ans, rec)
      PROVE  Unbroken(e, s, h, p, ans, rec)
    <2>1. OfItsId(e, s, p, ans)
        BY <1>1, <1>5 DEF Unbroken, OfItsId
    <2>2. Covers(s, h, q, rec) => Covers(s, h, p, rec)
        BY <1>1 DEF Covers, Concerns
    <2>3. ToldWhatIs(e, s, q, ans, rec) => ToldWhatIs(e, s, p, ans, rec)
        <3> SUFFICES ASSUME ToldWhatIs(e, s, q, ans, rec)
                     PROVE  ToldWhatIs(e, s, p, ans, rec)
            OBVIOUS
        <3>1. \A i, j \in DOMAIN p :
                 IsGet(p[i], e) /\ p[i].epoch = s.epoch /\ i < j => ~Concerns(e, s.nonce, p[j])
            BY <1>1 DEF ToldWhatIs
        <3> QED  BY <1>3, <3>1 DEF ToldWhatIs
    <2>4. OutdatedGet(e, s, p, ans) => OutdatedGet(e, s, q, ans)
        BY <1>1 DEF OutdatedGet
    <2> QED  BY <1>4, <1>5, <2>1, <2>2, <2>3, <2>4 DEF Unbroken, UnreadIsEmpty
<1>6. Kept(e, s, h, p, ans, rec)
    BY <1>2, <1>5 DEF Kept
<1> QED  BY <1>6 DEF p

-----------------------------------------------------------------------------
(* What the object itself does                                               *)

\* t differs from s in what it waits for.
Alike(s, t) ==
    /\ t.nonce = s.nonce /\ t.cache = s.cache /\ t.epoch = s.epoch
    /\ t.hydrated = s.hydrated /\ t.persistedRead = s.persistedRead

LEMMA Waits ==
    ASSUME NEW q, NEW ans, NEW e, NEW s, NEW t, NEW h, NEW rec, Kept(e, s, h, q, ans, rec),
           Alike(s, t), ~s.persistedRead, t.nonce # None,
           s.promise => t.promise, t.promise => ~t.hydrated, t.waiting # {} => t.promise,
           \/ t.hydrated
           \/ t.nonce \in t.waiting
           \/ (s.timer => t.timer) /\ t.waiting = s.waiting
    PROVE  Kept(e, t, h, q, ans, rec)
<1>1. Expected(e, t, q) /\ Expected(e, t, ans)
    BY DEF Kept, Flow, Expected, Awaits, Alike
<1>2. Flow(e, t, q, ans)
    BY <1>1 DEF Kept, Flow, Alike
<1>3. ResetRemoves(t, h)
    BY DEF Kept, ResetRemoves, Alike
<1>4. ASSUME Unbroken(e, s, h, q, ans, rec)
      PROVE  Unbroken(e, t, h, q, ans, rec)
    <2>1. OfItsId(e, t, q, ans)
        BY <1>4 DEF Unbroken, OfItsId, Alike
    <2>2. ToldWhatIs(e, t, q, ans, rec)
        BY <1>4 DEF Unbroken, ToldWhatIs, Alike
    <2>3. Synced(e, s, h, q, rec) => Synced(e, t, h, q, rec)
        BY DEF Synced, Alike
    <2>4. OutdatedGet(e, t, q, ans) => OutdatedGet(e, s, q, ans)
        BY DEF OutdatedGet, Alike
    <2>5. UnreadIsEmpty(e, t, h, q, ans, rec)
        BY <1>4, <2>3, <2>4 DEF Unbroken, UnreadIsEmpty, Alike
    <2> QED  BY <2>1, <2>2, <2>5 DEF Unbroken, Alike
<1> QED  BY <1>2, <1>3, <1>4 DEF Kept

\* It asks for the record it has not read.
LEMMA Asks ==
    ASSUME NEW S, NEW q \in Seq(S), NEW c \in S, NEW ans,
           NEW e, NEW s, NEW h, NEW rec, Kept(e, s, h, q, ans, rec),
           ~s.persistedRead, s.epoch \in Nat,
           c.el = e, c.op = "get", c.nonce = s.nonce, c.epoch = s.epoch,
           IF c.by = "hydrate"
           THEN /\ s.promise
                /\ \A j \in DOMAIN q : ~Hydrates(q[j], e)
                /\ \A j \in DOMAIN ans : ~Hydrates(ans[j], e)
           ELSE s.hydrated
    PROVE  Kept(e, s, h, Append(q, c), ans, rec)
<1> DEFINE p == Append(q, c)
<1>1. /\ Len(q) + 1 \in DOMAIN p /\ p[Len(q) + 1] = c
      /\ \A j \in DOMAIN q : j \in DOMAIN p /\ p[j] = q[j] /\ j < Len(q) + 1
      /\ \A j \in DOMAIN p : j \in DOMAIN q \/ j = Len(q) + 1
      /\ \A j \in DOMAIN p : j \in Nat
      /\ Len(q) \in Nat
    BY AppendAdds
<1> HIDE DEF p
<1>2. Expected(e, s, p)
    <2>1. Awaits(s, c)
        BY DEF Awaits
    <2> QED  BY <1>1, <2>1 DEF Kept, Flow, Expected
<1>3. Flow(e, s, p, ans)
    <2>1. CASE c.by = "hydrate"
        <3>1. \A j \in DOMAIN p : Hydrates(p[j], e) => j = Len(q) + 1
            BY <1>1, <2>1
        <3> QED  BY <1>2, <2>1, <3>1 DEF Kept, Flow
    <2>2. CASE c.by # "hydrate"
        <3>1. \A j \in DOMAIN p : Hydrates(p[j], e) => j \in DOMAIN q /\ p[j] = q[j]
            BY <1>1, <2>2 DEF Hydrates
        <3> QED  BY <1>2, <3>1 DEF Kept, Flow
    <2> QED  BY <2>1, <2>2
<1>4. ~Concerns(e, s.nonce, c)
    BY DEF Concerns
<1>5. NoneConcerns(e, s.nonce, q) => NoneConcerns(e, s.nonce, p)
    BY <1>1, <1>4 DEF NoneConcerns
<1>6. Synced(e, s, h, q, rec) => Synced(e, s, h, p, rec)
    <2>1. CASE NoneConcerns(e, s.nonce, q) /\ (h.unsaved \/ rec[s.nonce] = s.cache)
        BY <1>5, <2>1 DEF Synced
    <2>2. CASE \E i \in DOMAIN q :
                  /\ q[i].op = "set" /\ q[i].el = e /\ q[i].nonce = s.nonce /\ q[i].value = s.cache
                  /\ \A j \in DOMAIN q : i < j => ~Concerns(e, s.nonce, q[j])
        BY <1>1, <1>4, <2>2 DEF Synced
    <2> QED  BY <2>1, <2>2 DEF Synced
<1>7. ASSUME Unbroken(e, s, h, q, ans, rec)
      PROVE  Unbroken(e, s, h, p, ans, rec)
    <2>1. OfItsId(e, s, p, ans)
        <3>1. \A j \in DOMAIN p : IsGet(p[j], e) => p[j].nonce = s.nonce
            BY <1>1, <1>7 DEF Unbroken, OfItsId
        <3> QED  BY <1>7, <3>1 DEF Unbroken, OfItsId
    <2>2. ToldWhatIs(e, s, p, ans, rec)
        <3>1. ASSUME NEW i \in DOMAIN p, NEW j \in DOMAIN p,
                     IsGet(p[i], e), p[i].epoch = s.epoch, i < j
              PROVE  ~Concerns(e, s.nonce, p[j])
            <4>1. CASE j = Len(q) + 1
                BY <1>1, <1>4, <4>1
            <4>2. CASE j \in DOMAIN q
                <5>1. i \in DOMAIN q
                    BY <1>1, <3>1, <4>2
                <5> QED  BY <1>1, <1>7, <3>1, <4>2, <5>1 DEF Unbroken, ToldWhatIs
            <4> QED  BY <1>1, <4>1, <4>2
        <3> QED  BY <1>5, <1>7, <3>1 DEF Unbroken, ToldWhatIs
    <2>3. OutdatedGet(e, s, p, ans) => OutdatedGet(e, s, q, ans)
        BY <1>1 DEF OutdatedGet
    <2> QED  BY <1>6, <1>7, <2>1, <2>2, <2>3 DEF Unbroken, UnreadIsEmpty
<1>8. Kept(e, s, h, p, ans, rec)
    BY <1>3, <1>7 DEF Kept
<1> QED  BY <1>8 DEF p

\* It writes its cache: a merged one, or an empty one.
LEMMA Writes ==
    ASSUME NEW S, NEW q \in Seq(S), NEW c \in S, NEW ans, NEW e, NEW s, NEW h, NEW rec,
           Flow(e, s, q, ans), ResetRemoves(s, h), s.hydrated \/ s.cache = Empty,
           h.unbroken => /\ OfItsId(e, s, q, ans)
                         /\ IF s.persistedRead THEN Covers(s, h, q, rec)
                            ELSE ToldWhatIs(e, s, Append(q, c), ans, rec),
           c.op = "set", c.el = e, c.nonce = s.nonce, c.value = s.cache
    PROVE  Kept(e, s, h, Append(q, c), ans, rec)
<1> DEFINE p == Append(q, c)
<1>1. /\ Len(q) + 1 \in DOMAIN p /\ p[Len(q) + 1] = c
      /\ \A j \in DOMAIN q : j \in DOMAIN p /\ p[j] = q[j] /\ j < Len(q) + 1
      /\ \A j \in DOMAIN p : j \in DOMAIN q \/ j = Len(q) + 1
      /\ \A j \in DOMAIN p : j \in Nat
      /\ Len(q) \in Nat
    BY AppendAdds
<1> HIDE DEF p
<1>2. ~IsGet(c, e)
    BY DEF IsGet
<1>3. Flow(e, s, p, ans)
    <2>1. Expected(e, s, p)
        BY <1>1, <1>2 DEF Flow, Expected
    <2>2. \A j \in DOMAIN p : Hydrates(p[j], e) => j \in DOMAIN q /\ p[j] = q[j]
        BY <1>1, <1>2 DEF Hydrates
    <2> QED  BY <2>1, <2>2 DEF Flow
<1>4. Synced(e, s, h, p, rec)
    <2>1. \A j \in DOMAIN p : ~(Len(q) + 1 < j)
        BY <1>1
    <2> QED  BY <1>1, <2>1 DEF Synced
<1>5. ASSUME h.unbroken
      PROVE  Unbroken(e, s, h, p, ans, rec)
    <2>1. OfItsId(e, s, p, ans)
        <3>1. \A j \in DOMAIN p : IsGet(p[j], e) => p[j].nonce = s.nonce
            BY <1>1, <1>2, <1>5 DEF OfItsId
        <3> QED  BY <1>5, <3>1 DEF OfItsId
    <2>2. Covers(s, h, q, rec) => Covers(s, h, p, rec)
        <3> SUFFICES ASSUME Covers(s, h, q, rec), NEW k \in Keys, s.cache[k] = None, k \notin h.removed
                     PROVE  /\ rec[s.nonce][k] = None
                            /\ \A i \in DOMAIN p :
                                  p[i].op = "set" /\ p[i].nonce = s.nonce => p[i].value[k] = None
            BY DEF Covers
        <3>1. /\ rec[s.nonce][k] = None
              /\ \A i \in DOMAIN q : q[i].op = "set" /\ q[i].nonce = s.nonce => q[i].value[k] = None
            BY DEF Covers
        <3> QED  BY <1>1, <3>1
    <2>3. UnreadIsEmpty(e, s, h, p, ans, rec)
        BY <1>4 DEF UnreadIsEmpty
    <2> QED  BY <1>4, <1>5, <2>1, <2>2, <2>3 DEF Unbroken, p
<1>6. Kept(e, s, h, p, ans, rec)
    BY <1>3, <1>5 DEF Kept
<1> QED  BY <1>6 DEF p

\* A key is set or removed.
LEMMA Changes ==
    ASSUME NEW q, NEW ans, NEW e, NEW s, NEW t, NEW h, NEW u, NEW rec, Kept(e, s, h, q, ans, rec),
           t.nonce = s.nonce, t.epoch = s.epoch, t.hydrated = s.hydrated, t.promise = s.promise,
           t.persistedRead = s.persistedRead, t.waiting = s.waiting, t.timer,
           u.unbroken = h.unbroken,
           \A k \in Keys : t.cache[k] = None /\ k \notin u.removed =>
                               s.cache[k] = None /\ k \notin h.removed
    PROVE  Kept(e, t, u, q, ans, rec)
<1>1. Expected(e, t, q) /\ Expected(e, t, ans)
    BY DEF Kept, Flow, Expected, Awaits
<1>2. Flow(e, t, q, ans)
    BY <1>1 DEF Kept, Flow
<1>3. ResetRemoves(t, u)
    BY DEF Kept, ResetRemoves
<1>4. ASSUME Unbroken(e, s, h, q, ans, rec)
      PROVE  Unbroken(e, t, u, q, ans, rec)
    <2>1. OfItsId(e, t, q, ans)
        BY <1>4 DEF Unbroken, OfItsId
    <2>2. Covers(s, h, q, rec) => Covers(t, u, q, rec)
        BY DEF Covers
    <2>3. ToldWhatIs(e, s, q, ans, rec) => ToldWhatIs(e, t, q, ans, rec)
        BY DEF ToldWhatIs
    <2>4. UnreadIsEmpty(e, t, u, q, ans, rec)
        BY DEF UnreadIsEmpty
    <2> QED  BY <1>4, <2>1, <2>2, <2>3, <2>4 DEF Unbroken
<1> QED  BY <1>2, <1>3, <1>4 DEF Kept

\* The object is not what it was when it asked: nothing is claimed of it.
LEMMA Breaks ==
    ASSUME NEW q, NEW ans, NEW e, NEW s, NEW t, NEW h, NEW u, NEW rec, Kept(e, s, h, q, ans, rec),
           t.epoch = s.epoch, t.hydrated = s.hydrated, t.promise = s.promise, t.cache = s.cache,
           t.persistedRead = s.persistedRead, t.waiting = s.waiting,
           ~u.unbroken, u.removed = h.removed
    PROVE  Kept(e, t, u, q, ans, rec)
<1>1. Expected(e, t, q) /\ Expected(e, t, ans)
    BY DEF Kept, Flow, Expected, Awaits
<1> QED  BY <1>1 DEF Kept, Flow, ResetRemoves

\* One that has not asked takes another id, or its first one.
LEMMA Renames ==
    ASSUME NEW q, NEW ans, NEW e, NEW s, NEW t, NEW h, NEW u, NEW rec, Kept(e, s, h, q, ans, rec),
           t.epoch = s.epoch, t.hydrated = s.hydrated, t.promise = s.promise, t.cache = s.cache,
           t.persistedRead = s.persistedRead, t.waiting = s.waiting, t.timer = s.timer,
           ~s.promise, ~s.hydrated, u.removed = h.removed, u.unbroken = h.unbroken
    PROVE  /\ Kept(e, t, u, q, ans, rec)
           /\ \A i \in DOMAIN q : ~IsGet(q[i], e)
           /\ \A i \in DOMAIN ans : ~IsGet(ans[i], e)
<1>1. /\ \A i \in DOMAIN q : ~IsGet(q[i], e)
      /\ \A i \in DOMAIN ans : ~IsGet(ans[i], e)
    BY DEF Kept, Flow, Expected, Awaits
<1>2. Flow(e, t, q, ans) /\ ~t.persistedRead /\ t.waiting = {} /\ s.waiting = {}
    BY <1>1 DEF Kept, Flow, Expected, Awaits
<1>3. ResetRemoves(t, u)
    BY DEF Kept, ResetRemoves
<1>4. ASSUME Unbroken(e, s, h, q, ans, rec)
      PROVE  Unbroken(e, t, u, q, ans, rec)
    <2>1. OfItsId(e, t, q, ans) /\ ToldWhatIs(e, t, q, ans, rec) /\ ~OutdatedGet(e, t, q, ans)
        BY <1>1 DEF OfItsId, ToldWhatIs, OutdatedGet
    <2>2. UnreadIsEmpty(e, t, u, q, ans, rec)
        BY <1>2, <1>4, <2>1 DEF Unbroken, UnreadIsEmpty
    <2> QED  BY <1>2, <2>1, <2>2 DEF Unbroken
<1> QED  BY <1>1, <1>2, <1>3, <1>4 DEF Kept

\* An object that is gone waits for nothing.
LEMMA Forgets ==
    ASSUME NEW q, NEW ans, NEW e, NEW rec,
           \A i \in DOMAIN q : ~IsGet(q[i], e),
           \A i \in DOMAIN ans : ~IsGet(ans[i], e)
    PROVE  Kept(e, Gone, Unseen, q, ans, rec)
<1>1. /\ Gone.nonce = None /\ Gone.cache = Empty /\ Gone.timer = FALSE /\ Gone.hydrated = FALSE
      /\ Gone.persistedRead = FALSE /\ Gone.epoch = 0 /\ Gone.promise = FALSE /\ Gone.waiting = {}
    BY DEF Gone, Fresh
<1>2. Flow(e, Gone, q, ans)
    BY <1>1 DEF Flow, Expected, Hydrates
<1>3. OfItsId(e, Gone, q, ans) /\ ToldWhatIs(e, Gone, q, ans, rec) /\ ~OutdatedGet(e, Gone, q, ans)
    BY <1>1 DEF OfItsId, ToldWhatIs, OutdatedGet
<1>4. ResetRemoves(Gone, Unseen) /\ UnreadIsEmpty(e, Gone, Unseen, q, ans, rec)
    BY <1>1, <1>3 DEF ResetRemoves, UnreadIsEmpty
<1> HIDE DEF Gone
<1> QED  BY <1>1, <1>2, <1>3, <1>4 DEF Kept, Unbroken

-----------------------------------------------------------------------------
(* An answer comes back                                                      *)

\* t is what the answer a makes of s, u of its history.
Answers(s, t, a) ==
    /\ t.nonce = s.nonce /\ t.epoch = s.epoch /\ t.timer = s.timer /\ t.hydrated
    /\ t.persistedRead <=> s.persistedRead \/ a.ok
    /\ t.promise <=> s.promise /\ a.by # "hydrate"
    /\ t.waiting = IF a.by = "hydrate" THEN {} ELSE s.waiting
    /\ IF a.ok /\ a.epoch = s.epoch
       THEN /\ \A k \in Keys : t.cache[k] = IF s.cache[k] # None THEN s.cache[k] ELSE a.value[k]
            /\ s.cache = Empty => t.cache = a.value
       ELSE t.cache = s.cache

\* The answer is the last that is waited for, or one of re-reads only.
LEMMA AnswerFlow ==
    ASSUME NEW S, NEW T, NEW q \in Seq(S), NEW ans \in Seq(T), NEW rest \in Seq(T), NEW f,
           Thins(f, rest, ans), NEW i \in DOMAIN ans, \A j \in DOMAIN rest : f[j] # i,
           NEW e, NEW s, NEW t, Flow(e, s, q, ans), Answers(s, t, ans[i]),
           IsGet(ans[i], e), ans[i].by \in {"hydrate", "reread"}
    PROVE  Flow(e, t, q, rest)
<1> DEFINE a == ans[i]
<1>1. \A j \in DOMAIN rest : f[j] \in DOMAIN ans /\ f[j] # i /\ rest[j] = ans[f[j]]
    BY DEF Thins
<1>2. Awaits(s, a)
    BY DEF Flow, Expected
<1>3. ~t.promise /\ t.hydrated
    <2>1. CASE a.by = "hydrate"
        BY <2>1 DEF Answers
    <2>2. CASE a.by = "reread"
        BY <1>2, <2>2 DEF Answers, Flow, Awaits
    <2> QED  BY <2>1, <2>2 DEF Answers
<1>4. \A j \in DOMAIN q : ~Hydrates(q[j], e)
    <2>1. CASE a.by = "hydrate"
        BY <2>1 DEF Flow, Hydrates
    <2>2. CASE a.by = "reread"
        BY <1>2, <2>2 DEF Flow, Expected, Awaits, Hydrates
    <2> QED  BY <2>1, <2>2
<1>5. \A j \in DOMAIN rest : ~Hydrates(rest[j], e)
    <2>1. CASE a.by = "hydrate"
        <3>1. \A j \in DOMAIN ans : Hydrates(ans[j], e) => j = i
            BY <2>1 DEF Flow, Hydrates
        <3> QED  BY <1>1, <3>1
    <2>2. CASE a.by = "reread"
        <3>1. \A j \in DOMAIN ans : ~Hydrates(ans[j], e)
            BY <1>2, <2>2 DEF Flow, Expected, Awaits, Hydrates
        <3> QED  BY <1>1, <3>1
    <2> QED  BY <2>1, <2>2
<1>6. Expected(e, t, q)
    BY <1>3, <1>4 DEF Flow, Expected, Awaits, Hydrates, Answers
<1>7. Expected(e, t, rest)
    BY <1>1, <1>3, <1>5 DEF Flow, Expected, Awaits, Hydrates, Answers
<1>8. t.waiting = {}
    <2>1. CASE a.by = "hydrate"
        BY <2>1 DEF Answers
    <2>2. CASE a.by = "reread"
        BY <1>2, <2>2 DEF Flow, Awaits, Answers
    <2> QED  BY <2>1, <2>2
<1> QED  BY <1>3, <1>4, <1>5, <1>6, <1>7, <1>8 DEF Flow

\* An answer tells what is in the record, or all that is missing was removed.
LEMMA AnswerCovers ==
    ASSUME NEW T, NEW q, NEW ans \in Seq(T), NEW i \in DOMAIN ans,
           NEW e, NEW s, NEW t, NEW h, NEW rec, Kept(e, s, h, q, ans, rec), h.unbroken,
           Answers(s, t, ans[i]), IsGet(ans[i], e), s.epoch \in Nat, ans[i].epoch \in Nat,
           t.persistedRead
    PROVE  Covers(t, h, q, rec)
<1> DEFINE a == ans[i]
<1>1. \A k \in Keys : t.cache[k] = None => s.cache[k] = None
    BY DEF Answers
<1>2. t.nonce = s.nonce
    BY DEF Answers
<1>3. CASE s.persistedRead
    BY <1>1, <1>2, <1>3 DEF Kept, Unbroken, Covers
<1>4. CASE ~s.persistedRead /\ a.epoch = s.epoch
    <2>1. NoneConcerns(e, s.nonce, q) /\ a.value = rec[s.nonce] /\ a.ok
        BY <1>4 DEF Kept, Unbroken, ToldWhatIs, Answers
    <2>2. \A k \in Keys : t.cache[k] = None => rec[s.nonce][k] = None
        BY <1>4, <2>1 DEF Answers
    <2>3. \A j \in DOMAIN q : ~(q[j].op = "set" /\ q[j].nonce = s.nonce)
        BY <2>1 DEF NoneConcerns, Concerns
    <2> QED  BY <1>2, <2>2, <2>3 DEF Covers
<1>5. CASE a.epoch # s.epoch
    <2>1. a.epoch <= s.epoch
        BY DEF Kept, Flow, Expected, Awaits
    <2>2. s.epoch > 0
        BY <1>5, <2>1
    <2>3. \A k \in Keys : t.cache[k] = None => k \in h.removed
        BY <1>1, <2>2 DEF Kept, ResetRemoves
    <2> QED  BY <2>3 DEF Covers
<1> QED  BY <1>3, <1>4, <1>5

\* With no write of it, the object holds what is stored.
LEMMA AnswerSynced ==
    ASSUME NEW T, NEW q, NEW ans \in Seq(T), NEW i \in DOMAIN ans,
           NEW e, NEW s, NEW t, NEW h, NEW rec, Kept(e, s, h, q, ans, rec), h.unbroken,
           Answers(s, t, ans[i]), IsGet(ans[i], e), ans[i].by \in {"hydrate", "reread"},
           t.persistedRead, ~t.timer,
           t.nonce \notin IF ans[i].by = "hydrate" THEN s.waiting ELSE {ans[i].nonce}
    PROVE  Synced(e, t, h, q, rec)
<1> DEFINE a == ans[i]
<1>1. a.nonce = s.nonce /\ t.nonce = s.nonce /\ ~s.timer
    BY DEF Kept, Unbroken, OfItsId, Answers
<1>2. a.by = "hydrate" /\ s.nonce \notin s.waiting
    BY <1>1
<1>3. s.promise /\ ~s.hydrated /\ ~s.persistedRead /\ a.ok
    BY <1>2 DEF Kept, Flow, Expected, Awaits, Answers
<1>4. s.cache = Empty /\ (OutdatedGet(e, s, q, ans) => Synced(e, s, h, q, rec))
    BY <1>1, <1>2, <1>3 DEF Kept, Unbroken, UnreadIsEmpty
<1>5. CASE a.epoch = s.epoch
    <2>1. NoneConcerns(e, s.nonce, q) /\ a.value = rec[s.nonce]
        BY <1>3, <1>5 DEF Kept, Unbroken, ToldWhatIs
    <2>2. t.cache = a.value
        BY <1>3, <1>4, <1>5 DEF Answers
    <2> QED  BY <1>1, <2>1, <2>2 DEF Synced
<1>6. CASE a.epoch # s.epoch
    <2>1. Synced(e, s, h, q, rec)
        BY <1>4, <1>6 DEF OutdatedGet
    <2>2. t.cache = s.cache
        BY <1>6 DEF Answers
    <2> QED  BY <1>1, <2>1, <2>2 DEF Synced
<1> QED  BY <1>5, <1>6

\* A flush it lets go on writes the merged cache.
LEMMA AnswerWrites ==
    ASSUME NEW S, NEW T, NEW q \in Seq(S), NEW ans \in Seq(T), NEW rest \in Seq(T), NEW f,
           Thins(f, rest, ans), NEW i \in DOMAIN ans, \A j \in DOMAIN rest : f[j] # i,
           NEW e, NEW s, NEW t, NEW h, NEW u, NEW rec, Kept(e, s, h, q, ans, rec),
           Answers(s, t, ans[i]), IsGet(ans[i], e), ans[i].by \in {"hydrate", "reread"},
           s.epoch \in Nat, ans[i].epoch \in Nat,
           u.removed = h.removed, u.unbroken => h.unbroken,
           t.persistedRead, NEW c \in S, c.op = "set", c.el = e, c.nonce = t.nonce, c.value = t.cache
    PROVE  Kept(e, t, u, Append(q, c), rest, rec)
<1>1. Flow(e, t, q, rest)
    BY AnswerFlow DEF Kept
<1>2. ResetRemoves(t, u)
    BY DEF Kept, ResetRemoves, Answers
<1>3. ASSUME u.unbroken
      PROVE  OfItsId(e, t, q, rest) /\ Covers(t, u, q, rec)
    <2>1. Covers(t, h, q, rec)
        BY <1>3, AnswerCovers
    <2>2. Covers(t, u, q, rec)
        BY <2>1 DEF Covers
    <2>3. OfItsId(e, s, q, ans)
        BY <1>3 DEF Kept, Unbroken
    <2>4. s.hydrated \/ s.promise
        BY DEF Kept, Flow, Expected, Awaits
    <2>5. \A j \in DOMAIN rest : f[j] \in DOMAIN ans /\ rest[j] = ans[f[j]]
        BY DEF Thins
    <2>6. \A j \in DOMAIN rest : IsGet(rest[j], e) => rest[j].nonce = s.nonce
        BY <2>3, <2>5 DEF OfItsId
    <2>7. OfItsId(e, t, q, rest)
        BY <2>3, <2>4, <2>6 DEF OfItsId, Answers
    <2> QED  BY <2>2, <2>7
<1> QED  BY <1>1, <1>2, <1>3, Writes DEF Answers

LEMMA AnswerKeeps ==
    ASSUME NEW S, NEW T, NEW q \in Seq(S), NEW ans \in Seq(T), NEW rest \in Seq(T), NEW f,
           Thins(f, rest, ans), NEW i \in DOMAIN ans, \A j \in DOMAIN rest : f[j] # i,
           NEW e, NEW s, NEW t, NEW h, NEW u, NEW rec, Kept(e, s, h, q, ans, rec),
           Answers(s, t, ans[i]), IsGet(ans[i], e), ans[i].by \in {"hydrate", "reread"},
           s.epoch \in Nat, ans[i].epoch \in Nat,
           u.removed = h.removed, u.unsaved = h.unsaved, u.unbroken => h.unbroken,
           ~ /\ t.nonce \in IF ans[i].by = "hydrate" THEN s.waiting ELSE {ans[i].nonce}
             /\ t.persistedRead
    PROVE  Kept(e, t, u, q, rest, rec)
<1>1. Flow(e, t, q, rest)
    BY AnswerFlow DEF Kept
<1>2. ResetRemoves(t, u)
    BY DEF Kept, ResetRemoves, Answers
<1>3. \A j \in DOMAIN rest : f[j] \in DOMAIN ans /\ rest[j] = ans[f[j]]
    BY DEF Thins
<1>4. ASSUME u.unbroken
      PROVE  Unbroken(e, t, u, q, rest, rec)
    <2>1. OfItsId(e, s, q, ans)
        BY <1>4 DEF Kept, Unbroken
    <2>2. OfItsId(e, t, q, rest)
        <3>1. s.hydrated \/ s.promise
            BY DEF Kept, Flow, Expected, Awaits
        <3>2. \A j \in DOMAIN rest : IsGet(rest[j], e) => rest[j].nonce = s.nonce
            BY <1>3, <2>1 DEF OfItsId
        <3> QED  BY <2>1, <3>1, <3>2 DEF OfItsId, Answers
    <2>3. UnreadIsEmpty(e, t, u, q, rest, rec)
        BY DEF UnreadIsEmpty, Answers
    <2>4. CASE t.persistedRead
        <3>1. Covers(t, h, q, rec)
            BY <1>4, <2>4, AnswerCovers
        <3>2. Covers(t, u, q, rec)
            BY <3>1 DEF Covers
        <3>3. ~t.timer => Synced(e, t, h, q, rec)
            BY <1>4, <2>4, AnswerSynced
        <3>4. ~t.timer => Synced(e, t, u, q, rec)
            BY <3>3 DEF Synced
        <3> QED  BY <2>2, <2>3, <2>4, <3>2, <3>4 DEF Unbroken
    <2>5. CASE ~t.persistedRead
        <3>1. ToldWhatIs(e, s, q, ans, rec) /\ t.epoch = s.epoch /\ t.nonce = s.nonce
            BY <1>4, <2>5 DEF Kept, Unbroken, Answers
        <3>2. \A j \in DOMAIN rest :
                 IsGet(rest[j], e) /\ rest[j].epoch = s.epoch =>
                    NoneConcerns(e, s.nonce, q) /\ (rest[j].ok => rest[j].value = rec[s.nonce])
            BY <1>3, <3>1 DEF ToldWhatIs
        <3>3. ToldWhatIs(e, t, q, rest, rec)
            BY <3>1, <3>2 DEF ToldWhatIs
        <3> QED  BY <2>2, <2>3, <2>5, <3>3 DEF Unbroken
    <2> QED  BY <2>4, <2>5
<1> QED  BY <1>1, <1>2, <1>4 DEF Kept

-----------------------------------------------------------------------------
(* The server handles the oldest call                                        *)

\* A GET: its answer tells what the record is.
LEMMA Handles ==
    ASSUME NEW S, NEW T, NEW q \in Seq(S), q # <<>>, NEW ans \in Seq(T), NEW r \in T,
           NEW e, NEW s, NEW h, NEW rec, Kept(e, s, h, q, ans, rec),
           Head(q).op = "get",
           r.el = Head(q).el, r.op = "get", r.by = Head(q).by, r.nonce = Head(q).nonce,
           r.epoch = Head(q).epoch, r.ok => r.value = rec[r.nonce]
    PROVE  Kept(e, s, h, Tail(q), Append(ans, r), rec)
<1> DEFINE p == Tail(q)
           c == Head(q)
           all == Append(ans, r)
<1>1. PICK f : /\ Thins(f, p, q)
               /\ \A j \in DOMAIN p : 1 < f[j]
               /\ \A i \in DOMAIN q : i # 1 => Keeps(f, p, i)
    BY TailThins
<1>2. p \in Seq(S) /\ 1 \in DOMAIN q /\ c = q[1]
    BY TailThins
<1>3. /\ Len(ans) + 1 \in DOMAIN all /\ all[Len(ans) + 1] = r
      /\ \A j \in DOMAIN ans : j \in DOMAIN all /\ all[j] = ans[j]
      /\ \A j \in DOMAIN all : j \in DOMAIN ans \/ j = Len(ans) + 1
    BY AppendAdds
<1> HIDE DEF p, c, all
<1>4. Kept(e, s, h, p, ans, rec)
    <2>1. \A i \in DOMAIN q : Concerns(e, s.nonce, q[i]) => Keeps(f, p, i)
        BY <1>1, <1>2 DEF Concerns, c
    <2>2. Thins([j \in DOMAIN ans |-> j], ans, ans)
        BY DEF Thins
    <2> QED  BY <1>1, <1>2, <2>1, <2>2, KeptThins
<1>5. \A j \in DOMAIN p : f[j] \in DOMAIN q /\ p[j] = q[f[j]] /\ 1 < f[j]
    BY <1>1 DEF Thins
<1>6. IsGet(r, e) => IsGet(c, e)
    BY DEF IsGet, c
<1>7. r.by = c.by /\ r.nonce = c.nonce /\ r.epoch = c.epoch
    BY DEF c
<1>8. Expected(e, s, all)
    <2>1. IsGet(r, e) => Awaits(s, r)
        BY <1>2, <1>6, <1>7 DEF Kept, Flow, Expected, Awaits
    <2> QED  BY <1>3, <1>4, <2>1 DEF Kept, Flow, Expected
<1>9. Hydrates(r, e) =>
         /\ \A j \in DOMAIN p : ~Hydrates(p[j], e)
         /\ \A j \in DOMAIN ans : ~Hydrates(ans[j], e)
    <2> SUFFICES ASSUME Hydrates(r, e)
                 PROVE  /\ \A j \in DOMAIN p : ~Hydrates(p[j], e)
                        /\ \A j \in DOMAIN ans : ~Hydrates(ans[j], e)
        OBVIOUS
    <2>1. Hydrates(c, e)
        BY <1>6, <1>7 DEF Hydrates
    <2>2. \A j \in DOMAIN q : Hydrates(q[j], e) => j = 1
        BY <1>2, <2>1 DEF Kept, Flow
    <2>3. \A j \in DOMAIN ans : ~Hydrates(ans[j], e)
        BY <1>2, <2>1 DEF Kept, Flow
    <2>4. ASSUME NEW j \in DOMAIN p, Hydrates(p[j], e)
          PROVE  FALSE
        <3>1. f[j] = 1
            BY <1>5, <2>2, <2>4
        <3> QED  BY <1>5, <3>1
    <2> QED  BY <2>3, <2>4
<1>10. Flow(e, s, p, all)
    <2>1. \A i, j \in DOMAIN all : Hydrates(all[i], e) /\ Hydrates(all[j], e) => i = j
        BY <1>3, <1>4, <1>9 DEF Kept, Flow
    <2>2. \A i \in DOMAIN p, j \in DOMAIN all : ~(Hydrates(p[i], e) /\ Hydrates(all[j], e))
        BY <1>3, <1>4, <1>9 DEF Kept, Flow
    <2> QED  BY <1>4, <1>8, <2>1, <2>2 DEF Kept, Flow
<1>11. ASSUME h.unbroken
       PROVE  Unbroken(e, s, h, p, all, rec)
    <2>1. Unbroken(e, s, h, q, ans, rec) /\ Unbroken(e, s, h, p, ans, rec)
        BY <1>4, <1>11 DEF Kept
    <2>2. IsGet(r, e) => r.nonce = s.nonce
        BY <1>2, <1>6, <1>7, <2>1 DEF Unbroken, OfItsId
    <2>3. OfItsId(e, s, p, all)
        <3>1. \A j \in DOMAIN all : IsGet(all[j], e) => all[j].nonce = s.nonce
            BY <1>3, <2>1, <2>2 DEF Unbroken, OfItsId
        <3> QED  BY <2>1, <3>1 DEF Unbroken, OfItsId
    <2>4. ASSUME ~s.persistedRead
          PROVE  ToldWhatIs(e, s, p, all, rec)
        <3>1. ToldWhatIs(e, s, q, ans, rec) /\ ToldWhatIs(e, s, p, ans, rec)
            BY <2>1, <2>4 DEF Unbroken
        <3>2. IsGet(r, e) /\ r.epoch = s.epoch => NoneConcerns(e, s.nonce, p)
            <4> SUFFICES ASSUME IsGet(r, e), r.epoch = s.epoch, NEW j \in DOMAIN p
                         PROVE  ~Concerns(e, s.nonce, p[j])
                BY DEF NoneConcerns
            <4>1. IsGet(q[1], e) /\ q[1].epoch = s.epoch
                BY <1>2, <1>6, <1>7
            <4> QED  BY <1>2, <1>5, <3>1, <4>1 DEF ToldWhatIs
        <3>3. \A j \in DOMAIN all :
                 IsGet(all[j], e) /\ all[j].epoch = s.epoch =>
                    NoneConcerns(e, s.nonce, p) /\ (all[j].ok => all[j].value = rec[s.nonce])
            BY <1>3, <2>2, <3>1, <3>2 DEF ToldWhatIs
        <3> QED  BY <3>1, <3>3 DEF ToldWhatIs
    <2>5. OutdatedGet(e, s, p, all) => OutdatedGet(e, s, q, ans)
        <3>1. ASSUME NEW j \in DOMAIN p, IsGet(p[j], e), p[j].epoch # s.epoch
              PROVE  OutdatedGet(e, s, q, ans)
            BY <1>5, <3>1 DEF OutdatedGet
        <3>2. ASSUME NEW j \in DOMAIN all, IsGet(all[j], e), all[j].epoch # s.epoch
              PROVE  OutdatedGet(e, s, q, ans)
            BY <1>2, <1>3, <1>6, <1>7, <3>2 DEF OutdatedGet
        <3> QED  BY <3>1, <3>2 DEF OutdatedGet
    <2>6. Synced(e, s, h, q, rec) => Synced(e, s, h, p, rec)
        <3>1. \A i \in DOMAIN q : Concerns(e, s.nonce, q[i]) => Keeps(f, p, i)
            BY <1>1, <1>2 DEF Concerns, c
        <3> QED  BY <1>1, <1>2, <3>1, SyncedThins
    <2>7. UnreadIsEmpty(e, s, h, p, all, rec)
        BY <2>1, <2>5, <2>6 DEF Unbroken, UnreadIsEmpty
    <2> QED  BY <2>1, <2>3, <2>4, <2>7 DEF Unbroken
<1> QED  BY <1>4, <1>10, <1>11 DEF Kept, p, all

\* A SET, of e or of another element: rec2 is the record it leaves behind.
Stored(c, ok, rec, rec2) ==
    \A n \in Nonces : rec2[n] = IF ok /\ n = c.nonce THEN c.value ELSE rec[n]

LEMMA Stores ==
    ASSUME NEW S, NEW q \in Seq(S), q # <<>>, NEW T, NEW ans \in Seq(T), NEW ok,
           NEW e, NEW s, NEW h, NEW u, NEW rec, NEW rec2, Kept(e, s, h, q, ans, rec),
           s.nonce \in Nonces \cup {None},
           Head(q).op = "set", Stored(Head(q), ok, rec, rec2),
           u.removed = h.removed, u.unbroken = h.unbroken,
           IF Head(q).el = e THEN s.nonce # None /\ ~ok => u.unsaved ELSE u.unsaved = h.unsaved
    PROVE  Kept(e, s, u, Tail(q), ans, rec2)
<1> DEFINE p == Tail(q)
           c == Head(q)
<1>1. PICK f : /\ Thins(f, p, q)
               /\ \A j \in DOMAIN p : 1 < f[j]
               /\ \A i \in DOMAIN q : i # 1 => Keeps(f, p, i)
    BY TailThins
<1>2. p \in Seq(S) /\ 1 \in DOMAIN q /\ c = q[1]
    BY TailThins
<1>3. c.op = "set"
    BY DEF c
<1> HIDE DEF p, c
<1>4. /\ \A j \in DOMAIN p : f[j] \in DOMAIN q /\ p[j] = q[f[j]] /\ 1 < f[j]
      /\ \A i, j \in DOMAIN p : i < j => f[i] < f[j]
    BY <1>1 DEF Thins
<1>5. Flow(e, s, p, ans)
    <2>1. Thins([j \in DOMAIN ans |-> j], ans, ans)
        BY DEF Thins
    <2> QED  BY <1>1, <1>2, <2>1, FlowThins DEF Kept
<1>6. ResetRemoves(s, u)
    BY DEF Kept, ResetRemoves
<1>7. ASSUME u.unbroken
      PROVE  Unbroken(e, s, u, p, ans, rec2)
    <2>1. Unbroken(e, s, h, q, ans, rec)
        BY <1>7 DEF Kept
    <2>2. OfItsId(e, s, p, ans)
        <3>1. ASSUME NEW j \in DOMAIN p, IsGet(p[j], e)
              PROVE  p[j].nonce = s.nonce
            BY <1>4, <2>1, <3>1 DEF Unbroken, OfItsId
        <3> QED  BY <2>1, <3>1 DEF Unbroken, OfItsId
    <2>3. CASE s.nonce = None
        <3>1. ~s.hydrated /\ ~s.promise
            BY <2>1, <2>3 DEF Unbroken, OfItsId
        <3>2. /\ \A j \in DOMAIN p : ~IsGet(p[j], e)
              /\ \A j \in DOMAIN ans : ~IsGet(ans[j], e)
            BY <1>5, <3>1 DEF Flow, Expected, Awaits
        <3>3. ToldWhatIs(e, s, p, ans, rec2) /\ ~OutdatedGet(e, s, p, ans)
            BY <3>2 DEF ToldWhatIs, OutdatedGet
        <3>4. UnreadIsEmpty(e, s, u, p, ans, rec2)
            BY <2>1, <3>3 DEF Unbroken, UnreadIsEmpty
        <3>5. ~s.persistedRead
            BY <1>5, <3>1 DEF Flow
        <3> QED  BY <2>2, <3>3, <3>4, <3>5 DEF Unbroken
    <2>4. CASE s.nonce \in Nonces /\ ~Concerns(e, s.nonce, c)
        <3>1. rec2[s.nonce] = rec[s.nonce] /\ u.unsaved = h.unsaved
            BY <1>3, <2>4 DEF Concerns, Stored, c
        <3>2. Synced(e, s, h, q, rec) => Synced(e, s, u, p, rec2)
            <4>1. \A i \in DOMAIN q : Concerns(e, s.nonce, q[i]) => Keeps(f, p, i)
                BY <1>1, <1>2, <2>4
            <4>2. Synced(e, s, h, q, rec) => Synced(e, s, h, p, rec)
                BY <1>1, <1>2, <4>1, SyncedThins
            <4> QED  BY <3>1, <4>2 DEF Synced
        <3>3. Covers(s, h, q, rec) => Covers(s, u, p, rec2)
            <4> SUFFICES ASSUME Covers(s, h, q, rec), NEW k \in Keys, s.cache[k] = None, k \notin u.removed
                         PROVE  /\ rec2[s.nonce][k] = None
                                /\ \A i \in DOMAIN p :
                                      p[i].op = "set" /\ p[i].nonce = s.nonce => p[i].value[k] = None
                BY DEF Covers
            <4>1. /\ rec[s.nonce][k] = None
                  /\ \A i \in DOMAIN q : q[i].op = "set" /\ q[i].nonce = s.nonce => q[i].value[k] = None
                BY DEF Covers
            <4>2. ASSUME NEW i \in DOMAIN p, p[i].op = "set", p[i].nonce = s.nonce
                  PROVE  p[i].value[k] = None
                BY <1>4, <4>1, <4>2
            <4> QED  BY <3>1, <4>1, <4>2
        <3>4. ToldWhatIs(e, s, q, ans, rec) => ToldWhatIs(e, s, p, ans, rec2)
            <4> SUFFICES ASSUME ToldWhatIs(e, s, q, ans, rec)
                         PROVE  ToldWhatIs(e, s, p, ans, rec2)
                OBVIOUS
            <4>1. ASSUME NEW i \in DOMAIN p, NEW j \in DOMAIN p,
                         IsGet(p[i], e), p[i].epoch = s.epoch, i < j
                  PROVE  ~Concerns(e, s.nonce, p[j])
                BY <1>4, <4>1 DEF ToldWhatIs
            <4>2. NoneConcerns(e, s.nonce, q) => NoneConcerns(e, s.nonce, p)
                BY <1>4 DEF NoneConcerns
            <4>3. \A i \in DOMAIN ans :
                     IsGet(ans[i], e) /\ ans[i].epoch = s.epoch =>
                        NoneConcerns(e, s.nonce, p) /\ (ans[i].ok => ans[i].value = rec2[s.nonce])
                BY <3>1, <4>2 DEF ToldWhatIs
            <4> QED  BY <4>1, <4>3 DEF ToldWhatIs
        <3>5. OutdatedGet(e, s, p, ans) => OutdatedGet(e, s, q, ans)
            BY <1>4 DEF OutdatedGet
        <3>6. UnreadIsEmpty(e, s, u, p, ans, rec2)
            BY <2>1, <3>2, <3>5 DEF Unbroken, UnreadIsEmpty
        <3> QED  BY <2>1, <2>2, <3>2, <3>3, <3>4, <3>6 DEF Unbroken
    <2>5. CASE s.nonce \in Nonces /\ Concerns(e, s.nonce, c)
        <3>1. ~NoneConcerns(e, s.nonce, q)
            BY <1>2, <2>5 DEF NoneConcerns
        <3>2. Synced(e, s, h, q, rec) => Synced(e, s, u, p, rec2)
            <4> SUFFICES ASSUME Synced(e, s, h, q, rec)
                         PROVE  Synced(e, s, u, p, rec2)
                OBVIOUS
            <4>1. PICK i \in DOMAIN q :
                      /\ q[i].op = "set" /\ q[i].el = e /\ q[i].nonce = s.nonce /\ q[i].value = s.cache
                      /\ \A j \in DOMAIN q : i < j => ~Concerns(e, s.nonce, q[j])
                BY <3>1 DEF Synced
            <4>2. CASE i = 1
                <5>1. c.el = e /\ c.nonce = s.nonce /\ c.value = s.cache
                    BY <1>2, <4>1, <4>2
                <5>2. NoneConcerns(e, s.nonce, p)
                    BY <1>4, <4>1, <4>2 DEF NoneConcerns
                <5>3. ok => rec2[s.nonce] = s.cache
                    BY <2>5, <5>1 DEF Stored, c
                <5>4. ~ok => u.unsaved
                    BY <2>5, <5>1, ViewerAssumption DEF c
                <5> QED  BY <5>2, <5>3, <5>4 DEF Synced
            <4>3. CASE i # 1
                <5>1. PICK k \in DOMAIN p : f[k] = i
                    BY <1>1, <4>1, <4>3 DEF Keeps
                <5>2. \A j \in DOMAIN p : k < j => ~Concerns(e, s.nonce, p[j])
                    BY <1>4, <4>1, <5>1
                <5>3. p[k] = q[i]
                    BY <1>4, <5>1
                <5> QED  BY <4>1, <5>2, <5>3 DEF Synced
            <4> QED  BY <4>2, <4>3
        <3>3. Covers(s, h, q, rec) => Covers(s, u, p, rec2)
            <4> SUFFICES ASSUME Covers(s, h, q, rec), NEW k \in Keys, s.cache[k] = None, k \notin u.removed
                         PROVE  /\ rec2[s.nonce][k] = None
                                /\ \A i \in DOMAIN p :
                                      p[i].op = "set" /\ p[i].nonce = s.nonce => p[i].value[k] = None
                BY DEF Covers
            <4>1. /\ rec[s.nonce][k] = None
                  /\ \A i \in DOMAIN q : q[i].op = "set" /\ q[i].nonce = s.nonce => q[i].value[k] = None
                BY DEF Covers
            <4>2. ASSUME NEW i \in DOMAIN p, p[i].op = "set", p[i].nonce = s.nonce
                  PROVE  p[i].value[k] = None
                BY <1>4, <4>1, <4>2
            <4>3. rec2[s.nonce] = IF ok /\ s.nonce = c.nonce THEN c.value ELSE rec[s.nonce]
                BY <2>5 DEF Stored, c
            <4>4. s.nonce = c.nonce => c.value[k] = None
                BY <1>2, <1>3, <4>1
            <4>5. rec2[s.nonce][k] = None
                BY <4>1, <4>3, <4>4
            <4> QED  BY <4>2, <4>5
        <3>4. ToldWhatIs(e, s, q, ans, rec) => ToldWhatIs(e, s, p, ans, rec2)
            <4> SUFFICES ASSUME ToldWhatIs(e, s, q, ans, rec)
                         PROVE  ToldWhatIs(e, s, p, ans, rec2)
                OBVIOUS
            <4>1. ASSUME NEW i \in DOMAIN p, NEW j \in DOMAIN p,
                         IsGet(p[i], e), p[i].epoch = s.epoch, i < j
                  PROVE  ~Concerns(e, s.nonce, p[j])
                BY <1>4, <4>1 DEF ToldWhatIs
            <4>2. \A i \in DOMAIN ans : ~(IsGet(ans[i], e) /\ ans[i].epoch = s.epoch)
                BY <3>1 DEF ToldWhatIs
            <4> QED  BY <4>1, <4>2 DEF ToldWhatIs
        <3>5. OutdatedGet(e, s, p, ans) => OutdatedGet(e, s, q, ans)
            BY <1>4 DEF OutdatedGet
        <3>6. UnreadIsEmpty(e, s, u, p, ans, rec2)
            BY <2>1, <3>2, <3>5 DEF Unbroken, UnreadIsEmpty
        <3> QED  BY <2>1, <2>2, <3>2, <3>3, <3>4, <3>6 DEF Unbroken
    <2> QED  BY <2>3, <2>4, <2>5
<1> QED  BY <1>5, <1>6, <1>7 DEF Kept, p

-----------------------------------------------------------------------------
(* What the writes keep                                                      *)

LEMMA WritesThin ==
    ASSUME NEW p, NEW q, NEW f, Thins(f, p, q), NEW rec, WritesKeep(q, rec)
    PROVE  WritesKeep(p, rec)
<1>1. /\ \A j \in DOMAIN p : f[j] \in DOMAIN q /\ p[j] = q[f[j]]
      /\ \A i, j \in DOMAIN p : i < j => f[i] < f[j]
    BY DEF Thins
<1> SUFFICES ASSUME NEW i \in DOMAIN p, p[i].op = "set", NEW k \in Keys,
                    p[i].value[k] = None, k \notin p[i].free
             PROVE  /\ rec[p[i].nonce][k] = None
                    /\ \A j \in DOMAIN p :
                          j < i /\ p[j].op = "set" /\ p[j].nonce = p[i].nonce => p[j].value[k] = None
    BY DEF WritesKeep
<1>2. f[i] \in DOMAIN q /\ p[i] = q[f[i]]
    BY <1>1
<1>3. /\ rec[q[f[i]].nonce][k] = None
      /\ \A j \in DOMAIN q :
            j < f[i] /\ q[j].op = "set" /\ q[j].nonce = q[f[i]].nonce => q[j].value[k] = None
    BY <1>2 DEF WritesKeep
<1>4. ASSUME NEW j \in DOMAIN p, j < i, p[j].op = "set", p[j].nonce = p[i].nonce
      PROVE  p[j].value[k] = None
    <2>1. f[j] \in DOMAIN q /\ p[j] = q[f[j]] /\ f[j] < f[i]
        BY <1>1, <1>4
    <2> QED  BY <1>2, <1>3, <1>4, <2>1
<1> QED  BY <1>2, <1>3, <1>4

\* A call is added: a read, or a write that leaves out nothing that is stored.
LEMMA WritesAdd ==
    ASSUME NEW S, NEW q \in Seq(S), NEW c \in S, NEW rec, WritesKeep(q, rec),
           c.op = "set" =>
              \A k \in Keys : c.value[k] = None /\ k \notin c.free =>
                 /\ rec[c.nonce][k] = None
                 /\ \A i \in DOMAIN q : q[i].op = "set" /\ q[i].nonce = c.nonce => q[i].value[k] = None
    PROVE  WritesKeep(Append(q, c), rec)
<1> DEFINE p == Append(q, c)
<1>1. /\ Len(q) + 1 \in DOMAIN p /\ p[Len(q) + 1] = c
      /\ \A j \in DOMAIN q : j \in DOMAIN p /\ p[j] = q[j] /\ j < Len(q) + 1
      /\ \A j \in DOMAIN p : j \in DOMAIN q \/ j = Len(q) + 1
      /\ \A j \in DOMAIN p : j \in Nat
      /\ Len(q) \in Nat
    BY AppendAdds
<1> HIDE DEF p
<1>2. ASSUME NEW i \in DOMAIN p, p[i].op = "set", NEW k \in Keys,
             p[i].value[k] = None, k \notin p[i].free
      PROVE  /\ rec[p[i].nonce][k] = None
             /\ \A j \in DOMAIN p :
                   j < i /\ p[j].op = "set" /\ p[j].nonce = p[i].nonce => p[j].value[k] = None
    <2>1. CASE i \in DOMAIN q
        <3>1. p[i] = q[i] /\ \A j \in DOMAIN p : j < i => j \in DOMAIN q /\ p[j] = q[j]
            BY <1>1, <2>1
        <3>2. /\ rec[q[i].nonce][k] = None
              /\ \A j \in DOMAIN q :
                    j < i /\ q[j].op = "set" /\ q[j].nonce = q[i].nonce => q[j].value[k] = None
            BY <1>2, <2>1, <3>1 DEF WritesKeep
        <3> QED  BY <3>1, <3>2
    <2>2. CASE i = Len(q) + 1
        <3>1. p[i] = c /\ \A j \in DOMAIN p : j < i => j \in DOMAIN q /\ p[j] = q[j]
            BY <1>1, <2>2
        <3>2. /\ rec[c.nonce][k] = None
              /\ \A j \in DOMAIN q : q[j].op = "set" /\ q[j].nonce = c.nonce => q[j].value[k] = None
            BY <1>2, <3>1
        <3> QED  BY <3>1, <3>2
    <2> QED  BY <1>1, <2>1, <2>2
<1> QED  BY <1>2 DEF WritesKeep, p

\* The first write changes the record.
LEMMA WritesStore ==
    ASSUME NEW S, NEW q \in Seq(S), q # <<>>, NEW ok, NEW rec, NEW rec2, WritesKeep(q, rec),
           \A i \in DOMAIN q : q[i].nonce \in Nonces,
           Head(q).op = "set", Stored(Head(q), ok, rec, rec2)
    PROVE  WritesKeep(Tail(q), rec2)
<1> DEFINE p == Tail(q)
           c == Head(q)
<1>1. PICK f : Thins(f, p, q) /\ \A j \in DOMAIN p : 1 < f[j]
    BY TailThins
<1>2. 1 \in DOMAIN q /\ c = q[1]
    BY TailThins
<1>3. c.op = "set" /\ Stored(c, ok, rec, rec2)
    BY DEF c
<1> HIDE DEF p, c
<1>4. WritesKeep(p, rec)
    BY <1>1, WritesThin
<1> SUFFICES ASSUME NEW i \in DOMAIN p, p[i].op = "set", NEW k \in Keys,
                    p[i].value[k] = None, k \notin p[i].free
             PROVE  rec2[p[i].nonce][k] = None
    BY <1>4 DEF WritesKeep, p
<1>5. f[i] \in DOMAIN q /\ p[i] = q[f[i]] /\ 1 < f[i]
    BY <1>1 DEF Thins
<1>6. /\ rec[q[f[i]].nonce][k] = None
      /\ \A j \in DOMAIN q :
            j < f[i] /\ q[j].op = "set" /\ q[j].nonce = q[f[i]].nonce => q[j].value[k] = None
    BY <1>5 DEF WritesKeep
<1>7. c.nonce = p[i].nonce => c.value[k] = None
    BY <1>2, <1>3, <1>5, <1>6
<1>8. rec2[p[i].nonce] = IF ok /\ p[i].nonce = c.nonce THEN c.value ELSE rec[p[i].nonce]
    BY <1>3, <1>5 DEF Stored
<1> QED  BY <1>5, <1>6, <1>7, <1>8

-----------------------------------------------------------------------------
(* Types                                                                     *)

LEMMA FreshTypes ==
    /\ Empty \in Caches /\ \A k \in Keys : Empty[k] = None
    /\ Fresh \in ViewerStates /\ Gone \in ViewerStates /\ Unseen \in Histories
    /\ \A k \in Keys : None \in Values \cup {None}
BY DEF Empty, Caches, Fresh, Gone, ViewerStates, Unseen, Histories

LEMMA WriteTypes ==
    ASSUME ViewerTypes, NEW e \in Elements, NEW n \in Nonces, NEW v \in Caches
    PROVE  /\ Write(e, n, v) \in Calls
           /\ Write(e, n, v).el = e /\ Write(e, n, v).op = "set" /\ Write(e, n, v).nonce = n
           /\ Write(e, n, v).value = v
           /\ Write(e, n, v).free = IF seen[e].unbroken THEN seen[e].removed ELSE Keys
<1>1. seen[e] \in Histories
    BY DEF ViewerTypes
<1>2. (IF seen[e].unbroken THEN seen[e].removed ELSE Keys) \in SUBSET Keys
    BY <1>1 DEF Histories
<1> QED  BY <1>2 DEF Write, Calls, Sets

LEMMA ReadTypes ==
    ASSUME NEW e \in Elements, NEW by \in {"hydrate", "reread"}, NEW s \in ViewerStates,
           s.nonce \in Nonces
    PROVE  /\ Read(e, by, s) \in Calls
           /\ Read(e, by, s).el = e /\ Read(e, by, s).op = "get" /\ Read(e, by, s).by = by
           /\ Read(e, by, s).nonce = s.nonce /\ Read(e, by, s).epoch = s.epoch
BY FreshTypes DEF Read, Calls, Gets, ViewerStates

\* An id that an element holds is no other element's.
LEMMA OwnId ==
    ASSUME Owned, NEW e \in Elements, NEW x \in Elements, x # e, vs[e].nonce # None
    PROVE  vs[x].nonce # vs[e].nonce
BY DEF Owned

LEMMA ActiveLives ==
    ASSUME Owned, NEW e \in Elements, isActive(e) \/ HasRead(e) \/ vs[e].timer
    PROVE  vs[e].live
<1>1. Gone.nonce = None /\ ~Gone.hydrated /\ ~Gone.promise /\ ~Gone.timer
    BY DEF Gone, Fresh
<1> QED  BY <1>1 DEF Owned, isActive, HasRead

\* The object changes, its id does not.
LEMMA OwnedSame ==
    ASSUME Owned, vs \in [Elements -> ViewerStates], NEW e \in Elements, NEW t,
           vs' = [vs EXCEPT ![e] = t], t.nonce = vs[e].nonce, t.live, owner' = owner
    PROVE  Owned'
<1>1. vs'[e] = t /\ \A x \in Elements : x # e => vs'[x] = vs[x]
    OBVIOUS
<1>2. ASSUME NEW x \in Elements
      PROVE  /\ vs'[x].nonce # None => owner'[vs'[x].nonce] = x
             /\ ~vs'[x].live => vs'[x] = Gone
    <2>1. CASE x = e
        BY <1>1, <2>1 DEF Owned
    <2>2. CASE x # e
        BY <1>1, <2>2 DEF Owned
    <2> QED  BY <2>1, <2>2
<1> QED  BY <1>2 DEF Owned

\* The calls that others send leave what e waits for alone.
LEMMA OthersAdd ==
    ASSUME ViewerInv, NEW e \in Elements, NEW x \in Elements, x # e,
           NEW c \in Calls, c.el = e, c.op = "set" => c.nonce = vs[e].nonce,
           NEW q \in Seq(Calls), NEW ans, Kept(x, vs[x], seen[x], q, ans, record)
    PROVE  Kept(x, vs[x], seen[x], Append(q, c), ans, record)
<1>1. ~IsGet(c, x)
    BY DEF IsGet
<1>2. c.nonce \in Nonces
    BY DEF Calls, Gets, Sets
<1>3. c.op = "set" => c.nonce # vs[x].nonce
    <2>1. c.op = "set" => vs[e].nonce # None
        BY <1>2, ViewerAssumption
    <2> QED  BY <2>1, OwnId DEF ViewerInv
<1>4. ~Concerns(x, vs[x].nonce, c)
    BY <1>3 DEF Concerns
<1> QED  BY <1>1, <1>4, KeptAdds

\* A write leaves out what its viewer removed.
LEMMA OwnWrite ==
    ASSUME ViewerTypes, NEW e \in Elements, NEW q \in Seq(Calls), WritesKeep(q, record),
           NEW n \in Nonces, NEW v \in Caches,
           seen[e].unbroken =>
              \A k \in Keys : v[k] = None /\ k \notin seen[e].removed =>
                 /\ record[n][k] = None
                 /\ \A i \in DOMAIN q : q[i].op = "set" /\ q[i].nonce = n => q[i].value[k] = None
    PROVE  WritesKeep(Append(q, Write(e, n, v)), record)
<1> DEFINE c == Write(e, n, v)
<1>1. c \in Calls /\ c.nonce = n /\ c.value = v
      /\ c.free = IF seen[e].unbroken THEN seen[e].removed ELSE Keys
    BY WriteTypes
<1> HIDE DEF c
<1>2. \A k \in Keys : c.value[k] = None /\ k \notin c.free =>
         /\ record[c.nonce][k] = None
         /\ \A i \in DOMAIN q : q[i].op = "set" /\ q[i].nonce = c.nonce => q[i].value[k] = None
    BY <1>1
<1> QED  BY <1>1, <1>2, WritesAdd DEF c

-----------------------------------------------------------------------------
(* The steps                                                                 *)

\* A step of one element: its object and history, the calls and the answers.
LEMMA OneSteps ==
    ASSUME ViewerInv, NEW e \in Elements, NEW t \in ViewerStates, NEW u \in Histories,
           NEW q \in Seq(Calls), NEW ans \in Seq(Replies),
           vs' = [vs EXCEPT ![e] = t], seen' = [seen EXCEPT ![e] = u], calls' = q, answers' = ans,
           record' = record,
           config' \in [Elements -> Nonces \cup {None}], owner' \in [Nonces -> Elements \cup {None}],
           Owned', Kept(e, t, u, q, ans, record),
           \A x \in Elements : x # e => Kept(x, vs[x], seen[x], q, ans, record),
           WritesKeep(q, record)
    PROVE  ViewerInv'
<1>1. vs \in [Elements -> ViewerStates] /\ seen \in [Elements -> Histories] /\ record \in [Nonces -> Caches]
    BY DEF ViewerInv, ViewerTypes
<1>2. /\ vs'[e] = t /\ seen'[e] = u
      /\ \A x \in Elements : x # e => vs'[x] = vs[x] /\ seen'[x] = seen[x]
    BY <1>1
<1>3. ASSUME NEW x \in Elements
      PROVE  Kept(x, vs'[x], seen'[x], calls', answers', record')
    <2>1. CASE x = e
        BY <1>2, <2>1
    <2>2. CASE x # e
        BY <1>2, <2>2
    <2> QED  BY <2>1, <2>2
<1>4. ViewerTypes'
    BY <1>1 DEF ViewerTypes
<1> QED  BY <1>3, <1>4 DEF ViewerInv

LEMMA SetKeeps ==
    ASSUME ViewerInv, NEW e \in Elements, NEW k \in Keys, NEW v \in Values \cup {None},
           isActive(e),
           NEW u \in Histories, u.unbroken = seen[e].unbroken, u.unsaved = seen[e].unsaved,
           u.removed = IF v = None THEN seen[e].removed \cup {k} ELSE seen[e].removed \ {k},
           vs' = [vs EXCEPT ![e].cache[k] = v, ![e].timer = TRUE],
           seen' = [seen EXCEPT ![e] = u],
           UNCHANGED <<config, owner, record, calls, answers>>
    PROVE  ViewerInv'
<1> DEFINE s == vs[e]
           t == [s EXCEPT !.cache[k] = v, !.timer = TRUE]
<1>1. /\ s \in ViewerStates /\ seen[e] \in Histories /\ vs \in [Elements -> ViewerStates]
      /\ config \in [Elements -> Nonces \cup {None}] /\ owner \in [Nonces -> Elements \cup {None}]
      /\ calls \in Seq(Calls) /\ answers \in Seq(Replies)
    BY DEF ViewerInv, ViewerTypes
<1>2. /\ t \in ViewerStates
      /\ t.live = s.live /\ t.nonce = s.nonce /\ t.epoch = s.epoch /\ t.hydrated = s.hydrated
      /\ t.promise = s.promise /\ t.persistedRead = s.persistedRead /\ t.waiting = s.waiting
      /\ t.timer = TRUE /\ t.cache = [s.cache EXCEPT ![k] = v]
    BY <1>1 DEF ViewerStates, Caches
<1>3. vs' = [vs EXCEPT ![e] = t]
    BY <1>1 DEF ViewerStates
<1>4. \A m \in Keys : t.cache[m] = None /\ m \notin u.removed =>
                          s.cache[m] = None /\ m \notin seen[e].removed
    <2>1. \A m \in Keys : t.cache[m] = IF m = k THEN v ELSE s.cache[m]
        BY <1>1, <1>2 DEF ViewerStates, Caches
    <2> QED  BY <2>1
<1>5. Kept(e, s, seen[e], calls, answers, record)
    BY DEF ViewerInv
<1> HIDE DEF s, t
<1>6. Kept(e, t, u, calls, answers, record)
    BY <1>2, <1>4, <1>5, Changes
<1>7. Owned'
    <2>1. t.live
        BY <1>2, ActiveLives DEF ViewerInv, s
    <2> QED  BY <1>1, <1>2, <1>3, <2>1, OwnedSame DEF ViewerInv, s
<1> QED  BY <1>1, <1>2, <1>3, <1>6, <1>7, OneSteps DEF ViewerInv

LEMMA ResetKeeps ==
    ASSUME ViewerInv, NEW e \in Elements, reset(e)
    PROVE  ViewerInv'
<1> DEFINE s == vs[e]
           h == seen[e]
           n == s.epoch + 1
           t == [s EXCEPT !.cache = Empty, !.epoch = n, !.timer = FALSE]
           u == [h EXCEPT !.removed = Keys]
           c == [Write(e, s.nonce, Empty) EXCEPT !.free = Keys]
           q == Append(calls, c)
<1>1. /\ s \in ViewerStates /\ h \in Histories /\ vs \in [Elements -> ViewerStates]
      /\ config \in [Elements -> Nonces \cup {None}] /\ owner \in [Nonces -> Elements \cup {None}]
      /\ calls \in Seq(Calls) /\ answers \in Seq(Replies)
    BY DEF ViewerInv, ViewerTypes
<1>2. /\ t \in ViewerStates
      /\ t.live = s.live /\ t.nonce = s.nonce /\ t.epoch = s.epoch + 1 /\ t.hydrated = s.hydrated
      /\ t.promise = s.promise /\ t.persistedRead = s.persistedRead /\ t.waiting = s.waiting
      /\ t.timer = FALSE /\ t.cache = Empty
    <2>1. n \in Nat
        BY <1>1 DEF ViewerStates
    <2> HIDE DEF n
    <2>2. /\ t \in ViewerStates
          /\ t.live = s.live /\ t.nonce = s.nonce /\ t.epoch = n /\ t.hydrated = s.hydrated
          /\ t.promise = s.promise /\ t.persistedRead = s.persistedRead /\ t.waiting = s.waiting
          /\ t.timer = FALSE /\ t.cache = Empty
        BY <1>1, <2>1, FreshTypes DEF ViewerStates
    <2> QED  BY <2>2 DEF n
<1>3. u \in Histories /\ u.unbroken = h.unbroken /\ u.unsaved = h.unsaved /\ u.removed = Keys
    BY <1>1 DEF Histories
<1>4. /\ vs' = [vs EXCEPT ![e] = t] /\ seen' = [seen EXCEPT ![e] = u] /\ calls' = q
      /\ UNCHANGED <<config, owner, record, answers>>
    BY <1>1 DEF reset, ViewerStates, Histories
<1>5. s.nonce \in Nonces
    BY <1>1 DEF reset, isActive, ViewerStates
<1>6. /\ c \in Calls /\ c.op = "set" /\ c.el = e /\ c.nonce = s.nonce /\ c.value = Empty
      /\ c.free = Keys
    BY <1>5, FreshTypes DEF Write, Calls, Sets
<1>7. Kept(e, s, h, calls, answers, record)
    BY DEF ViewerInv
<1>8. s.epoch \in Nat
    BY <1>1 DEF ViewerStates
<1> HIDE DEF s, t, h, u, c
<1>9. q \in Seq(Calls)
    BY <1>1, <1>6, AppendAdds
<1>10. \A j \in DOMAIN q : (j \in DOMAIN calls /\ q[j] = calls[j]) \/ q[j] = c
    BY <1>1, <1>6, AppendAdds
<1> HIDE DEF q
<1>11. Kept(e, t, u, q, answers, record)
    <2>1. Expected(e, t, calls) /\ Expected(e, t, answers)
        <3>1. ASSUME NEW i \in DOMAIN calls, IsGet(calls[i], e)
              PROVE  Awaits(t, calls[i])
            <4>1. Awaits(s, calls[i])
                BY <1>7, <3>1 DEF Kept, Flow, Expected
            <4>2. calls[i] \in Calls
                BY <1>1, ElementOfSeq, LenProperties
            <4>3. calls[i].epoch \in Nat
                BY <4>2 DEF Calls, Gets, Sets
            <4> QED  BY <1>2, <1>8, <4>1, <4>3 DEF Awaits
        <3>2. ASSUME NEW i \in DOMAIN answers, IsGet(answers[i], e)
              PROVE  Awaits(t, answers[i])
            <4>1. Awaits(s, answers[i])
                BY <1>7, <3>2 DEF Kept, Flow, Expected
            <4>2. answers[i] \in Replies
                BY <1>1, ElementOfSeq, LenProperties
            <4>3. answers[i].epoch \in Nat
                BY <4>2 DEF Replies
            <4> QED  BY <1>2, <1>8, <4>1, <4>3 DEF Awaits
        <3> QED  BY <3>1, <3>2 DEF Expected
    <2>2. Flow(e, t, calls, answers)
        BY <1>2, <1>7, <2>1 DEF Kept, Flow
    <2>3. ResetRemoves(t, u) /\ Covers(t, u, calls, record)
        BY <1>3 DEF ResetRemoves, Covers
    <2>4. u.unbroken => OfItsId(e, t, calls, answers)
        BY <1>2, <1>3, <1>7 DEF Kept, Unbroken, OfItsId
    <2>5. ToldWhatIs(e, t, q, answers, record)
        <3>1. \A i \in DOMAIN q : ~(IsGet(q[i], e) /\ q[i].epoch = t.epoch)
            <4>1. \A i \in DOMAIN calls : ~(IsGet(calls[i], e) /\ calls[i].epoch = t.epoch)
                BY <1>2, <1>7, <1>8 DEF Kept, Flow, Expected, Awaits
            <4>2. ~IsGet(c, e)
                BY <1>6 DEF IsGet
            <4> QED  BY <1>10, <4>1, <4>2
        <3>2. \A i \in DOMAIN answers : ~(IsGet(answers[i], e) /\ answers[i].epoch = t.epoch)
            BY <1>2, <1>7, <1>8 DEF Kept, Flow, Expected, Awaits
        <3> QED  BY <3>1, <3>2 DEF ToldWhatIs
    <2> QED  BY <1>1, <1>2, <1>6, <2>2, <2>3, <2>4, <2>5, Writes DEF q
<1>12. ASSUME NEW x \in Elements, x # e
       PROVE  Kept(x, vs[x], seen[x], q, answers, record)
    <2>1. Kept(x, vs[x], seen[x], calls, answers, record)
        BY <1>12 DEF ViewerInv
    <2> QED  BY <1>1, <1>6, <1>12, <2>1, OthersAdd DEF q, s
<1>13. WritesKeep(q, record)
    <2>1. WritesKeep(calls, record)
        BY DEF ViewerInv
    <2> QED  BY <1>1, <1>6, <2>1, WritesAdd DEF q
<1>14. Owned'
    <2>1. t.live
        BY <1>2, ActiveLives DEF ViewerInv, reset, s
    <2> QED  BY <1>1, <1>2, <1>4, <2>1, OwnedSame DEF ViewerInv, s
<1> QED  BY <1>1, <1>2, <1>3, <1>4, <1>9, <1>11, <1>12, <1>13, <1>14, OneSteps

\* A flush that starts: it waits for the record, asks for it again, or writes.
LEMMA TimerKeeps ==
    ASSUME ViewerInv, NEW e \in Elements, TimerFires(e)
    PROVE  ViewerInv'
<1> DEFINE s == vs[e]
           h == seen[e]
           t == [FlushState(s) EXCEPT !.timer = FALSE]
           u == [h EXCEPT !.unbroken = @ /\ isActive(e)]
           q == calls \o FlushCalls(e, s)
<1>1. /\ s \in ViewerStates /\ h \in Histories /\ vs \in [Elements -> ViewerStates]
      /\ config \in [Elements -> Nonces \cup {None}] /\ owner \in [Nonces -> Elements \cup {None}]
      /\ calls \in Seq(Calls) /\ answers \in Seq(Replies)
    BY DEF ViewerInv, ViewerTypes
<1>2. Kept(e, s, h, calls, answers, record) /\ WritesKeep(calls, record)
    BY DEF ViewerInv
<1>3. /\ vs' = [vs EXCEPT ![e] = t] /\ seen' = [seen EXCEPT ![e] = u] /\ calls' = q
      /\ UNCHANGED <<config, owner, record, answers>>
    BY <1>1 DEF TimerFires, Histories
<1>4. /\ u \in Histories /\ u.unsaved = h.unsaved /\ u.removed = h.removed
      /\ u.unbroken = (h.unbroken /\ s.nonce # None)
    <2>1. PICK b \in BOOLEAN : h.unbroken = b
        BY <1>1 DEF Histories
    <2>2. (b /\ isActive(e)) \in BOOLEAN
        OBVIOUS
    <2>3. u = [h EXCEPT !.unbroken = b /\ isActive(e)]
        BY <2>1
    <2> QED  BY <1>1, <2>1, <2>2, <2>3 DEF Histories, isActive
<1>5. s.timer
    BY DEF TimerFires
<1>6. s.live
    BY <1>5, ActiveLives DEF ViewerInv
<1>7. calls \o <<>> = calls
    BY <1>1, ConcatEmptySeq
<1>8. \A c \in Calls : calls \o <<c>> = Append(calls, c) /\ Append(calls, c) \in Seq(Calls)
    BY <1>1, AppendIsConcat, AppendAdds
<1>9. \A c \in Calls, x \in Elements :
         c.el = e /\ (c.op = "set" => c.nonce = s.nonce) /\ x # e =>
             Kept(x, vs[x], seen[x], Append(calls, c), answers, record)
    BY <1>1, OthersAdd DEF ViewerInv
<1>10. \A x \in Elements : Kept(x, vs[x], seen[x], calls, answers, record)
    BY DEF ViewerInv
<1> HIDE DEF s, t, h, u, q
<1>11. CASE s.nonce = None
    <2>1. t = [s EXCEPT !.timer = FALSE] /\ q = calls
        BY <1>7, <1>11 DEF FlushState, FlushCalls, t, q
    <2>2. /\ t \in ViewerStates
          /\ t.live = s.live /\ t.nonce = s.nonce /\ t.epoch = s.epoch /\ t.hydrated = s.hydrated
          /\ t.promise = s.promise /\ t.persistedRead = s.persistedRead /\ t.waiting = s.waiting
          /\ t.cache = s.cache
        BY <1>1, <2>1 DEF ViewerStates
    <2>3. Kept(e, t, u, q, answers, record)
        BY <1>2, <1>4, <1>11, <2>1, <2>2, Breaks
    <2>4. Owned'
        BY <1>1, <1>3, <1>6, <2>2, OwnedSame DEF ViewerInv, s
    <2> QED  BY <1>1, <1>2, <1>3, <1>4, <1>10, <2>1, <2>2, <2>3, <2>4, OneSteps
<1>12. CASE s.nonce # None /\ ~s.hydrated
    <2> DEFINE c == Read(e, "hydrate", s)
    <2>1. t = [s EXCEPT !.promise = TRUE, !.waiting = s.waiting \cup {s.nonce}, !.timer = FALSE]
        BY <1>1, <1>12 DEF FlushState, Hydrating, CanHydrate, ViewerStates, t
    <2>2. s.nonce \in Nonces
        BY <1>1, <1>12 DEF ViewerStates
    <2>3. /\ t \in ViewerStates
          /\ t.live = s.live /\ t.nonce = s.nonce /\ t.epoch = s.epoch /\ t.hydrated = s.hydrated
          /\ t.promise = TRUE /\ t.persistedRead = s.persistedRead
          /\ t.waiting = s.waiting \cup {s.nonce} /\ t.cache = s.cache
        BY <1>1, <2>1, <2>2 DEF ViewerStates
    <2>4. ~s.persistedRead
        BY <1>2, <1>12 DEF Kept, Flow
    <2>5. Kept(e, t, h, calls, answers, record)
        BY <1>2, <1>12, <2>3, <2>4, Waits DEF Alike
    <2>6. u.unbroken = h.unbroken
        BY <1>1, <1>4, <1>12 DEF Histories
    <2>7. Kept(e, t, u, calls, answers, record)
        <3>1. u = h
            BY <1>1, <1>4, <2>6 DEF Histories
        <3> QED  BY <2>5, <3>1
    <2>8. Owned'
        BY <1>1, <1>3, <1>6, <2>3, OwnedSame DEF ViewerInv, s
    <2>9. CASE s.promise
        <3>1. q = calls
            BY <1>7, <1>12, <2>9 DEF FlushCalls, q
        <3> QED  BY <1>1, <1>2, <1>3, <1>4, <1>10, <2>3, <2>7, <2>8, <3>1, OneSteps
    <2>10. CASE ~s.promise
        <3>1. /\ c \in Calls /\ c.el = e /\ c.op = "get" /\ c.by = "hydrate"
              /\ c.nonce = s.nonce /\ c.epoch = s.epoch
            BY <1>1, <2>2, ReadTypes
        <3>2. q = calls \o <<c>>
            BY <1>12, <2>10 DEF FlushCalls, q
        <3> HIDE DEF c
        <3>3. q = Append(calls, c) /\ q \in Seq(Calls)
            BY <1>8, <3>1, <3>2
        <3>4. /\ \A j \in DOMAIN calls : ~Hydrates(calls[j], e)
              /\ \A j \in DOMAIN answers : ~Hydrates(answers[j], e)
            BY <1>2, <2>10 DEF Kept, Flow, Expected, Awaits, Hydrates
        <3>5. s.epoch \in Nat
            BY <1>1 DEF ViewerStates
        <3>6. Kept(e, t, u, q, answers, record)
            BY <1>1, <2>3, <2>4, <2>7, <3>1, <3>3, <3>4, <3>5, Asks
        <3>7. \A x \in Elements : x # e => Kept(x, vs[x], seen[x], q, answers, record)
            BY <1>9, <3>1, <3>3
        <3>8. WritesKeep(q, record)
            BY <1>1, <1>2, <3>1, <3>3, WritesAdd
        <3> QED  BY <1>1, <1>3, <1>4, <2>3, <2>8, <3>3, <3>6, <3>7, <3>8, OneSteps
    <2> QED  BY <2>9, <2>10
<1>13. CASE s.nonce # None /\ s.hydrated
    <2>1. t = [s EXCEPT !.timer = FALSE]
        BY <1>13 DEF FlushState, t
    <2>2. /\ t \in ViewerStates
          /\ t.live = s.live /\ t.nonce = s.nonce /\ t.epoch = s.epoch /\ t.hydrated = s.hydrated
          /\ t.promise = s.promise /\ t.persistedRead = s.persistedRead /\ t.waiting = s.waiting
          /\ t.cache = s.cache
        BY <1>1, <2>1 DEF ViewerStates
    <2>3. u = h
        <3>1. u.unbroken = h.unbroken
            BY <1>1, <1>4, <1>13 DEF Histories
        <3> QED  BY <1>1, <1>4, <3>1 DEF Histories
    <2>4. Owned'
        BY <1>1, <1>3, <1>6, <2>2, OwnedSame DEF ViewerInv, s
    <2>5. s.nonce \in Nonces /\ s.epoch \in Nat /\ s.cache \in Caches
        BY <1>1, <1>13 DEF ViewerStates
    <2>6. CASE ~s.persistedRead
        <3> DEFINE c == Read(e, "reread", s)
        <3>1. /\ c \in Calls /\ c.el = e /\ c.op = "get" /\ c.by = "reread"
              /\ c.nonce = s.nonce /\ c.epoch = s.epoch
            BY <1>1, <2>5, ReadTypes
        <3>2. q = calls \o <<c>>
            BY <1>13, <2>6 DEF FlushCalls, q
        <3> HIDE DEF c
        <3>3. q = Append(calls, c) /\ q \in Seq(Calls)
            BY <1>8, <3>1, <3>2
        <3>4. Kept(e, t, u, calls, answers, record)
            <4>1. ~s.promise /\ s.waiting = {}
                BY <1>2, <1>13 DEF Kept, Flow
            <4> QED  BY <1>2, <1>13, <2>2, <2>3, <2>6, <4>1, Waits DEF Alike
        <3>5. Kept(e, t, u, q, answers, record)
            BY <1>1, <1>13, <2>2, <2>5, <2>6, <3>1, <3>3, <3>4, Asks
        <3>6. \A x \in Elements : x # e => Kept(x, vs[x], seen[x], q, answers, record)
            BY <1>9, <3>1, <3>3
        <3>7. WritesKeep(q, record)
            BY <1>1, <1>2, <3>1, <3>3, WritesAdd
        <3> QED  BY <1>1, <1>3, <1>4, <2>2, <2>4, <3>3, <3>5, <3>6, <3>7, OneSteps
    <2>7. CASE s.persistedRead
        <3> DEFINE c == Write(e, s.nonce, s.cache)
        <3>1. c \in Calls /\ c.el = e /\ c.op = "set" /\ c.nonce = s.nonce /\ c.value = s.cache
            BY <2>5, WriteTypes DEF ViewerInv
        <3>2. q = calls \o <<c>>
            BY <1>13, <2>7 DEF FlushCalls, q
        <3>3. h.unbroken => Covers(s, h, calls, record)
            BY <1>2, <2>7 DEF Kept, Unbroken
        <3>4. WritesKeep(Append(calls, c), record)
            BY <1>1, <1>2, <2>5, <3>3, OwnWrite DEF ViewerInv, Covers, h
        <3> HIDE DEF c
        <3>5. q = Append(calls, c) /\ q \in Seq(Calls)
            BY <1>8, <3>1, <3>2
        <3>6. Kept(e, t, u, q, answers, record)
            <4>1. Expected(e, t, calls) /\ Expected(e, t, answers)
                BY <1>2, <2>2 DEF Kept, Flow, Expected, Awaits
            <4>2. Flow(e, t, calls, answers)
                BY <1>2, <2>2, <4>1 DEF Kept, Flow
            <4>3. ResetRemoves(t, u)
                BY <1>2, <2>2, <2>3 DEF Kept, ResetRemoves
            <4>4. u.unbroken => OfItsId(e, t, calls, answers) /\ Covers(t, u, calls, record)
                BY <1>2, <2>2, <2>3, <3>3 DEF Kept, Unbroken, OfItsId, Covers
            <4> QED  BY <1>1, <1>13, <2>2, <2>7, <3>1, <3>5, <4>2, <4>3, <4>4, Writes
        <3>7. \A x \in Elements : x # e => Kept(x, vs[x], seen[x], q, answers, record)
            BY <1>9, <3>1, <3>5
        <3> QED  BY <1>1, <1>3, <1>4, <2>2, <2>4, <3>4, <3>5, <3>6, <3>7, OneSteps
    <2> QED  BY <2>6, <2>7
<1> QED  BY <1>11, <1>12, <1>13

\* Whoever else holds an id keeps it.
LEMMA OwnerAfterTypes ==
    ASSUME owner \in [Nonces -> Elements \cup {None}], NEW e \in Elements, NEW n \in Nonces \cup {None},
           n # None => owner[n] \in {e, None}
    PROVE  /\ OwnerAfter(e, n) \in [Nonces -> Elements \cup {None}]
           /\ n # None => OwnerAfter(e, n)[n] = e
           /\ \A m \in Nonces, x \in Elements : x # e /\ owner[m] = x => OwnerAfter(e, n)[m] = x
<1>1. None \notin Elements
    BY ViewerAssumption
<1>2. \A m \in Nonces : OwnerAfter(e, n)[m] = IF m = n THEN e ELSE IF owner[m] = e THEN None ELSE owner[m]
    BY DEF OwnerAfter
<1>3. OwnerAfter(e, n) \in [Nonces -> Elements \cup {None}]
    BY DEF OwnerAfter
<1>4. n # None => OwnerAfter(e, n)[n] = e
    BY <1>2
<1>5. ASSUME NEW m \in Nonces, NEW x \in Elements, x # e, owner[m] = x
      PROVE  OwnerAfter(e, n)[m] = x
    <2>1. m # n
        BY <1>1, <1>5, ViewerAssumption
    <2> QED  BY <1>2, <1>5, <2>1
<1> QED  BY <1>3, <1>4, <1>5

LEMMA OwnedAfter ==
    ASSUME ViewerInv, NEW e \in Elements, NEW t \in ViewerStates, vs' = [vs EXCEPT ![e] = t],
           t.live \/ t = Gone, t.nonce # None => owner[t.nonce] \in {e, None},
           owner' = OwnerAfter(e, t.nonce)
    PROVE  Owned' /\ owner' \in [Nonces -> Elements \cup {None}]
<1>1. /\ owner \in [Nonces -> Elements \cup {None}] /\ vs \in [Elements -> ViewerStates]
      /\ t.nonce \in Nonces \cup {None}
    BY DEF ViewerInv, ViewerTypes, ViewerStates
<1>2. vs'[e] = t /\ \A x \in Elements : x # e => vs'[x] = vs[x]
    BY <1>1
<1>3. /\ owner' \in [Nonces -> Elements \cup {None}]
      /\ t.nonce # None => owner'[t.nonce] = e
      /\ \A m \in Nonces, x \in Elements : x # e /\ owner[m] = x => owner'[m] = x
    BY <1>1, OwnerAfterTypes
<1>4. ASSUME NEW x \in Elements
      PROVE  /\ vs'[x].nonce # None => owner'[vs'[x].nonce] = x
             /\ ~vs'[x].live => vs'[x] = Gone
    <2>1. CASE x = e
        BY <1>2, <1>3, <2>1
    <2>2. CASE x # e
        <3>1. vs[x] \in ViewerStates
            BY <1>1
        <3>2. vs[x].nonce # None => vs[x].nonce \in Nonces /\ owner[vs[x].nonce] = x
            BY <3>1 DEF ViewerInv, Owned, ViewerStates
        <3>3. ~vs[x].live => vs[x] = Gone
            BY DEF ViewerInv, Owned
        <3> QED  BY <1>2, <1>3, <2>2, <3>2, <3>3
    <2> QED  BY <2>1, <2>2
<1> QED  BY <1>3, <1>4 DEF Owned

LEMMA DisposeKeeps ==
    ASSUME ViewerInv, NEW e \in Elements, dispose(e)
    PROVE  ViewerInv'
<1> DEFINE s == vs[e]
           h == seen[e]
<1>1. /\ s \in ViewerStates /\ h \in Histories /\ vs \in [Elements -> ViewerStates]
      /\ config \in [Elements -> Nonces \cup {None}] /\ owner \in [Nonces -> Elements \cup {None}]
      /\ calls \in Seq(Calls) /\ answers \in Seq(Replies)
    BY DEF ViewerInv, ViewerTypes
<1>2. PICK q \in Without(e, calls) : calls' = q \o DisposeCalls(e)
    BY DEF dispose
<1>3. PICK ans \in Without(e, answers) : answers' = ans
    BY DEF dispose
<1>4. q \in Seq(Calls) /\ ans \in Seq(Replies)
    BY <1>1, WithoutThins
<1>5. PICK f : /\ Thins(f, q, calls)
               /\ \A j \in DOMAIN q : OfOthers(e, q[j])
               /\ \A i \in DOMAIN calls : OfOthers(e, calls[i]) => Keeps(f, q, i)
    BY <1>1, WithoutThins
<1>6. PICK g : /\ Thins(g, ans, answers)
               /\ \A j \in DOMAIN ans : OfOthers(e, ans[j])
               /\ \A i \in DOMAIN answers : OfOthers(e, answers[i]) => Keeps(g, ans, i)
    BY <1>1, WithoutThins
<1>7. ASSUME NEW x \in Elements
      PROVE  Kept(x, vs[x], seen[x], q, ans, record)
    <2>1. \A i \in DOMAIN calls : Concerns(x, vs[x].nonce, calls[i]) => Keeps(f, q, i)
        BY <1>5 DEF Concerns, OfOthers
    <2>2. Kept(x, vs[x], seen[x], calls, answers, record)
        BY DEF ViewerInv
    <2> QED  BY <1>1, <1>4, <1>5, <1>6, <2>1, <2>2, KeptThins
<1>8. WritesKeep(q, record)
    BY <1>5, WritesThin DEF ViewerInv
<1>9. /\ vs' = [vs EXCEPT ![e] = Gone] /\ seen' = [seen EXCEPT ![e] = Unseen]
      /\ UNCHANGED <<config, record>>
    BY DEF dispose
<1>10. Gone \in ViewerStates /\ Unseen \in Histories /\ Gone.nonce = None
    BY FreshTypes DEF Gone, Fresh
<1>11. Owned' /\ owner' \in [Nonces -> Elements \cup {None}]
    BY <1>9, <1>10, OwnedAfter DEF dispose
<1>12. /\ \A j \in DOMAIN q : ~IsGet(q[j], e)
       /\ \A j \in DOMAIN ans : ~IsGet(ans[j], e)
    BY <1>5, <1>6 DEF OfOthers, IsGet
<1>13. CASE DisposeCalls(e) = <<>>
    <2>1. calls' = q
        BY <1>2, <1>4, <1>13, ConcatEmptySeq
    <2>2. Kept(e, Gone, Unseen, q, ans, record)
        BY <1>12, Forgets
    <2> QED  BY <1>1, <1>3, <1>4, <1>7, <1>8, <1>9, <1>10, <1>11, <2>1, <2>2, OneSteps
<1>14. CASE DisposeCalls(e) # <<>>
    <2> DEFINE c == Write(e, s.nonce, s.cache)
               p == Append(q, c)
    <2>1. s.nonce # None /\ s.persistedRead /\ DisposeCalls(e) = <<c>>
        BY <1>14 DEF DisposeCalls, isActive
    <2>2. s.nonce \in Nonces /\ s.cache \in Caches
        BY <1>1, <2>1 DEF ViewerStates
    <2>3. c \in Calls /\ c.el = e /\ c.op = "set" /\ c.nonce = s.nonce /\ c.value = s.cache
        BY <2>2, WriteTypes DEF ViewerInv
    <2>4. h.unbroken => Covers(s, h, q, record)
        BY <1>7, <2>1 DEF Kept, Unbroken
    <2>5. WritesKeep(p, record)
        BY <1>4, <1>8, <2>2, <2>4, OwnWrite DEF ViewerInv, Covers
    <2> HIDE DEF c
    <2>6. calls' = p /\ p \in Seq(Calls)
        BY <1>2, <1>4, <2>1, <2>3, AppendIsConcat, AppendAdds
    <2>7. \A j \in DOMAIN p : ~IsGet(p[j], e)
        <3>1. \A j \in DOMAIN p : (j \in DOMAIN q /\ p[j] = q[j]) \/ p[j] = c
            BY <1>4, <2>3, AppendAdds
        <3>2. ~IsGet(c, e)
            BY <2>3 DEF IsGet
        <3> QED  BY <1>12, <3>1, <3>2
    <2>8. \A x \in Elements : x # e => Kept(x, vs[x], seen[x], p, ans, record)
        BY <1>4, <1>7, <2>3, OthersAdd
    <2> HIDE DEF p
    <2>9. Kept(e, Gone, Unseen, p, ans, record)
        BY <1>12, <2>7, Forgets
    <2> QED  BY <1>1, <1>3, <1>4, <1>9, <1>10, <1>11, <2>5, <2>6, <2>8, <2>9, OneSteps
<1> QED  BY <1>13, <1>14

LEMMA IdentifyKeeps ==
    ASSUME ViewerInv, NEW e \in Elements, NEW n \in Nonces \cup {None}, NEW read \in BOOLEAN,
           Identify(e, n, read)
    PROVE  ViewerInv'
<1> DEFINE r == vs[e]
           s == Identified(e, n)
           t == IF read THEN Hydrating(s) ELSE s
           h == seen[e]
           u == [h EXCEPT !.unbroken = @ /\ (HasRead(e) => s.nonce = vs[e].nonce)]
           asks == read /\ CanHydrate(s)
           c == Read(e, "hydrate", s)
<1>1. /\ r \in ViewerStates /\ h \in Histories /\ vs \in [Elements -> ViewerStates]
      /\ config \in [Elements -> Nonces \cup {None}] /\ owner \in [Nonces -> Elements \cup {None}]
      /\ calls \in Seq(Calls) /\ answers \in Seq(Replies)
    BY DEF ViewerInv, ViewerTypes
<1>2. Kept(e, r, h, calls, answers, record) /\ WritesKeep(calls, record)
    BY DEF ViewerInv
<1>3. /\ vs' = [vs EXCEPT ![e] = t] /\ seen' = [seen EXCEPT ![e] = u]
      /\ owner' = OwnerAfter(e, s.nonce)
      /\ config' = [config EXCEPT ![e] = n] /\ UNCHANGED <<record, answers>>
      /\ calls' = IF asks THEN Append(calls, c) ELSE calls
    BY <1>1 DEF Identify, Histories
<1>4. Claimed(e, n) \in Nonces \cup {None} /\ (Claimed(e, n) # None => owner[Claimed(e, n)] \in {e, None})
    BY DEF Claimed
<1>5. /\ s \in ViewerStates /\ s.live = TRUE /\ s.nonce = Claimed(e, n)
      /\ s.cache = r.cache /\ s.epoch = r.epoch /\ s.hydrated = r.hydrated /\ s.promise = r.promise
      /\ s.persistedRead = r.persistedRead /\ s.waiting = r.waiting /\ s.timer = r.timer
      /\ r.live => s = [r EXCEPT !.nonce = s.nonce]
    <2> DEFINE k == Claimed(e, n)
               b == IF r.live THEN r ELSE Fresh
    <2>1. b \in ViewerStates /\ b.live = TRUE
        BY <1>1, FreshTypes DEF Fresh, ViewerStates
    <2>2. /\ b.cache = r.cache /\ b.epoch = r.epoch /\ b.hydrated = r.hydrated /\ b.promise = r.promise
          /\ b.persistedRead = r.persistedRead /\ b.waiting = r.waiting /\ b.timer = r.timer
        <3>1. ~r.live => r = Gone
            BY DEF ViewerInv, Owned
        <3> QED  BY <3>1 DEF Gone, Fresh
    <2>3. s = [b EXCEPT !.nonce = k]
        BY DEF Identified
    <2>4. k \in Nonces \cup {None}
        BY <1>4
    <2>5. r.live => b = r
        OBVIOUS
    <2> HIDE DEF b, k, s, r
    <2>6. s.nonce = k
        BY <2>1, <2>3 DEF ViewerStates
    <2>7. r.live => s = [r EXCEPT !.nonce = s.nonce]
        BY <2>3, <2>5, <2>6
    <2> QED  BY <2>1, <2>2, <2>3, <2>4, <2>7 DEF ViewerStates, k
<1>6. /\ u \in Histories /\ u.unsaved = h.unsaved /\ u.removed = h.removed
      /\ u.unbroken = (h.unbroken /\ (HasRead(e) => s.nonce = r.nonce))
    <2>1. PICK b \in BOOLEAN : h.unbroken = b
        BY <1>1 DEF Histories
    <2>2. u = [h EXCEPT !.unbroken = b /\ (HasRead(e) => s.nonce = r.nonce)]
        BY <2>1
    <2> HIDE DEF s, u
    <2> QED  BY <1>1, <2>1, <2>2 DEF Histories
<1>7. HasRead(e) => r.live
    BY ActiveLives DEF ViewerInv
<1>8. HasRead(e) = (r.hydrated \/ r.promise)
    BY DEF HasRead
<1>9. CanHydrate(s) = (s.nonce # None /\ ~s.hydrated /\ ~s.promise)
    BY DEF CanHydrate
<1>10. t = IF asks THEN [s EXCEPT !.promise = TRUE] ELSE s
    BY <1>5 DEF Hydrating, ViewerStates
<1> HIDE DEF r, s, t, h, u, c
<1>11. /\ t \in ViewerStates /\ t.live = TRUE /\ t.nonce = s.nonce
       /\ t.cache = s.cache /\ t.epoch = s.epoch /\ t.hydrated = s.hydrated
       /\ t.persistedRead = s.persistedRead /\ t.waiting = s.waiting /\ t.timer = s.timer
       /\ t.promise = (asks \/ s.promise)
    BY <1>5, <1>10 DEF ViewerStates
<1>12. Owned' /\ owner' \in [Nonces -> Elements \cup {None}]
    BY <1>3, <1>4, <1>5, <1>11, OwnedAfter
<1>13. config' \in [Elements -> Nonces \cup {None}]
    BY <1>1, <1>3
<1>14. CASE HasRead(e)
    <2>1. ~asks
        BY <1>5, <1>8, <1>9, <1>14
    <2>2. Kept(e, t, u, calls, answers, record)
        <3>1. CASE s.nonce = r.nonce
            <4>1. s = r
                BY <1>1, <1>5, <1>7, <1>14, <3>1, SMT DEF ViewerStates
            <4>2. u.unbroken = h.unbroken
                BY <1>1, <1>6, <3>1 DEF Histories
            <4>3. u = h
                BY <1>1, <1>6, <4>2 DEF Histories
            <4> QED  BY <1>2, <1>10, <2>1, <4>1, <4>3
        <3>2. CASE s.nonce # r.nonce
            BY <1>2, <1>5, <1>6, <1>10, <1>14, <2>1, <3>2, Breaks
        <3> QED  BY <3>1, <3>2
    <2>3. calls' = calls
        BY <1>3, <2>1
    <2> QED  BY <1>1, <1>2, <1>3, <1>6, <1>11, <1>12, <1>13, <2>2, <2>3, OneSteps DEF ViewerInv
<1>15. CASE ~HasRead(e)
    <2>1. u.unbroken = h.unbroken
        BY <1>1, <1>6, <1>15 DEF Histories
    <2>2. /\ Kept(e, s, u, calls, answers, record)
          /\ \A i \in DOMAIN calls : ~IsGet(calls[i], e)
          /\ \A i \in DOMAIN answers : ~IsGet(answers[i], e)
        BY <1>2, <1>5, <1>6, <1>8, <1>15, <2>1, Renames
    <2>3. CASE ~asks
        <3>1. calls' = calls /\ t = s
            BY <1>3, <1>10, <2>3
        <3> QED  BY <1>1, <1>2, <1>3, <1>6, <1>11, <1>12, <1>13, <2>2, <3>1, OneSteps DEF ViewerInv
    <2>4. CASE asks
        <3>1. s.nonce # None /\ ~s.hydrated /\ ~s.promise
            BY <1>9, <2>4
        <3>2. s.nonce \in Nonces /\ s.epoch \in Nat
            BY <1>5, <3>1 DEF ViewerStates
        <3>3. /\ c \in Calls /\ c.el = e /\ c.op = "get" /\ c.by = "hydrate"
              /\ c.nonce = s.nonce /\ c.epoch = s.epoch
            BY <1>5, <3>2, ReadTypes DEF c
        <3>4. ~s.persistedRead
            BY <2>2, <3>1 DEF Kept, Flow
        <3>5. Kept(e, t, u, calls, answers, record)
            BY <1>11, <2>2, <2>4, <3>1, <3>4, Waits DEF Alike
        <3> DEFINE q == Append(calls, c)
        <3>6. Kept(e, t, u, q, answers, record)
            BY <1>1, <1>11, <2>2, <2>4, <3>2, <3>3, <3>4, <3>5, Asks DEF Hydrates
        <3>7. \A x \in Elements : x # e => Kept(x, vs[x], seen[x], q, answers, record)
            BY <1>1, <3>3, OthersAdd DEF ViewerInv
        <3>8. WritesKeep(q, record)
            BY <1>1, <1>2, <3>3, WritesAdd
        <3>9. calls' = q /\ q \in Seq(Calls)
            BY <1>1, <1>3, <2>4, <3>3, AppendAdds
        <3> HIDE DEF q
        <3> QED  BY <1>1, <1>3, <1>6, <1>11, <1>12, <1>13, <3>6, <3>7, <3>8, <3>9, OneSteps
    <2> QED  BY <2>3, <2>4
<1> QED  BY <1>14, <1>15

\* What _doHydrate makes of the object.
LEMMA AfterTypes ==
    ASSUME NEW e \in Elements, vs[e] \in ViewerStates, NEW a \in Replies
    PROVE  /\ AfterAnswer(e, a) \in ViewerStates
           /\ AfterAnswer(e, a).live = vs[e].live
           /\ Answers(vs[e], AfterAnswer(e, a), a)
<1> DEFINE s == vs[e]
           v == IF a.ok THEN Merged(e, a) ELSE s.cache
           p == s.persistedRead \/ a.ok
           o == s.promise /\ a.by # "hydrate"
           w == IF a.by = "hydrate" THEN {} ELSE s.waiting
           t == AfterAnswer(e, a)
<1>1. t = [s EXCEPT !.cache = v, !.persistedRead = p, !.hydrated = TRUE, !.promise = o, !.waiting = w]
    BY DEF AfterAnswer
<1>2. s.cache \in Caches /\ a.value \in Caches /\ s.waiting \in SUBSET Nonces
    BY DEF ViewerStates, Replies
<1>3. MergeUnder(a.value, s.cache) \in Caches
      /\ \A k \in Keys : MergeUnder(a.value, s.cache)[k] =
                            IF s.cache[k] # None THEN s.cache[k] ELSE a.value[k]
    BY <1>2 DEF MergeUnder, Caches
<1>4. v \in Caches
      /\ IF a.ok /\ a.epoch = s.epoch THEN v = MergeUnder(a.value, s.cache) ELSE v = s.cache
    BY <1>2, <1>3 DEF Merged
<1>5. s.cache = Empty => MergeUnder(a.value, s.cache) = a.value
    BY <1>2 DEF MergeUnder, Caches, Empty
<1>6. p \in BOOLEAN /\ o \in BOOLEAN /\ w \in SUBSET Nonces
    <2>1. s.persistedRead \in BOOLEAN /\ s.promise \in BOOLEAN
        BY DEF ViewerStates
    <2> QED  BY <1>2, <2>1
<1>7. (p <=> s.persistedRead \/ a.ok) /\ (o <=> s.promise /\ a.by # "hydrate")
    OBVIOUS
<1> HIDE DEF v, p, o, t
<1>8. /\ t \in ViewerStates /\ t.live = s.live
      /\ t.nonce = s.nonce /\ t.epoch = s.epoch /\ t.timer = s.timer /\ t.hydrated = TRUE
      /\ t.persistedRead = p /\ t.promise = o /\ t.waiting = w /\ t.cache = v
    BY <1>1, <1>4, <1>6 DEF ViewerStates
<1>9. Answers(s, t, a)
    <2>1. IF a.ok /\ a.epoch = s.epoch
          THEN /\ \A k \in Keys : t.cache[k] = IF s.cache[k] # None THEN s.cache[k] ELSE a.value[k]
               /\ s.cache = Empty => t.cache = a.value
          ELSE t.cache = s.cache
        BY <1>3, <1>4, <1>5, <1>8
    <2> QED  BY <1>7, <1>8, <2>1 DEF Answers
<1> QED  BY <1>8, <1>9 DEF t

LEMMA AnsweredKeeps ==
    ASSUME ViewerInv, NEW i \in DOMAIN answers, Answered(i)
    PROVE  ViewerInv'
<1> DEFINE a == answers[i]
           e == a.el
           s == vs[e]
           h == seen[e]
           t == AfterAnswer(e, a)
           flushes == IF a.by = "hydrate" THEN s.waiting ELSE {a.nonce}
           u == [h EXCEPT !.unbroken = @ /\ flushes \subseteq {t.nonce}]
           rest == RemoveAt(answers, i)
           writes == t.nonce \in flushes /\ t.persistedRead
           c == Write(e, t.nonce, t.cache)
<1>1. /\ vs \in [Elements -> ViewerStates]
      /\ config \in [Elements -> Nonces \cup {None}] /\ owner \in [Nonces -> Elements \cup {None}]
      /\ calls \in Seq(Calls) /\ answers \in Seq(Replies) /\ seen \in [Elements -> Histories]
    BY DEF ViewerInv, ViewerTypes
<1>2. a \in Replies
    BY <1>1, ElementOfSeq, LenProperties
<1>3. /\ e \in Elements /\ IsGet(a, e) /\ a.by \in {"hydrate", "reread"} /\ a.epoch \in Nat
      /\ a.nonce \in Nonces
    BY <1>2 DEF Replies, IsGet
<1>4. s \in ViewerStates /\ h \in Histories
    BY <1>1, <1>3
<1>5. s.epoch \in Nat
    BY <1>4 DEF ViewerStates
<1>6. Kept(e, s, h, calls, answers, record) /\ WritesKeep(calls, record)
    BY <1>3 DEF ViewerInv
<1>7. t \in ViewerStates /\ t.live = s.live /\ Answers(s, t, a)
    BY <1>2, <1>3, <1>4, AfterTypes
<1>8. /\ vs' = [vs EXCEPT ![e] = t] /\ seen' = [seen EXCEPT ![e] = u] /\ answers' = rest
      /\ calls' = IF writes THEN Append(calls, c) ELSE calls
      /\ UNCHANGED <<config, owner, record>>
    BY <1>1, <1>3 DEF Answered, Resumed, MayWrite, Histories
<1>9. /\ u \in Histories /\ u.unsaved = h.unsaved /\ u.removed = h.removed
      /\ u.unbroken => h.unbroken
    <2>1. PICK b \in BOOLEAN : h.unbroken = b
        BY <1>4 DEF Histories
    <2>2. u = [h EXCEPT !.unbroken = b /\ flushes \subseteq {t.nonce}]
        BY <2>1
    <2> HIDE DEF t, u, flushes
    <2> QED  BY <1>4, <2>1, <2>2 DEF Histories
<1>10. /\ rest \in Seq(Replies)
       /\ \E f : Thins(f, rest, answers) /\ \A j \in DOMAIN rest : f[j] # i
    BY <1>1, RemovedThins
<1> HIDE DEF rest
<1>11. PICK f : Thins(f, rest, answers) /\ \A j \in DOMAIN rest : f[j] # i
    BY <1>10
<1>12. ASSUME NEW x \in Elements
       PROVE  Kept(x, vs[x], seen[x], calls, rest, record)
    <2>1. Kept(x, vs[x], seen[x], calls, answers, record)
        BY DEF ViewerInv
    <2> DEFINE g == [j \in DOMAIN calls |-> j]
    <2>2. Thins(g, calls, calls) /\ \A j \in DOMAIN calls : Keeps(g, calls, j)
        BY DEF Thins, Keeps
    <2> HIDE DEF g
    <2> QED  BY <1>1, <1>10, <1>11, <2>1, <2>2, KeptThins
<1>13. s.live
    <2>1. HasRead(e)
        BY <1>3, <1>6 DEF Kept, Flow, Expected, Awaits, HasRead
    <2> QED  BY <1>3, <2>1, ActiveLives DEF ViewerInv
<1>14. t.nonce = s.nonce
    BY <1>7 DEF Answers
<1> HIDE DEF s, t, h, u
<1>15. Owned'
    BY <1>1, <1>3, <1>7, <1>8, <1>13, <1>14, OwnedSame DEF ViewerInv, s
<1>16. CASE ~writes
    <2>1. Kept(e, t, u, calls, rest, record)
        BY <1>1, <1>3, <1>5, <1>6, <1>7, <1>9, <1>10, <1>11, <1>16, AnswerKeeps
    <2>2. calls' = calls
        BY <1>8, <1>16
    <2> QED  BY <1>1, <1>3, <1>6, <1>7, <1>8, <1>9, <1>10, <1>12, <1>15, <2>1, <2>2, OneSteps
<1>17. CASE writes
    <2>1. t.nonce \in Nonces /\ t.cache \in Caches /\ t.persistedRead
        BY <1>3, <1>4, <1>7, <1>17 DEF ViewerStates
    <2>2. c \in Calls /\ c.el = e /\ c.op = "set" /\ c.nonce = t.nonce /\ c.value = t.cache
        BY <1>3, <2>1, WriteTypes DEF ViewerInv
    <2> DEFINE q == Append(calls, c)
    <2>3. h.unbroken => Covers(t, h, calls, record)
        BY <1>1, <1>3, <1>5, <1>6, <1>7, <2>1, AnswerCovers
    <2>4. WritesKeep(q, record)
        BY <1>1, <1>3, <1>6, <2>1, <2>3, OwnWrite DEF ViewerInv, Covers, h
    <2> HIDE DEF c
    <2>5. Kept(e, t, u, q, rest, record)
        BY <1>1, <1>3, <1>5, <1>6, <1>7, <1>9, <1>10, <1>11, <2>1, <2>2, AnswerWrites
    <2>6. \A x \in Elements : x # e => Kept(x, vs[x], seen[x], q, rest, record)
        BY <1>1, <1>3, <1>12, <1>14, <2>2, OthersAdd DEF s
    <2>7. calls' = q /\ q \in Seq(Calls)
        BY <1>1, <1>8, <1>17, <2>2, AppendAdds
    <2> HIDE DEF q
    <2> QED  BY <1>1, <1>3, <1>7, <1>8, <1>9, <1>10, <1>15, <2>4, <2>5, <2>6, <2>7, OneSteps
<1> QED  BY <1>16, <1>17

LEMMA ServerKeeps ==
    ASSUME ViewerInv, NEW ok \in BOOLEAN, ServerHandles(ok)
    PROVE  ViewerInv'
<1> DEFINE c == Head(calls)
           q == Tail(calls)
<1>1. /\ vs \in [Elements -> ViewerStates]
      /\ config \in [Elements -> Nonces \cup {None}] /\ owner \in [Nonces -> Elements \cup {None}]
      /\ calls \in Seq(Calls) /\ answers \in Seq(Replies) /\ seen \in [Elements -> Histories]
      /\ record \in [Nonces -> Caches]
    BY DEF ViewerInv, ViewerTypes
<1>2. calls # <<>> /\ calls' = q /\ UNCHANGED <<config, owner, vs>>
    BY DEF ServerHandles
<1>3. /\ q \in Seq(Calls) /\ c \in Calls
      /\ \E f : Thins(f, q, calls)
    BY <1>1, <1>2, TailThins
<1>4. c.el \in Elements /\ c.nonce \in Nonces /\ c.epoch \in Nat /\ c.op \in {"get", "set"}
    BY <1>3 DEF Calls, Gets, Sets
<1>5. Owned'
    BY <1>2 DEF ViewerInv, Owned
<1>6. CASE c.op = "get"
    <2> DEFINE v == IF ok THEN record[c.nonce] ELSE Empty
               r == [el |-> c.el, op |-> "get", by |-> c.by, nonce |-> c.nonce, epoch |-> c.epoch,
                     ok |-> ok, value |-> v]
    <2>1. answers' = Append(answers, r) /\ UNCHANGED <<record, seen>>
        BY <1>6 DEF ServerHandles
    <2>2. c.by \in {"hydrate", "reread"}
        BY <1>3, <1>6 DEF Calls, Gets, Sets
    <2>3. v \in Caches
        BY <1>1, <1>4, FreshTypes
    <2>4. r \in Replies
        <3> HIDE DEF v, c
        <3> QED  BY <1>4, <2>2, <2>3 DEF Replies
    <2>5. /\ r.el = c.el /\ r.op = "get" /\ r.by = c.by /\ r.nonce = c.nonce /\ r.epoch = c.epoch
          /\ r.ok => r.value = record[r.nonce]
        OBVIOUS
    <2> HIDE DEF r, v
    <2>6. answers' \in Seq(Replies)
        BY <1>1, <2>1, <2>4, AppendAdds
    <2>7. \A x \in Elements : Kept(x, vs[x], seen[x], q, Append(answers, r), record)
        BY <1>1, <1>2, <1>6, <2>4, <2>5, Handles DEF ViewerInv
    <2>8. WritesKeep(q, record)
        BY <1>3, WritesThin DEF ViewerInv
    <2>9. ViewerTypes'
        BY <1>1, <1>2, <1>3, <2>1, <2>6 DEF ViewerTypes
    <2> HIDE DEF q
    <2> QED  BY <1>2, <1>5, <2>1, <2>7, <2>8, <2>9 DEF ViewerInv
<1>7. CASE c.op = "set"
    <2> DEFINE h == seen[c.el]
               u == [h EXCEPT !.unsaved = vs[c.el].live /\ ~ok]
    <2>1. /\ record' = IF ok THEN [record EXCEPT ![c.nonce] = c.value] ELSE record
          /\ seen' = [seen EXCEPT ![c.el].unsaved = vs[c.el].live /\ ~ok]
          /\ UNCHANGED answers
        BY <1>7 DEF ServerHandles
    <2>2. h \in Histories /\ vs[c.el] \in ViewerStates
        BY <1>1, <1>4
    <2>3. /\ u \in Histories /\ u.removed = h.removed /\ u.unbroken = h.unbroken
          /\ u.unsaved = (vs[c.el].live /\ ~ok)
        BY <2>2 DEF Histories
    <2>4. seen' = [seen EXCEPT ![c.el] = u]
        BY <1>1, <1>4, <2>1 DEF Histories
    <2>5. c.value \in Caches
        BY <1>3 DEF Calls, Gets, Sets
    <2>6. record' \in [Nonces -> Caches] /\ Stored(c, ok, record, record')
        BY <1>1, <1>4, <2>1, <2>5 DEF Stored
    <2> HIDE DEF h, u
    <2>7. ASSUME NEW x \in Elements
          PROVE  Kept(x, vs[x], seen'[x], q, answers, record')
        <3>1. Kept(x, vs[x], seen[x], calls, answers, record)
            BY DEF ViewerInv
        <3>2. vs[x].nonce \in Nonces \cup {None}
            BY <1>1 DEF ViewerStates
        <3>3. /\ seen'[x].removed = seen[x].removed /\ seen'[x].unbroken = seen[x].unbroken
              /\ IF c.el = x THEN vs[x].nonce # None /\ ~ok => seen'[x].unsaved
                 ELSE seen'[x].unsaved = seen[x].unsaved
            <4>1. CASE x = c.el
                <5>1. seen'[x] = u /\ seen[x] = h
                    BY <1>1, <2>4, <4>1 DEF h
                <5>2. vs[x].nonce # None => vs[x].live
                    BY ActiveLives DEF ViewerInv, isActive
                <5> QED  BY <2>3, <4>1, <5>1, <5>2
            <4>2. CASE x # c.el
                <5>1. seen'[x] = seen[x]
                    BY <1>1, <2>4, <4>2
                <5> QED  BY <4>2, <5>1
            <4> QED  BY <4>1, <4>2
        <3> DEFINE z == seen'[x]
                   y == seen[x]
                   s == vs[x]
                   rec == record'
        <3> HIDE DEF z, y, s, rec
        <3>4. Kept(x, s, z, Tail(calls), answers, rec)
            BY <1>1, <1>2, <1>7, <2>6, <3>1, <3>2, <3>3, Stores DEF z, y, s, rec
        <3> QED  BY <3>4 DEF z, s, rec
    <2>8. WritesKeep(q, record')
        <3>1. \A i \in DOMAIN calls : calls[i].nonce \in Nonces
            <4>1. \A i \in DOMAIN calls : calls[i] \in Calls
                BY <1>1, ElementOfSeq, LenProperties
            <4> QED  BY <4>1 DEF Calls, Gets, Sets
        <3> DEFINE rec == record'
        <3>2. Stored(c, ok, record, rec)
            BY <2>6
        <3> HIDE DEF rec
        <3>3. WritesKeep(Tail(calls), rec)
            BY <1>1, <1>2, <1>7, <3>1, <3>2, WritesStore DEF ViewerInv
        <3> QED  BY <3>3 DEF rec
    <2>9. ViewerTypes'
        <3>1. seen' \in [Elements -> Histories]
            BY <1>1, <2>3, <2>4
        <3> QED  BY <1>1, <1>2, <1>3, <2>1, <2>6, <3>1 DEF ViewerTypes
    <2> HIDE DEF q
    <2> QED  BY <1>2, <1>5, <2>1, <2>7, <2>8, <2>9 DEF ViewerInv
<1> QED  BY <1>4, <1>6, <1>7

LEMMA ViewerInit == Init => ViewerInv
<1> SUFFICES ASSUME Init PROVE ViewerInv
    OBVIOUS
<1>1. ViewerTypes
    BY FreshTypes, EmptySeq DEF Init, ViewerTypes, Caches
<1>2. Owned
    BY DEF Init, Owned, Gone, Fresh
<1>3. WritesKeep(calls, record)
    BY DEF Init, WritesKeep
<1>4. ASSUME NEW e \in Elements
      PROVE  Kept(e, vs[e], seen[e], calls, answers, record)
    <2>1. vs[e] = Gone /\ seen[e] = Unseen /\ DOMAIN calls = {} /\ DOMAIN answers = {}
        BY DEF Init
    <2> QED  BY <2>1, Forgets
<1> QED  BY <1>1, <1>2, <1>3, <1>4 DEF ViewerInv

LEMMA ViewerNext ==
    ASSUME ViewerInv, [Next]_viewerVars
    PROVE  ViewerInv'
<1>1. CASE \E e \in Elements : ElementStep(e)
    <2>1. PICK e \in Elements : ElementStep(e)
        BY <1>1
    <2>2. ASSUME NEW n \in Nonces \cup {None}, NEW read \in BOOLEAN, Identify(e, n, read)
          PROVE  ViewerInv'
        BY <2>2, IdentifyKeeps
    <2>3. ASSUME NEW k \in Keys, NEW v \in Values, set(e, k, v)
          PROVE  ViewerInv'
        <3> DEFINE u == [seen[e] EXCEPT !.removed = @ \ {k}]
        <3>1. seen[e] \in Histories /\ seen \in [Elements -> Histories] /\ v # None
            BY ViewerAssumption DEF ViewerInv, ViewerTypes
        <3>2. /\ u \in Histories /\ u.unbroken = seen[e].unbroken /\ u.unsaved = seen[e].unsaved
              /\ u.removed = seen[e].removed \ {k}
            BY <3>1 DEF Histories
        <3>3. seen' = [seen EXCEPT ![e] = u]
            BY <2>3, <3>1 DEF set, Histories
        <3>4. u.removed = IF v = None THEN seen[e].removed \cup {k} ELSE seen[e].removed \ {k}
            BY <3>1, <3>2
        <3>5. /\ isActive(e) /\ vs' = [vs EXCEPT ![e].cache[k] = v, ![e].timer = TRUE]
              /\ UNCHANGED <<config, owner, record, calls, answers>> /\ v \in Values \cup {None}
            BY <2>3 DEF set
        <3> HIDE DEF u
        <3> QED  BY <3>2, <3>3, <3>4, <3>5, SetKeeps
    <2>4. ASSUME NEW k \in Keys, delete(e, k)
          PROVE  ViewerInv'
        <3> DEFINE u == [seen[e] EXCEPT !.removed = @ \cup {k}]
        <3>1. seen[e] \in Histories /\ seen \in [Elements -> Histories]
            BY DEF ViewerInv, ViewerTypes
        <3>2. /\ u \in Histories /\ u.unbroken = seen[e].unbroken /\ u.unsaved = seen[e].unsaved
              /\ u.removed = seen[e].removed \cup {k}
            BY <3>1 DEF Histories
        <3>3. seen' = [seen EXCEPT ![e] = u]
            BY <2>4, <3>1 DEF delete, Histories
        <3> HIDE DEF u
        <3> QED  BY <2>4, <3>1, <3>2, <3>3, SetKeeps DEF delete
    <2>5. CASE reset(e)
        BY <2>5, ResetKeeps
    <2>6. CASE TimerFires(e)
        BY <2>6, TimerKeeps
    <2>7. CASE dispose(e)
        BY <2>7, DisposeKeeps
    <2> QED  BY <2>1, <2>2, <2>3, <2>4, <2>5, <2>6, <2>7 DEF ElementStep
<1>2. CASE \E i \in DOMAIN answers : Answered(i)
    BY <1>2, AnsweredKeeps
<1>3. CASE \E ok \in BOOLEAN : ServerHandles(ok)
    BY <1>3, ServerKeeps
<1>4. CASE UNCHANGED viewerVars
    BY <1>4 DEF viewerVars, ViewerInv, ViewerTypes, Owned
<1> QED  BY <1>1, <1>2, <1>3, <1>4 DEF Next

-----------------------------------------------------------------------------
(* The properties                                                            *)

LEMMA ViewerInvKeeps ==
    ASSUME ViewerInv
    PROVE  RecordKept
<1>1. TypeOK
    BY DEF ViewerInv, ViewerTypes, Owned, TypeOK, ViewerStates, Caches
<1>2. WritesKeepRecord
    BY DEF ViewerInv, WritesKeep, WritesKeepRecord
<1>3. ASSUME NEW e \in Elements, Settled(e)
      PROVE  record[vs[e].nonce] = vs[e].cache
    <2>1. Synced(e, vs[e], seen[e], calls, record)
        BY <1>3 DEF ViewerInv, Kept, Unbroken, Settled
    <2>2. ~ \E i \in DOMAIN calls : calls[i].el = e
        BY <1>3 DEF Settled
    <2>3. ~seen[e].unsaved
        BY <1>3 DEF Settled
    <2> QED  BY <2>1, <2>2, <2>3 DEF Synced
<1>4. StoredIsShown
    BY <1>3 DEF StoredIsShown
<1> QED  BY <1>1, <1>2, <1>4 DEF RecordKept

\* Of any elements, ids, keys and calls under way: no write leaves out a stored
\* choice its viewer did not remove, and what a card shows once its calls are
\* done is what is stored (RecordKept).
THEOREM RecordKeptTheorem == Spec => []RecordKept
<1> QED
  BY ViewerInit, ViewerNext, ViewerInvKeeps, PTL DEF Spec

\* An answer leaves alone what the viewer set while it was under way, and restores
\* nothing that was there before a reset (ChoiceKept).
THEOREM ChoiceKeptTheorem == Spec => ChoiceKept
<1> DEFINE A == \A i \in DOMAIN answers :
                  LET e == answers[i].el IN
                  Answered(i) =>
                     /\ \A k \in Keys : vs[e].cache[k] # None => vs'[e].cache[k] = vs[e].cache[k]
                     /\ answers[i].epoch # vs[e].epoch => vs'[e].cache = vs[e].cache
<1>1. ASSUME ViewerInv
      PROVE  A
    <2> SUFFICES ASSUME NEW i \in DOMAIN answers, Answered(i)
                 PROVE  LET e == answers[i].el
                        IN /\ \A k \in Keys : vs[e].cache[k] # None => vs'[e].cache[k] = vs[e].cache[k]
                           /\ answers[i].epoch # vs[e].epoch => vs'[e].cache = vs[e].cache
        OBVIOUS
    <2> DEFINE a == answers[i]
               e == a.el
               t == AfterAnswer(e, a)
    <2>1. vs \in [Elements -> ViewerStates] /\ answers \in Seq(Replies)
        BY <1>1 DEF ViewerInv, ViewerTypes
    <2>2. a \in Replies
        BY <2>1, ElementOfSeq, LenProperties
    <2>3. e \in Elements /\ vs[e] \in ViewerStates
        BY <2>1, <2>2 DEF Replies
    <2>4. Answers(vs[e], t, a)
        BY <2>2, <2>3, AfterTypes
    <2>5. vs'[e] = t
        BY <2>1, <2>3 DEF Answered
    <2> HIDE DEF t
    <2> QED  BY <2>4, <2>5 DEF Answers
<1>2. Spec => []ViewerInv
    BY ViewerInit, ViewerNext, PTL DEF Spec
<1>3. ViewerInv /\ [Next]_viewerVars => [A]_viewerVars
    BY <1>1
<1> HIDE DEF A
<1>4. Spec => [][A]_viewerVars
    BY <1>2, <1>3, PTL DEF Spec
<1> QED
    BY <1>4 DEF ChoiceKept, A

-----------------------------------------------------------------------------
(* Lightning                                                                 *)

Times == 1..MaxTime \cup {Nothing}

LayerFields == {"alive", "paused", "strikes", "origin", "buffer", "bufferAt", "bufferMaxTs",
                "bufferDirty", "redrawQueued", "ageDue"}

LayerTypeOK(l) ==
    /\ DOMAIN l = LayerFields
    /\ l.strikes \in [Strikes -> Times] /\ l.buffer \subseteq Strikes /\ l.bufferMaxTs \in Nat
    /\ l.alive \in BOOLEAN /\ l.paused \in BOOLEAN /\ l.bufferDirty \in BOOLEAN
    /\ l.redrawQueued \in BOOLEAN /\ l.ageDue \in BOOLEAN

PlacesTypeOK ==
    /\ map \in [frame : Frames, moving : BOOLEAN, quiet : BOOLEAN]
    /\ DOMAIN canvas = {"strikes", "at", "display"}
    /\ canvas.strikes \subseteq Strikes /\ canvas.display \in BOOLEAN

Types == LayerTypeOK(layer) /\ PlacesTypeOK /\ now \in 1..MaxTime /\ hass \in [Strikes -> Times]

\* A frame does not rebuild it.
Clean(l) == ~l.bufferDirty /\ l.bufferAt # Nothing

InTime(l) == {s \in Held(l.strikes) : InAge(l.strikes[s])}

Buffered ==
    Clean(layer) =>
        /\ layer.buffer \subseteq Held(layer.strikes) \cup removed
        /\ \A s \in InTime(layer) : layer.strikes[s] <= layer.bufferMaxTs => s \in layer.buffer

Projected ==
    /\ Clean(layer) => layer.bufferAt = layer.origin
    /\ ~layer.redrawQueued /\ canvas.strikes # {} => canvas.at = layer.origin
    /\ layer.alive /\ canvas.display => layer.origin = map.frame

StormInv == Types /\ Buffered /\ Projected /\ StormShown

Bounds == MaxTime \in Nat \ {0} /\ MaxAge \in Nat

-----------------------------------------------------------------------------
(* What the operations do to the layer                                      *)

LEMMA RepositionedLayer ==
    ASSUME NEW l, LayerTypeOK(l)
    PROVE  /\ LayerTypeOK(Repositioned(l))
           /\ Repositioned(l).alive = l.alive /\ Repositioned(l).paused = l.paused
           /\ Repositioned(l).origin = map.frame
           /\ Repositioned(l).bufferDirty = TRUE /\ Repositioned(l).redrawQueued = TRUE
BY DEF Repositioned, LayerTypeOK, LayerFields

LEMMA AgedLayer ==
    ASSUME NEW l, LayerTypeOK(l)
    PROVE  /\ LayerTypeOK(Aged(l))
           /\ Aged(l).alive = l.alive /\ Aged(l).origin = l.origin
           /\ Aged(l).bufferDirty = TRUE /\ Aged(l).redrawQueued = TRUE
<1> DEFINE n == [s \in Strikes |-> IF l.strikes[s] # Nothing /\ InAge(l.strikes[s])
                                   THEN l.strikes[s] ELSE Nothing]
<1>1. Aged(l) = [l EXCEPT !.strikes = n, !.bufferDirty = TRUE, !.redrawQueued = TRUE, !.ageDue = FALSE]
  BY DEF Aged, LayerTypeOK
<1>2. n \in [Strikes -> Times]
  BY DEF LayerTypeOK, Times
<1> HIDE DEF n
<1> QED
  BY <1>1, <1>2 DEF LayerTypeOK, LayerFields

\* An update of Home Assistant: what is left, what is new, and when it shows.
Refreshed(l, u) ==
    /\ u.alive = l.alive /\ u.paused = l.paused /\ u.origin = l.origin
    /\ u.buffer = l.buffer /\ u.bufferAt = l.bufferAt /\ u.bufferMaxTs = l.bufferMaxTs
    /\ u.ageDue = l.ageDue
    /\ l.bufferDirty => u.bufferDirty
    /\ l.redrawQueued => u.redrawQueued
    /\ ~u.bufferDirty => \A s \in Held(u.strikes) : u.strikes[s] <= u.bufferMaxTs =>
               s \in Held(l.strikes) /\ u.strikes[s] = l.strikes[s]
    /\ ~u.redrawQueued /\ ~l.paused => \A s \in Held(u.strikes) :
               s \in Held(l.strikes) /\ u.strikes[s] = l.strikes[s]

LEMMA RefreshedLayer ==
    ASSUME NEW l, LayerTypeOK(l), NEW states \in [Strikes -> Times],
           NEW u, u = _refreshFromHass(l, states)
    PROVE  LayerTypeOK(u) /\ Refreshed(l, u)
<1> DEFINE c == Collected(states)
           added == Held(c) \ Held(l.strikes)
           gone == Held(l.strikes) \ Held(c)
           changed == added # {} \/ \E s \in gone : l.strikes[s] > l.bufferMaxTs
           n == [s \in Strikes |-> IF s \in added THEN c[s] ELSE IF s \in gone THEN Nothing
                                   ELSE l.strikes[s]]
           d == Dirties(l, c, added)
           q == l.redrawQueued \/ (changed /\ ~l.paused)
<1>1. u = [l EXCEPT !.strikes = n, !.bufferDirty = d, !.redrawQueued = q]
  BY DEF _refreshFromHass, LayerTypeOK
<1>2. c \in [Strikes -> Times]
  BY DEF Collected, Times
<1> HIDE DEF c
<1>3. added \subseteq Strikes /\ gone \subseteq Strikes
  BY DEF Held
<1>4. n \in [Strikes -> Times]
  BY <1>2 DEF LayerTypeOK, Times
<1>5. d \in BOOLEAN /\ q \in BOOLEAN /\ (l.bufferDirty => d) /\ (l.redrawQueued => q)
  BY DEF Dirties, LayerTypeOK
<1>6. \A s \in Strikes : n[s] # Nothing =>
          (s \in added /\ n[s] = c[s]) \/ (s \in Held(l.strikes) /\ n[s] = l.strikes[s])
  <2> TAKE s \in Strikes
  <2> HAVE n[s] # Nothing
  <2>1. CASE s \in added
    BY <2>1
  <2>2. CASE s \notin added
    <3>1. s \notin gone /\ n[s] = l.strikes[s]
      BY <2>2
    <3> QED
      BY <3>1 DEF Held
  <2> QED
    BY <2>1, <2>2
<1>7. ~d => \A s \in added : ~(c[s] <= l.bufferMaxTs)
  BY DEF Dirties
<1>8. ~q /\ ~l.paused => added = {}
  OBVIOUS
<1> HIDE DEF added, gone, changed, n, d, q
<1>9. /\ LayerTypeOK(u) /\ u.strikes = n /\ u.bufferDirty = d /\ u.redrawQueued = q
      /\ u.alive = l.alive /\ u.paused = l.paused /\ u.origin = l.origin
      /\ u.buffer = l.buffer /\ u.bufferAt = l.bufferAt /\ u.bufferMaxTs = l.bufferMaxTs
      /\ u.ageDue = l.ageDue
  BY <1>1, <1>4, <1>5 DEF LayerTypeOK, LayerFields
<1>10. \A s \in Held(u.strikes) : s \in Strikes /\ n[s] # Nothing
  BY <1>9 DEF Held
<1>11. ~d => \A s \in Held(u.strikes) : u.strikes[s] <= u.bufferMaxTs =>
                  s \in Held(l.strikes) /\ u.strikes[s] = l.strikes[s]
  BY <1>6, <1>7, <1>9, <1>10
<1>12. ~q /\ ~l.paused => \A s \in Held(u.strikes) :
                  s \in Held(l.strikes) /\ u.strikes[s] = l.strikes[s]
  BY <1>6, <1>8, <1>9, <1>10
<1> QED
  BY <1>5, <1>9, <1>11, <1>12 DEF Refreshed

-----------------------------------------------------------------------------
(* The steps                                                                *)

\* The layer moves, ages, or starts: the next frame rebuilds the buffer.
LEMMA DirtyKeeps ==
    ASSUME Types', layer'.bufferDirty = TRUE, layer'.redrawQueued = TRUE,
           layer'.alive /\ canvas'.display => layer'.origin = map'.frame
    PROVE  StormInv'
BY DEF StormInv, Buffered, Projected, StormShown, Painted, Clean

\* A layer that is not there.
LEMMA GoneKeeps ==
    ASSUME Types', layer' = NoLayer, canvas' = NoCanvas
    PROVE  StormInv'
<1>1. NoLayer.bufferDirty = TRUE /\ NoLayer.alive = FALSE /\ NoCanvas.strikes = {}
  BY DEF NoLayer, NoCanvas
<1> QED
  BY <1>1 DEF StormInv, Buffered, Projected, StormShown, Painted, Clean

LEMMA NoLayerTypes ==
    LayerTypeOK(NoLayer) /\ DOMAIN NoCanvas = {"strikes", "at", "display"}
    /\ NoCanvas.strikes = {} /\ NoCanvas.display = FALSE
    /\ NoLayer.alive = FALSE /\ NoLayer.paused = FALSE
BY DEF NoLayer, NoCanvas, LayerTypeOK, LayerFields, NoStrikes, Times

LEMMA UpdateKeeps ==
    ASSUME Bounds, StormInv, NEW states \in Updates, updateHass(states)
    PROVE  StormInv'
<1>1. states \in [Strikes -> Times]
  <2>1. CASE states = hass
    BY <2>1 DEF StormInv, Types
  <2>2. ASSUME NEW s \in Strikes, NEW ts \in 1..now,
               states = [hass EXCEPT ![s] = IF hass[s] = Nothing THEN ts ELSE Nothing]
        PROVE  states \in [Strikes -> Times]
    <3>1. (IF hass[s] = Nothing THEN ts ELSE Nothing) \in Times
      BY DEF Times, Bounds, StormInv, Types
    <3> QED
      BY <2>2, <3>1 DEF StormInv, Types
  <2> QED
    BY <2>1, <2>2 DEF Updates
<1>2. /\ hass' = states /\ UNCHANGED <<now, map, canvas>>
      /\ removed' = removed \cup (Held(layer.strikes) \ Held(layer'.strikes))
  BY DEF updateHass
<1>3. CASE ~layer.alive
  <2>1. layer' = layer
    BY <1>3 DEF updateHass
  <2>2. Types'
    BY <1>1, <1>2, <2>1 DEF StormInv, Types, PlacesTypeOK
  <2> QED
    BY <1>2, <1>3, <2>1, <2>2
       DEF StormInv, Buffered, Projected, StormShown, Painted, Clean, InTime, InAge
<1>4. CASE layer.alive
  <2>1. layer' = _refreshFromHass(layer, states)
    BY <1>4 DEF updateHass
  <2>a. LayerTypeOK(layer') /\ Refreshed(layer, layer')
    BY <1>1, <2>1, RefreshedLayer DEF StormInv, Types
  <2> DEFINE u == layer'
             l == layer
  <2>2. LayerTypeOK(u) /\ Refreshed(l, u)
    BY <2>a
  <2> USE DEF Refreshed
  <2>3. Types'
    BY <1>1, <1>2, <2>2 DEF StormInv, Types, PlacesTypeOK
  <2>4. Projected'
    BY <1>2, <2>2 DEF StormInv, Projected, Clean
  <2>5. Buffered'
    <3> SUFFICES ASSUME Clean(layer)'
                 PROVE  /\ u.buffer \subseteq Held(u.strikes) \cup removed'
                        /\ \A s \in InTime(layer)' : u.strikes[s] <= u.bufferMaxTs => s \in u.buffer
      BY DEF Buffered
    <3>1. Clean(l) /\ ~u.bufferDirty
      BY <2>2 DEF Clean
    <3>2. l.buffer \subseteq Held(l.strikes) \cup removed
      BY <3>1 DEF StormInv, Buffered
    <3>3. ASSUME NEW s \in InTime(layer)', u.strikes[s] <= u.bufferMaxTs
          PROVE  s \in u.buffer
      <4>1. s \in Held(u.strikes) /\ InAge(u.strikes[s])
        BY <1>2, <3>3 DEF InTime, InAge
      <4>2. s \in Held(l.strikes) /\ u.strikes[s] = l.strikes[s]
        BY <2>2, <3>1, <3>3, <4>1
      <4>3. s \in InTime(l)
        BY <4>1, <4>2 DEF InTime
      <4> QED
        BY <2>2, <3>1, <3>3, <4>2, <4>3 DEF StormInv, Buffered
    <3> QED
      BY <1>2, <2>2, <3>2, <3>3
  <2>6. StormShown'
    <3> SUFFICES ASSUME Painted', ~u.ageDue
                 PROVE  /\ InTime(layer)' \subseteq canvas'.strikes
                        /\ canvas'.strikes \subseteq Held(u.strikes) \cup removed'
      BY DEF StormShown, InTime
    <3>1. Painted /\ ~l.ageDue /\ ~u.redrawQueued /\ ~l.paused
      BY <2>2 DEF Painted
    <3>2. /\ InTime(l) \subseteq canvas.strikes
          /\ canvas.strikes \subseteq Held(l.strikes) \cup removed
      BY <3>1 DEF StormInv, StormShown, InTime
    <3>3. ASSUME NEW s \in InTime(layer)' PROVE s \in canvas'.strikes
      <4>1. s \in Held(u.strikes) /\ InAge(u.strikes[s])
        BY <1>2, <3>3 DEF InTime, InAge
      <4>2. s \in Held(l.strikes) /\ u.strikes[s] = l.strikes[s]
        BY <2>2, <3>1, <4>1
      <4>3. s \in InTime(l)
        BY <4>1, <4>2 DEF InTime
      <4> QED
        BY <1>2, <3>2, <4>3
    <3> QED
      BY <1>2, <3>2, <3>3
  <2> QED
    BY <2>3, <2>4, <2>5, <2>6 DEF StormInv
<1> QED
  BY <1>3, <1>4

LEMMA StartKeeps ==
    ASSUME Bounds, StormInv, Start
    PROVE  StormInv'
<1> DEFINE l == [NoLayer EXCEPT !.alive = TRUE]
           r == Repositioned(l)
<1>1. LayerTypeOK(l) /\ l.alive = TRUE
  BY NoLayerTypes DEF LayerTypeOK, LayerFields
<1> HIDE DEF l
<1>2. /\ LayerTypeOK(r) /\ r.alive = TRUE /\ r.origin = map.frame
      /\ r.bufferDirty = TRUE /\ r.redrawQueued = TRUE
  BY <1>1, RepositionedLayer
<1> HIDE DEF r
<1>3. layer' = _refreshFromHass(r, hass) /\ UNCHANGED <<now, hass, map>>
  BY DEF Start, r, l
<1>4. LayerTypeOK(layer') /\ Refreshed(r, layer')
  BY <1>2, <1>3, RefreshedLayer DEF StormInv, Types
<1>5. canvas' = [NoCanvas EXCEPT !.display = TRUE]
  BY DEF Start
<1>6. PlacesTypeOK'
  BY <1>3, <1>5, NoLayerTypes DEF StormInv, Types, PlacesTypeOK
<1>7. Types'
  BY <1>3, <1>4, <1>6 DEF StormInv, Types
<1>8. /\ layer'.bufferDirty = TRUE /\ layer'.redrawQueued = TRUE /\ layer'.origin = map'.frame
  BY <1>2, <1>3, <1>4 DEF Refreshed, LayerTypeOK
<1> QED
  BY <1>7, <1>8, DirtyKeeps

LEMMA ClearKeeps ==
    ASSUME StormInv, Clear
    PROVE  StormInv'
<1>1. Types'
  BY NoLayerTypes DEF Clear, StormInv, Types, PlacesTypeOK
<1> QED
  BY <1>1, GoneKeeps DEF Clear

\* A hidden layer: its canvas need not show the storm.
LEMMA PauseKeeps ==
    ASSUME StormInv, Pause
    PROVE  StormInv'
<1>1. layer' = [layer EXCEPT !.paused = TRUE, !.ageDue = FALSE] /\ UNCHANGED <<now, hass, map, canvas, removed>>
  BY DEF Pause
<1>2. /\ LayerTypeOK(layer') /\ layer'.paused = TRUE /\ layer'.alive = layer.alive
      /\ layer'.strikes = layer.strikes /\ layer'.origin = layer.origin
      /\ layer'.buffer = layer.buffer /\ layer'.bufferAt = layer.bufferAt
      /\ layer'.bufferMaxTs = layer.bufferMaxTs /\ layer'.bufferDirty = layer.bufferDirty
      /\ layer'.redrawQueued = layer.redrawQueued
  BY <1>1 DEF StormInv, Types, LayerTypeOK, LayerFields
<1>3. Types'
  BY <1>1, <1>2 DEF StormInv, Types, PlacesTypeOK
<1>4. Buffered' /\ Projected'
  BY <1>1, <1>2 DEF StormInv, Buffered, Projected, Clean, InTime, InAge
<1>5. StormShown'
  BY <1>2 DEF StormShown, Painted
<1> QED
  BY <1>3, <1>4, <1>5 DEF StormInv

LEMMA ResumeKeeps ==
    ASSUME StormInv, Resume
    PROVE  StormInv'
<1> DEFINE l == [layer EXCEPT !.paused = FALSE]
<1>1. layer' = Aged(l) /\ UNCHANGED <<now, hass, map, canvas>>
  BY DEF Resume
<1>2. LayerTypeOK(l) /\ l.alive = layer.alive /\ l.origin = layer.origin
  BY DEF StormInv, Types, LayerTypeOK, LayerFields
<1> HIDE DEF l
<1>3. /\ LayerTypeOK(layer') /\ layer'.alive = layer.alive /\ layer'.origin = layer.origin
      /\ layer'.bufferDirty = TRUE /\ layer'.redrawQueued = TRUE
  BY <1>1, <1>2, AgedLayer
<1>4. Types'
  BY <1>1, <1>3 DEF StormInv, Types, PlacesTypeOK
<1>5. layer'.alive /\ canvas'.display => layer'.origin = map'.frame
  BY <1>1, <1>3 DEF StormInv, Projected
<1> QED
  BY <1>3, <1>4, <1>5, DirtyKeeps

LEMMA AgePassKeeps ==
    ASSUME StormInv, AgePass
    PROVE  StormInv'
<1>1. layer' = Aged(layer) /\ UNCHANGED <<now, hass, map, canvas>>
  BY DEF AgePass
<1>2. /\ LayerTypeOK(layer') /\ layer'.alive = layer.alive /\ layer'.origin = layer.origin
      /\ layer'.bufferDirty = TRUE /\ layer'.redrawQueued = TRUE
  BY <1>1, AgedLayer DEF StormInv, Types
<1>3. Types'
  BY <1>1, <1>2 DEF StormInv, Types, PlacesTypeOK
<1>4. layer'.alive /\ canvas'.display => layer'.origin = map'.frame
  BY <1>1, <1>2 DEF StormInv, Projected
<1> QED
  BY <1>2, <1>3, <1>4, DirtyKeeps

LEMMA ResizeKeeps ==
    ASSUME StormInv, Resize
    PROVE  StormInv'
<1>1. layer' = Repositioned(layer) /\ UNCHANGED <<now, hass, map, canvas, removed>>
  BY DEF Resize
<1>2. /\ LayerTypeOK(layer') /\ layer'.origin = map.frame
      /\ layer'.bufferDirty = TRUE /\ layer'.redrawQueued = TRUE
  BY <1>1, RepositionedLayer DEF StormInv, Types
<1>3. Types'
  BY <1>1, <1>2 DEF StormInv, Types, PlacesTypeOK
<1> QED
  BY <1>1, <1>2, <1>3, DirtyKeeps

\* The layer is left alone, the canvas keeps its strikes, and only a canvas out
\* of the page may be in another frame than the map.
LEMMA MapKeeps ==
    ASSUME StormInv, UNCHANGED <<now, hass, layer, removed>>, PlacesTypeOK',
           canvas'.strikes = canvas.strikes, canvas'.at = canvas.at,
           canvas'.display => canvas.display /\ map'.frame = map.frame
    PROVE  StormInv'
<1>1. Types'
  BY DEF StormInv, Types
<1>2. Buffered' /\ StormShown'
  BY DEF StormInv, Buffered, Clean, InTime, InAge, StormShown, Painted
<1>3. Projected'
  BY DEF StormInv, Projected, Clean
<1> QED
  BY <1>1, <1>2, <1>3 DEF StormInv

LEMMA MoveStartKeeps ==
    ASSUME StormInv, NEW zooms \in BOOLEAN, MoveStart(zooms)
    PROVE  StormInv'
<1> DEFINE d == canvas.display /\ ~zooms
<1>1. /\ map' = [map EXCEPT !.moving = TRUE, !.quiet = FALSE]
      /\ canvas' = [canvas EXCEPT !.display = d]
      /\ UNCHANGED <<now, hass, layer, removed>>
  BY DEF MoveStart
<1>2. d \in BOOLEAN /\ (d => canvas.display)
  BY DEF StormInv, Types, PlacesTypeOK
<1> HIDE DEF d
<1>3. /\ PlacesTypeOK' /\ map'.frame = map.frame
      /\ canvas'.strikes = canvas.strikes /\ canvas'.at = canvas.at /\ canvas'.display = d
  BY <1>1, <1>2 DEF StormInv, Types, PlacesTypeOK
<1> QED
  BY <1>1, <1>2, <1>3, MapKeeps

LEMMA MoveEndKeeps ==
    ASSUME StormInv, NEW f \in Frames, MoveEnd(f)
    PROVE  StormInv'
<1> DEFINE d == canvas.display /\ f = map.frame
<1>1. /\ map' = [frame |-> f, moving |-> FALSE, quiet |-> TRUE]
      /\ canvas' = [canvas EXCEPT !.display = d]
      /\ UNCHANGED <<now, hass, layer, removed>>
  BY DEF MoveEnd, HidesOnReset
<1>2. d \in BOOLEAN /\ (d => canvas.display /\ f = map.frame)
  BY DEF StormInv, Types, PlacesTypeOK
<1> HIDE DEF d
<1>3. /\ PlacesTypeOK' /\ map'.frame = f
      /\ canvas'.strikes = canvas.strikes /\ canvas'.at = canvas.at /\ canvas'.display = d
  BY <1>1, <1>2 DEF StormInv, Types, PlacesTypeOK
<1> QED
  BY <1>1, <1>2, <1>3, MapKeeps

LEMMA QuietKeeps ==
    ASSUME StormInv, Quiet
    PROVE  StormInv'
<1>1. /\ map' = [map EXCEPT !.quiet = FALSE] /\ canvas' = [canvas EXCEPT !.display = layer.alive]
      /\ UNCHANGED <<now, hass, removed>>
  BY DEF Quiet
<1>2. /\ PlacesTypeOK' /\ map'.frame = map.frame /\ canvas'.display = layer.alive
      /\ canvas'.strikes = canvas.strikes /\ canvas'.at = canvas.at
  BY <1>1 DEF StormInv, Types, PlacesTypeOK, LayerTypeOK
<1>3. CASE layer.alive
  <2>1. layer' = Repositioned(layer)
    BY <1>3 DEF Quiet
  <2>2. /\ LayerTypeOK(layer') /\ layer'.origin = map.frame
        /\ layer'.bufferDirty = TRUE /\ layer'.redrawQueued = TRUE
    BY <2>1, RepositionedLayer DEF StormInv, Types
  <2>3. Types'
    BY <1>1, <1>2, <2>2 DEF StormInv, Types
  <2> QED
    BY <1>2, <2>2, <2>3, DirtyKeeps
<1>4. CASE ~layer.alive
  <2>1. layer' = layer /\ ~canvas'.display
    BY <1>2, <1>4 DEF Quiet
  <2> QED
    BY <1>1, <1>2, <2>1, MapKeeps
<1> QED
  BY <1>3, <1>4

\* 30 s pass: the storm ages, and the age pass of a layer that is seen is due.
LEMMA TimeKeeps ==
    ASSUME Bounds, StormInv, Time
    PROVE  StormInv'
<1> DEFINE d == layer.alive /\ ~layer.paused
<1>1. /\ layer' = [layer EXCEPT !.ageDue = d] /\ now' = now + 1 /\ now < MaxTime
      /\ UNCHANGED <<hass, map, canvas, removed>>
  BY DEF Time
<1>2. d \in BOOLEAN
  BY DEF StormInv, Types, LayerTypeOK
<1>3. layer.alive /\ ~layer.paused => d
  OBVIOUS
<1> HIDE DEF d
<1>4. /\ LayerTypeOK(layer') /\ layer'.ageDue = d
      /\ layer'.paused = layer.paused /\ layer'.alive = layer.alive
      /\ layer'.strikes = layer.strikes /\ layer'.origin = layer.origin
      /\ layer'.buffer = layer.buffer /\ layer'.bufferAt = layer.bufferAt
      /\ layer'.bufferMaxTs = layer.bufferMaxTs /\ layer'.bufferDirty = layer.bufferDirty
      /\ layer'.redrawQueued = layer.redrawQueued
  BY <1>1, <1>2 DEF StormInv, Types, LayerTypeOK, LayerFields
<1>5. now' \in 1..MaxTime
  BY <1>1 DEF StormInv, Types, Bounds
<1>6. Types'
  BY <1>1, <1>4, <1>5 DEF StormInv, Types, PlacesTypeOK
<1>7. Projected'
  BY <1>1, <1>4 DEF StormInv, Projected, Clean
<1>8. \A s \in InTime(layer)' : s \in InTime(layer)
  <2> TAKE s \in InTime(layer)'
  <2>1. s \in Held(layer.strikes) /\ now + 1 <= layer.strikes[s] + MaxAge
    BY <1>1, <1>4 DEF InTime, InAge
  <2>2. layer.strikes[s] \in Nat /\ now \in Nat /\ MaxAge \in Nat
    BY <2>1 DEF Held, Bounds, StormInv, Types, LayerTypeOK, Times
  <2> QED
    BY <2>1, <2>2 DEF InTime, InAge
<1>9. Buffered'
  BY <1>1, <1>4, <1>8 DEF StormInv, Buffered, Clean
<1>10. StormShown'
  BY <1>3, <1>4 DEF StormShown, Painted
<1> QED
  BY <1>6, <1>7, <1>9, <1>10 DEF StormInv

\* Nothing to draw: the canvas is cleared, the buffer left as it is.
LEMMA ClearedKeeps ==
    ASSUME StormInv, Redraw, Held(layer.strikes) = {}
    PROVE  StormInv'
<1>1. /\ layer' = [layer EXCEPT !.redrawQueued = FALSE]
      /\ canvas' = [canvas EXCEPT !.strikes = {}, !.at = layer.origin]
      /\ UNCHANGED <<now, hass, map, removed>>
  BY DEF Redraw
<1>2. /\ LayerTypeOK(layer') /\ layer'.redrawQueued = FALSE
      /\ layer'.paused = layer.paused /\ layer'.alive = layer.alive
      /\ layer'.strikes = layer.strikes /\ layer'.origin = layer.origin
      /\ layer'.buffer = layer.buffer /\ layer'.bufferAt = layer.bufferAt
      /\ layer'.bufferMaxTs = layer.bufferMaxTs /\ layer'.bufferDirty = layer.bufferDirty
      /\ layer'.ageDue = layer.ageDue
  BY <1>1 DEF StormInv, Types, LayerTypeOK, LayerFields
<1>3. PlacesTypeOK' /\ canvas'.strikes = {} /\ canvas'.display = canvas.display
  BY <1>1 DEF StormInv, Types, PlacesTypeOK
<1>4. Types'
  BY <1>1, <1>2, <1>3 DEF StormInv, Types
<1>5. Buffered' /\ Projected'
  BY <1>1, <1>2, <1>3 DEF StormInv, Buffered, Projected, Clean, InTime, InAge
<1>6. StormShown'
  BY <1>2, <1>3 DEF StormShown
<1> QED
  BY <1>4, <1>5, <1>6 DEF StormInv

\* The buffer is rebuilt or is clean; with the strikes newer than its cutoff it
\* is the storm.
LEMMA RedrawKeeps ==
    ASSUME Bounds, StormInv, Redraw, Held(layer.strikes) # {}
    PROVE  StormInv'
<1> DEFINE rebuild == layer.bufferDirty \/ layer.bufferAt = Nothing
           drawn == {s \in Held(layer.strikes) : InAge(layer.strikes[s])}
           cut == IF rebuild THEN now - 1 ELSE layer.bufferMaxTs
           buffer == IF rebuild THEN drawn \cap SettledBy(layer, cut) ELSE layer.buffer
           at == IF rebuild THEN layer.origin ELSE layer.bufferAt
           live == {s \in drawn : layer.strikes[s] > cut}
           shown == buffer \cup live
           where == IF buffer = {} THEN layer.origin ELSE at
<1>1. /\ layer' = [layer EXCEPT !.redrawQueued = FALSE, !.buffer = buffer, !.bufferAt = at,
                                !.bufferMaxTs = cut, !.bufferDirty = FALSE]
      /\ canvas' = [canvas EXCEPT !.strikes = shown, !.at = where]
      /\ UNCHANGED <<now, hass, map, removed>>
  BY DEF Redraw
<1>2. drawn = InTime(layer) /\ drawn \subseteq Held(layer.strikes) /\ drawn \subseteq Strikes
  BY DEF InTime, Held
<1>3. cut \in Nat
  BY DEF StormInv, Types, LayerTypeOK, Bounds
<1>4. \A s \in drawn : layer.strikes[s] \in Nat
  BY <1>2 DEF Held, StormInv, Types, LayerTypeOK, Times
<1>5. at = layer.origin
  BY DEF StormInv, Projected, Clean
<1>6. \A s \in drawn : layer.strikes[s] <= cut => s \in buffer
  <2>1. CASE rebuild
    BY <1>2, <2>1 DEF SettledBy
  <2>2. CASE ~rebuild
    BY <1>2, <2>2 DEF StormInv, Buffered, Clean
  <2> QED
    BY <2>1, <2>2
<1>7. buffer \subseteq Held(layer.strikes) \cup removed /\ buffer \subseteq Strikes
  <2>1. CASE rebuild
    BY <1>2, <2>1
  <2>2. CASE ~rebuild
    BY <2>2 DEF StormInv, Buffered, Clean, Types, LayerTypeOK
  <2> QED
    BY <2>1, <2>2
<1>8. live \subseteq drawn /\ \A s \in drawn : layer.strikes[s] > cut => s \in live
  OBVIOUS
<1>9. where = layer.origin
  BY <1>5
<1> HIDE DEF rebuild, drawn, cut, buffer, at, live, where
<1>10. /\ drawn \subseteq shown /\ shown \subseteq Held(layer.strikes) \cup removed
       /\ shown \subseteq Strikes
  BY <1>2, <1>3, <1>4, <1>6, <1>7, <1>8
<1> HIDE DEF shown
<1>11. /\ LayerTypeOK(layer') /\ layer'.redrawQueued = FALSE
       /\ layer'.paused = layer.paused /\ layer'.alive = layer.alive
       /\ layer'.strikes = layer.strikes /\ layer'.origin = layer.origin
       /\ layer'.buffer = buffer /\ layer'.bufferAt = at
       /\ layer'.bufferMaxTs = cut /\ layer'.bufferDirty = FALSE
       /\ layer'.ageDue = layer.ageDue
  BY <1>1, <1>3, <1>7 DEF StormInv, Types, LayerTypeOK, LayerFields
<1>12. /\ PlacesTypeOK' /\ canvas'.strikes = shown /\ canvas'.display = canvas.display
       /\ canvas'.at = where
  BY <1>1, <1>10 DEF StormInv, Types, PlacesTypeOK
<1>13. InTime(layer)' = drawn
  BY <1>1, <1>2, <1>11 DEF InTime, InAge
<1>14. Types'
  BY <1>1, <1>11, <1>12 DEF StormInv, Types
<1>15. Buffered'
  BY <1>1, <1>6, <1>7, <1>11, <1>13 DEF Buffered
<1>16. Projected'
  BY <1>1, <1>5, <1>9, <1>11, <1>12 DEF StormInv, Projected
<1>17. StormShown'
  BY <1>1, <1>10, <1>11, <1>12, <1>13 DEF StormShown, InTime
<1> QED
  BY <1>14, <1>15, <1>16, <1>17 DEF StormInv

-----------------------------------------------------------------------------
LEMMA InitKeeps ==
    ASSUME Bounds, InitStorm
    PROVE  StormInv
<1>1. /\ layer = NoLayer /\ canvas = NoCanvas /\ now = 1 /\ hass = NoStrikes
      /\ map \in [frame : Frames, moving : {FALSE}, quiet : {FALSE}]
  BY DEF InitStorm
<1>2. NoLayer.bufferDirty = TRUE /\ NoLayer.alive = FALSE /\ NoCanvas.strikes = {}
  BY DEF NoLayer, NoCanvas
<1>3. hass \in [Strikes -> Times]
  BY <1>1 DEF NoStrikes, Times
<1>4. Types
  <2>1. map \in [frame : Frames, moving : BOOLEAN, quiet : BOOLEAN]
    BY <1>1
  <2>2. PlacesTypeOK
    BY <1>1, <2>1, NoLayerTypes DEF PlacesTypeOK
  <2>3. now \in 1..MaxTime
    BY <1>1 DEF Bounds
  <2> QED
    BY <1>1, <1>3, <2>2, <2>3, NoLayerTypes DEF Types
<1> QED
  BY <1>1, <1>2, <1>4 DEF StormInv, Buffered, Projected, StormShown, Painted, Clean

LEMMA NextKeeps ==
    ASSUME Bounds, StormInv, NextStorm
    PROVE  StormInv'
<1>1. ASSUME NEW states \in Updates, updateHass(states) PROVE StormInv'
  BY <1>1, UpdateKeeps
<1>2. CASE Start
  BY <1>2, StartKeeps
<1>3. CASE Clear
  BY <1>3, ClearKeeps
<1>4. CASE Pause
  BY <1>4, PauseKeeps
<1>5. CASE Resume
  BY <1>5, ResumeKeeps
<1>6. CASE AgePass
  BY <1>6, AgePassKeeps
<1>7. CASE Redraw
  BY <1>7, RedrawKeeps, ClearedKeeps
<1>8. CASE Time
  BY <1>8, TimeKeeps
<1>9. ASSUME NEW zooms \in BOOLEAN, MoveStart(zooms) PROVE StormInv'
  BY <1>9, MoveStartKeeps
<1>10. ASSUME NEW f \in Frames, MoveEnd(f) PROVE StormInv'
  BY <1>10, MoveEndKeeps
<1>11. CASE Quiet
  BY <1>11, QuietKeeps
<1>12. CASE Resize
  BY <1>12, ResizeKeeps
<1> QED
  BY <1>1, <1>2, <1>3, <1>4, <1>5, <1>6, <1>7, <1>8, <1>9, <1>10, <1>11, <1>12 DEF NextStorm

LEMMA StutterKeeps ==
    ASSUME StormInv, UNCHANGED stormVars
    PROVE  StormInv'
<1>1. /\ layer' = layer /\ map' = map /\ canvas' = canvas /\ now' = now
      /\ hass' = hass /\ removed' = removed
  BY DEF stormVars
<1> QED
  BY <1>1, MapKeeps DEF StormInv, Types, PlacesTypeOK

LEMMA StormInvDrawn ==
    ASSUME Bounds, StormInv
    PROVE  StormDrawn
<1>1. StormTypes
  BY DEF StormInv, Types, PlacesTypeOK, LayerTypeOK, Times, StormTypes
<1>2. NeverMisplaced
  BY DEF StormInv, Projected, NeverMisplaced, Painted
<1> QED
  BY <1>1, <1>2 DEF StormInv, StormDrawn

\* The canvas shows the storm that is, where it is, through buffers, backlogs,
\* pauses, drags, zooms and repaints in any order.
THEOREM StormTheorem ==
    ASSUME Bounds
    PROVE  SpecStorm => []StormDrawn
<1>1. InitStorm => StormInv
  BY InitKeeps
<1>2. StormInv /\ [NextStorm]_stormVars => StormInv'
  BY NextKeeps, StutterKeeps
<1>3. StormInv => StormDrawn
  BY StormInvDrawn
<1> QED
  BY <1>1, <1>2, <1>3, PTL DEF SpecStorm

-----------------------------------------------------------------------------
(* MapView: what the map and its stops have to be                          *)

ViewFields == {"at", "move", "hand", "started", "grace", "down", "held", "timer",
               "editing", "followed", "tracked", "popup", "saved", "closing"}

Moves == {[to |-> place, by |-> mover] : place \in Places \cup {Aside}, mover \in {"card", "popup"}}
         \cup {[to |-> Absent, by |-> "hand"]}

\* What the proof needs of the fields' types.  No editor has a preset open.
ViewTypes(v) ==
    /\ DOMAIN v = ViewFields
    /\ v.at \in Places \cup {Aside} /\ v.move \in Moves \cup {Absent}
    /\ v.held \in {Absent, Default} \cup DOMAIN Presets
    /\ v.followed \in Places \cup {Absent} /\ v.tracked \in Places \cup {Absent}
    /\ v.saved \in Places \cup {Aside, Absent} /\ v.editing = Absent

\* Where the marker is drawn, and where a preset points.
Located == IF ~setting.tracked THEN Absent ELSE IF gps[Car] = Absent THEN Home ELSE gps[Car]
PlaceOf(i) ==
    IF Presets[i].entity # Absent /\ gps[Presets[i].entity] # Absent
    THEN gps[Presets[i].entity] ELSE Presets[i].at

\* The map rests on the base, or a popup has panned it away from there; or it is
\* on its way to the base, or in the viewer's hand.
Shown(v, base) ==
    /\ v.move = Absent => v.at = base \/ (v.saved # Absent /\ v.at = Aside)
    /\ v.move # Absent =>
         /\ v.move.by = "card"  => v.move.to = base /\ v.saved = Absent
         /\ v.move.by = "popup" => v.saved # Absent /\ v.at \in {base, Aside}

\* What the popups would put back is the base.
Saves(v, base) == v.saved # Absent => v.saved = base

\* The base is what the stop on show was last sent to.
SentTo(v, base) ==
    /\ v.held = Absent /\ v.tracked # Absent => base = v.tracked
    /\ v.held = Default => base = Home
    /\ v.held \in DOMAIN Presets /\ v.followed # Absent => base = v.followed

\* That is where the stop's entity was at the last hass update.
UpToDate(v) ==
    /\ v.held = Absent => v.tracked = Located
    /\ v.held \in DOMAIN Presets /\ PlaceOf(v.held) # Absent => v.followed = PlaceOf(v.held)

\* No marker is tracked unless one is configured to be, and a preset without an
\* entity is sent where it is.
Configured(v) ==
    /\ ~setting.tracked => v.tracked = Absent
    /\ v.held \in DOMAIN Presets /\ Presets[v.held].entity = Absent =>
         v.followed = Presets[v.held].at

\* A view is saved for a popup only, no hand moves the map under one, and its
\* own move is to the side.
Popups(v) ==
    /\ v.saved # Absent => v.popup \/ v.closing
    /\ v.move # Absent /\ v.move.by = "hand" => v.saved = Absent
    /\ v.move # Absent /\ v.move.by = "popup" => v.move.to = Aside

MapTypes ==
    /\ gps \in Fixes
    /\ setting.tracked \in BOOLEAN /\ setting.centre = Home /\ setting.presets = Presets
    /\ DOMAIN past = {"base", "by", "cut", "missed"} /\ past.cut \in BOOLEAN

MapInv ==
    /\ MapTypes /\ ViewTypes(view) /\ Configured(view) /\ Popups(view)
    /\ ~past.cut => Shown(view, past.base) /\ Saves(view, past.base)
    /\ ~past.cut /\ past.by = "card" => SentTo(view, past.base)
    /\ ~past.missed => UpToDate(view)

-----------------------------------------------------------------------------
(* MapView: moves                                                           *)

\* w is v sent to a place: it was there, or is on its way.
Sent(v, w, place) ==
    /\ w.at = v.at
    /\ \/ v.move = Absent /\ v.at = place /\ w.move = Absent /\ w.saved = v.saved
       \/ w.move = [to |-> place, by |-> "card"] /\ w.saved = Absent

\* w is where v is, and on the way where v is.
Stays(v, w) == w.at = v.at /\ w.move = v.move /\ w.saved = v.saved

SameStop(v, w) == w.held = v.held /\ w.followed = v.followed /\ w.tracked = v.tracked

SamePopup(v, w) == w.popup = v.popup /\ w.closing = v.closing /\ w.editing = v.editing

\* A set of naturals has a least element.
LEMMA LeastOf ==
  ASSUME NEW S, S \subseteq Nat, S # {}
  PROVE  Min(S) \in S /\ \A x \in S : Min(S) <= x
<1>1. PICK m \in S : \A y \in S : ~(<<y, m>> \in OpToRel(<, Nat))
  BY NatLessThanWellFounded, WFMin
<1>2. \A y \in S : ~(y < m)
  BY <1>1 DEF OpToRel
<1>3. \A y \in S : y \in Nat /\ m \in Nat
  OBVIOUS
<1>4. \A y \in S : m <= y
  BY <1>2, <1>3
<1>5. Min(S) \in S /\ \A y \in S : Min(S) <= y
  BY <1>4 DEF Min
<1> QED
  BY <1>5

LEMMA SetViewSends ==
    ASSUME NEW v, DOMAIN v = ViewFields, NEW place
    PROVE  LET w == setView(v, place)
           IN  /\ DOMAIN w = ViewFields /\ Sent(v, w, place)
               /\ SameStop(v, w) /\ SamePopup(v, w) /\ (~v.hand => ~w.hand)
<1> DEFINE r == MapRests(v)
<1>1. /\ DOMAIN r = ViewFields /\ r.at = v.at /\ r.move = Absent /\ r.saved = v.saved
      /\ SameStop(v, r) /\ SamePopup(v, r) /\ ~r.hand
  BY DEF MapRests, ViewFields, SameStop, SamePopup
<1>2. CASE _isAt(v, place)
  BY <1>1, <1>2 DEF setView, _isAt, Sent
<1>3. CASE ~_isAt(v, place)
  <2> DEFINE s == Stopped(v)
             m == MapMoves(s, FALSE)
  <2>1. DOMAIN s = ViewFields /\ s.at = v.at /\ SameStop(v, s) /\ SamePopup(v, s) /\ (~v.hand => ~s.hand)
    BY <1>1 DEF Stopped, SameStop, SamePopup
  <2> HIDE DEF s
  <2>2. DOMAIN m = ViewFields /\ m.at = v.at /\ m.saved = Absent /\ SameStop(v, m) /\ SamePopup(v, m)
        /\ (~v.hand => ~m.hand)
    BY <2>1 DEF MapMoves, ViewFields, SameStop, SamePopup
  <2>3. setView(v, place) = [m EXCEPT !.move = [to |-> place, by |-> "card"]]
    BY <1>3 DEF setView, s
  <2> HIDE DEF m
  <2> QED
    BY <2>2, <2>3 DEF Sent, ViewFields, SameStop, SamePopup
<1> QED
  BY <1>2, <1>3

LEMMA StepTypes ==
    ASSUME NEW v, ViewTypes(v), NEW w, DOMAIN w = ViewFields, NEW place \in Places \cup {Aside},
           Sent(v, w, place) \/ Stays(v, w), w.editing = v.editing,
           w.held \in {Absent, Default} \cup DOMAIN Presets,
           w.followed \in Places \cup {Absent}, w.tracked \in Places \cup {Absent}
    PROVE  ViewTypes(w)
<1>1. [to |-> place, by |-> "card"] \in Moves
  BY DEF Moves
<1> QED
  BY <1>1 DEF ViewTypes, Sent, Stays

\* A move of the card and the history that Noted keeps.
LEMMA NotedSends ==
    ASSUME MapAssumption, MapInv, NEW place \in Places, Sent(view, view', place), NEW m, Noted(m)
    PROVE  /\ DOMAIN past' = {"base", "by", "cut", "missed"} /\ past'.cut \in BOOLEAN /\ past'.missed = m
           /\ ~past'.cut => Shown(view', past'.base) /\ Saves(view', past'.base)
           /\ ~past'.cut => past'.base = place
           /\ view'.move # Absent => view'.move.by = "card"
<1> DEFINE moves == view'.move \notin {Absent, view.move} /\ view'.move.by = "card"
           new   == [to |-> place, by |-> "card"]
<1>1. /\ DOMAIN past' = {"base", "by", "cut", "missed"} /\ past'.missed = m /\ past'.cut \in BOOLEAN
      /\ past'.base = (IF moves THEN view'.move.to ELSE past.base)
      /\ past'.cut <=> past.cut /\ ~moves
  BY DEF Noted
<1>2. new # Absent /\ new.to = place /\ new.by = "card" /\ place # Aside
  BY DEF MapAssumption
<1> HIDE DEF new
<1>3. CASE view.move = Absent /\ view.at = place /\ view'.move = Absent /\ view'.saved = view.saved
  <2>1. ~moves
    BY <1>3
  <2>2. past'.base = past.base /\ (past'.cut <=> past.cut)
    BY <1>1, <2>1
  <2>3. ~past.cut => past.base = place /\ Shown(view, past.base) /\ Saves(view, past.base)
    BY <1>2, <1>3 DEF MapInv, Shown
  <2>4. view'.at = view.at
    BY DEF Sent
  <2> QED
    BY <1>1, <1>3, <2>2, <2>3, <2>4 DEF Shown, Saves
<1>4. CASE view'.move = new /\ view'.saved = Absent
  <2>1. CASE view.move = new
    <3>1. ~moves
      BY <1>4, <2>1
    <3>2. past'.base = past.base /\ (past'.cut <=> past.cut)
      BY <1>1, <3>1
    <3>3. ~past.cut => past.base = place
      BY <1>2, <2>1 DEF MapInv, Shown
    <3> QED
      BY <1>1, <1>2, <1>4, <3>2, <3>3 DEF Shown, Saves
  <2>2. CASE view.move # new
    <3>1. moves
      BY <1>2, <1>4, <2>2
    <3>2. past'.base = place
      BY <1>1, <1>2, <1>4, <3>1
    <3> QED
      BY <1>1, <1>2, <1>4, <3>2 DEF Shown, Saves
  <2> QED
    BY <2>1, <2>2
<1> QED
  BY <1>3, <1>4 DEF Sent, new

LEMMA NotedStays ==
    ASSUME MapInv, Stays(view, view'), NEW m, Noted(m)
    PROVE  /\ DOMAIN past' = {"base", "by", "cut", "missed"} /\ past'.cut \in BOOLEAN /\ past'.missed = m
           /\ past'.base = past.base /\ past'.by = past.by /\ past'.cut = past.cut
<1>1. view'.move = view.move
  BY DEF Stays
<1> DEFINE moves == view'.move \notin {Absent, view.move} /\ view'.move.by = "card"
<1>2. ~moves
  BY <1>1
<1>3. past' = [base   |-> IF moves THEN view'.move.to ELSE past.base,
               by     |-> IF moves THEN "card" ELSE past.by,
               cut    |-> past.cut /\ ~moves,
               missed |-> m]
  BY DEF Noted
<1> HIDE DEF moves
<1>4. /\ DOMAIN past' = {"base", "by", "cut", "missed"} /\ past'.missed = m
      /\ past'.base = past.base /\ past'.by = past.by /\ past'.cut = (past.cut /\ ~moves)
  BY <1>2, <1>3
<1>5. past.cut \in BOOLEAN
  BY DEF MapInv, MapTypes
<1>6. (past.cut /\ ~moves) = past.cut
  BY <1>2, <1>5
<1> QED
  BY <1>4, <1>5, <1>6

-----------------------------------------------------------------------------
(* MapView: stops                                                           *)

\* A step of the map's: the card's settings stay, and it knows the new places.
MapStep == setting' = setting /\ gps' \in Fixes

\* UpToDate and Configured, of a view and of where the entities are by now.
UpToDateNow(v) ==
    /\ v.held = Absent => v.tracked = resolveTracking
    /\ v.held \in DOMAIN Presets /\ presetPosition(Presets[v.held]) # Absent =>
         v.followed = presetPosition(Presets[v.held])

\* w is v sent to where its stop is; or it is left alone, and so is the stop.
Sends(v, w) ==
    \/ \E place \in Places : Sent(v, w, place) /\ SentTo(w, place)
    \/ Stays(v, w) /\ \A base : SentTo(v, base) => SentTo(w, base)

LEMMA Positions ==
    ASSUME MapAssumption, MapTypes, MapStep
    PROVE  /\ resolveTracking \in Places \cup {Absent} /\ liveTrackedStop \in Places \cup {Absent}
           /\ \A i \in DOMAIN Presets : presetPosition(Presets[i]) \in Places \cup {Absent}
           /\ liveTrackedStop # Absent => resolveTracking = liveTrackedStop
           /\ liveTrackedStop = Absent => resolveTracking \in {Home, Absent}
           /\ setting'.presets = Presets /\ setting'.centre = Home
           /\ setting'.tracked = setting.tracked
           /\ ~setting.tracked <=> resolveTracking = Absent
<1>1. \A e \in {Car, Boat} : gps'[e] \in Places \cup {Absent}
  BY DEF MapAssumption, MapStep
<1>2. \A i \in DOMAIN Presets : /\ Presets[i].entity \in {Car, Boat, Absent}
                                /\ Presets[i].at \in Places \cup {Absent}
  BY DEF MapAssumption
<1>3. Home \in Places /\ Absent \notin Places
  BY DEF MapAssumption
<1>4. /\ setting'.presets = Presets /\ setting'.centre = Home
      /\ setting'.tracked = setting.tracked /\ setting.tracked \in BOOLEAN
  BY DEF MapTypes, MapStep
<1>5. \A i \in DOMAIN Presets : presetPosition(Presets[i]) \in Places \cup {Absent}
  BY <1>1, <1>2 DEF presetPosition
<1> QED
  BY <1>1, <1>3, <1>4, <1>5 DEF resolveTracking, liveTrackedStop

LEMMA CatchesUp ==
    ASSUME MapAssumption, MapTypes, MapStep,
           NEW v, ViewTypes(v), Configured(v), ~v.hand
    PROVE  LET w == follow(_resolveTracking(v))
           IN  ViewTypes(w) /\ SamePopup(v, w) /\ Sends(v, w) /\ UpToDateNow(w) /\ Configured(w)
<1> DEFINE t == [v EXCEPT !.tracked = resolveTracking]
           u == _resolveTracking(v)
           w == follow(u)
<1> SUFFICES ViewTypes(w) /\ SamePopup(v, w) /\ Sends(v, w) /\ UpToDateNow(w) /\ Configured(w)
  OBVIOUS
<1>p. /\ resolveTracking \in Places \cup {Absent}
      /\ \A i \in DOMAIN Presets : presetPosition(Presets[i]) \in Places \cup {Absent}
      /\ setting'.presets = Presets /\ setting'.tracked = setting.tracked
      /\ ~setting.tracked <=> resolveTracking = Absent
  BY Positions
<1>t. /\ DOMAIN v = ViewFields /\ v.held \in {Absent, Default} \cup DOMAIN Presets
      /\ v.followed \in Places \cup {Absent} /\ v.tracked \in Places \cup {Absent}
  BY DEF ViewTypes
<1>a. /\ Absent # Default /\ \A i \in DOMAIN Presets : i \notin {Absent, Tracked, Default}
      /\ Absent \notin Places
  BY DEF MapAssumption
<1>s. SamePopup(v, v) /\ Stays(v, v) /\ Sends(v, v)
  BY DEF SamePopup, Stays, Sends
<1>1. CASE v.held = Absent
  <2>1. ASSUME NEW z, z.held = Absent
        PROVE  follow(z) = z
    BY <2>1 DEF follow, IsPreset
  <2>2. CASE ~setting.tracked
    <3>1. u = v
      BY <1>p, <2>2 DEF _resolveTracking
    <3>2. w = v
      BY <1>1, <2>1, <3>1
    <3>3. v.tracked = resolveTracking
      BY <1>p, <2>2 DEF Configured
    <3> QED
      BY <1>1, <1>a, <1>s, <3>2, <3>3 DEF UpToDateNow
  <2>3. CASE setting.tracked /\ v.tracked = resolveTracking
    <3>1. u = v
      BY <1>p, <2>3 DEF _resolveTracking
    <3>2. w = v
      BY <1>1, <2>1, <3>1
    <3> QED
      BY <1>1, <1>a, <1>s, <2>3, <3>2 DEF UpToDateNow
  <2>4. CASE setting.tracked /\ v.tracked # resolveTracking
    <3>1. u = setView(t, resolveTracking)
      BY <1>1, <1>p, <2>4 DEF _resolveTracking
    <3>2. /\ DOMAIN t = ViewFields /\ t.held = v.held /\ t.followed = v.followed
          /\ t.tracked = resolveTracking /\ Stays(v, t) /\ SamePopup(v, t)
      BY <1>t DEF ViewFields, Stays, SamePopup
    <3> HIDE DEF t
    <3>3. /\ DOMAIN u = ViewFields /\ Sent(t, u, resolveTracking)
          /\ SameStop(t, u) /\ SamePopup(t, u)
      BY <3>1, <3>2, SetViewSends
    <3> HIDE DEF u
    <3>4. w = u
      BY <1>1, <2>1, <3>2, <3>3 DEF SameStop
    <3>5. resolveTracking \in Places
      BY <1>p, <2>4
    <3>6. /\ u.held = Absent /\ u.tracked = resolveTracking /\ u.followed = v.followed
          /\ Sent(v, u, resolveTracking) /\ SamePopup(v, u)
      BY <1>1, <3>2, <3>3 DEF SameStop, Stays, Sent, SamePopup
    <3>7. SentTo(u, resolveTracking)
      BY <1>a, <3>6 DEF SentTo
    <3>8. ViewTypes(u)
      BY <1>t, <3>3, <3>5, <3>6, StepTypes DEF SamePopup
    <3>9. UpToDateNow(u) /\ Configured(u)
      BY <1>a, <2>4, <3>6 DEF UpToDateNow, Configured
    <3> QED
      BY <3>4, <3>5, <3>6, <3>7, <3>8, <3>9 DEF Sends
  <2> QED
    BY <2>2, <2>3, <2>4
<1>2. CASE v.held = Default
  <2>1. u = v
    BY <1>2, <1>a DEF _resolveTracking
  <2>2. w = v
    BY <1>2, <2>1 DEF follow, IsPreset
  <2> QED
    BY <1>2, <1>a, <1>s, <2>2 DEF UpToDateNow
<1>3. CASE v.held \in DOMAIN Presets
  <2> DEFINE p   == Presets[v.held]
             pos == presetPosition(p)
             f   == [v EXCEPT !.followed = pos]
  <2>1. u = v
    BY <1>3, <1>a DEF _resolveTracking
  <2>2. w = IF p.entity = Absent \/ pos \in {Absent, v.followed} THEN v ELSE setView(f, pos)
    BY <1>3, <1>a, <1>p, <2>1 DEF follow, IsPreset
  <2>3. CASE p.entity = Absent \/ pos \in {Absent, v.followed}
    <3>1. w = v
      BY <2>2, <2>3
    <3>2. p.entity = Absent => pos = p.at /\ v.followed = p.at
      BY <1>3 DEF presetPosition, Configured
    <3>3. UpToDateNow(v)
      BY <1>3, <1>a, <2>3, <3>2 DEF UpToDateNow
    <3> QED
      BY <1>s, <3>1, <3>3
  <2>4. CASE ~(p.entity = Absent \/ pos \in {Absent, v.followed})
    <3>1. w = setView(f, pos)
      BY <2>2, <2>4
    <3>2. /\ DOMAIN f = ViewFields /\ f.held = v.held /\ f.followed = pos
          /\ f.tracked = v.tracked /\ Stays(v, f) /\ SamePopup(v, f)
      BY <1>t DEF ViewFields, Stays, SamePopup
    <3> HIDE DEF f
    <3>3. /\ DOMAIN w = ViewFields /\ Sent(f, w, pos) /\ SameStop(f, w) /\ SamePopup(f, w)
      BY <3>1, <3>2, SetViewSends
    <3> HIDE DEF w, u
    <3>4. pos \in Places
      BY <1>3, <1>p, <2>4
    <3>5. /\ w.held = v.held /\ w.tracked = v.tracked /\ w.followed = pos
          /\ Sent(v, w, pos) /\ SamePopup(v, w)
      BY <3>2, <3>3 DEF SameStop, Stays, Sent, SamePopup
    <3>6. SentTo(w, pos) /\ UpToDateNow(w)
      BY <1>3, <1>a, <3>5 DEF SentTo, UpToDateNow
    <3>7. Configured(w)
      BY <2>4, <3>5 DEF Configured
    <3>8. ViewTypes(w)
      BY <1>t, <3>3, <3>4, <3>5, StepTypes DEF SamePopup
    <3> QED
      BY <3>4, <3>5, <3>6, <3>7, <3>8 DEF Sends
  <2> QED
    BY <2>3, <2>4
<1> QED
  BY <1>1, <1>2, <1>3, <1>t

LEMMA GoesTo ==
    ASSUME MapAssumption, MapTypes, MapStep, NEW v, ViewTypes(v), Configured(v), NEW key,
           key = Default \/ (key = Tracked /\ liveTrackedStop # Absent) \/ key \in DOMAIN Presets
    PROVE  LET w == _go(v, key)
           IN  ViewTypes(w) /\ SamePopup(v, w) /\ Sends(v, w) /\ UpToDateNow(w) /\ Configured(w)
<1> DEFINE place   == _view(key)
           held    == IF key = Tracked \/ (key = Default /\ liveTrackedStop = Absent)
                      THEN Absent ELSE key
           goes    == [v EXCEPT !.held = held, !.followed = IF IsPreset(key) THEN place ELSE Absent]
           settled == IF held = Absent THEN [goes EXCEPT !.timer = FALSE] ELSE _arm(goes)
           told    == _onStopChange(settled)
           w       == _go(v, key)
<1> SUFFICES ViewTypes(w) /\ SamePopup(v, w) /\ Sends(v, w) /\ UpToDateNow(w) /\ Configured(w)
  OBVIOUS
<1>p. /\ resolveTracking \in Places \cup {Absent} /\ liveTrackedStop \in Places \cup {Absent}
      /\ \A i \in DOMAIN Presets : presetPosition(Presets[i]) \in Places \cup {Absent}
      /\ liveTrackedStop # Absent => resolveTracking = liveTrackedStop
      /\ liveTrackedStop = Absent => resolveTracking \in {Home, Absent}
      /\ setting'.presets = Presets /\ setting'.centre = Home
      /\ ~setting.tracked <=> resolveTracking = Absent
  BY Positions
<1>t. /\ DOMAIN v = ViewFields /\ v.held \in {Absent, Default} \cup DOMAIN Presets
      /\ v.followed \in Places \cup {Absent} /\ v.tracked \in Places \cup {Absent}
  BY DEF ViewTypes
<1>a. /\ Absent # Default /\ Absent # Tracked /\ Tracked # Default
      /\ \A i \in DOMAIN Presets : i \notin {Absent, Tracked, Default}
      /\ Home \in Places /\ Absent \notin Places
  BY DEF MapAssumption
<1>w. w = IF place = Absent THEN told ELSE setView(told, place)
  BY DEF _go
<1>1. /\ DOMAIN goes = ViewFields /\ goes.held = held /\ goes.tracked = v.tracked
      /\ goes.followed = (IF IsPreset(key) THEN place ELSE Absent)
      /\ Stays(v, goes) /\ SamePopup(v, goes)
  BY <1>t DEF ViewFields, Stays, SamePopup
<1> HIDE DEF goes
<1>2. /\ DOMAIN settled = ViewFields /\ SameStop(goes, settled)
      /\ Stays(goes, settled) /\ SamePopup(goes, settled)
  BY <1>1 DEF _arm, ViewFields, SameStop, Stays, SamePopup
<1> HIDE DEF settled
<1>3. /\ DOMAIN told = ViewFields /\ told.held = held
      /\ told.followed = (IF IsPreset(key) THEN place ELSE Absent)
      /\ told.tracked = (IF held = Absent THEN resolveTracking ELSE v.tracked)
      /\ Stays(v, told) /\ SamePopup(v, told)
  BY <1>1, <1>2 DEF _onStopChange, ViewFields, SameStop, Stays, SamePopup
<1> HIDE DEF told
<1>4. /\ place \in Places \cup {Absent} /\ held \in {Absent, Default} \cup DOMAIN Presets
      /\ key = Default => place = Home
      /\ key = Tracked => place = liveTrackedStop
      /\ key \in DOMAIN Presets => place = presetPosition(Presets[key])
  BY <1>p, <1>a DEF _view
<1>5. IsPreset(key) <=> key \in DOMAIN Presets
  BY <1>a DEF IsPreset
<1> HIDE DEF place
<1>6. /\ held = Absent => key \in {Tracked, Default} /\ (resolveTracking # Absent => place = resolveTracking)
      /\ held = Default => key = Default
      /\ held \in DOMAIN Presets => key = held
  BY <1>a, <1>p, <1>4
<1> HIDE DEF held
<1>7. ASSUME NEW z, SameStop(told, z)
      PROVE  /\ UpToDateNow(z)
             /\ z.followed \in Places \cup {Absent} /\ z.held \in {Absent, Default} \cup DOMAIN Presets
             /\ place # Absent => SentTo(z, place)
             /\ place = Absent => \A base : SentTo(z, base)
  <2>1. z.held = held /\ z.followed = told.followed /\ z.tracked = told.tracked
    BY <1>3, <1>7 DEF SameStop
  <2>2. CASE held = Absent
    <3>1. z.held = Absent /\ z.tracked = resolveTracking /\ z.followed = Absent /\ place # Absent
      BY <1>3, <1>4, <1>5, <1>6, <1>a, <2>1, <2>2
    <3> QED
      BY <1>6, <1>a, <2>2, <3>1 DEF UpToDateNow, SentTo
  <2>3. CASE held = Default
    <3>1. z.held = Default /\ z.followed = Absent /\ place = Home
      BY <1>3, <1>4, <1>5, <1>6, <1>a, <2>1, <2>3
    <3> QED
      BY <1>a, <3>1 DEF UpToDateNow, SentTo
  <2>4. CASE held \in DOMAIN Presets
    <3>1. z.held = key /\ z.followed = place /\ place = presetPosition(Presets[key]) /\ key \in DOMAIN Presets
      BY <1>3, <1>4, <1>5, <1>6, <2>1, <2>4
    <3> QED
      BY <1>4, <1>a, <3>1 DEF UpToDateNow, SentTo
  <2> QED
    BY <1>4, <2>2, <2>3, <2>4
<1>8. ASSUME NEW z, SameStop(told, z)
      PROVE  z.tracked \in Places \cup {Absent}
  BY <1>3, <1>p, <1>t, <1>8 DEF SameStop
<1>9. ASSUME NEW z, SameStop(told, z)
      PROVE  Configured(z)
  <2>1. z.held = held /\ z.followed = told.followed /\ z.tracked = told.tracked
    BY <1>3, <1>9 DEF SameStop
  <2>2. ~setting.tracked => z.tracked = Absent
    BY <1>3, <1>p, <2>1 DEF Configured
  <2>3. ASSUME z.held \in DOMAIN Presets, Presets[z.held].entity = Absent
        PROVE  z.followed = Presets[z.held].at
    BY <1>3, <1>4, <1>5, <1>6, <2>1, <2>3 DEF presetPosition
  <2> QED
    BY <2>2, <2>3 DEF Configured
<1>10. CASE place = Absent
  <2>1. w = told
    BY <1>10, <1>w
  <2>2. SameStop(told, told)
    BY DEF SameStop
  <2> HIDE DEF w
  <2>3. ViewTypes(told)
    BY <1>3, <1>7, <1>8, <1>a, <2>2, StepTypes DEF SamePopup
  <2> QED
    BY <1>10, <1>3, <1>7, <1>9, <2>1, <2>2, <2>3 DEF Sends
<1>11. CASE place # Absent
  <2>1. w = setView(told, place)
    BY <1>11, <1>w
  <2> HIDE DEF w
  <2>2. /\ DOMAIN w = ViewFields /\ Sent(told, w, place) /\ SameStop(told, w) /\ SamePopup(told, w)
    BY <1>3, <2>1, SetViewSends
  <2>3. Sent(v, w, place) /\ SamePopup(v, w) /\ place \in Places
    BY <1>11, <1>3, <1>4, <2>2 DEF Stays, Sent, SamePopup
  <2>4. ViewTypes(w)
    BY <1>7, <1>8, <2>2, <2>3, StepTypes DEF SamePopup
  <2> QED
    BY <1>11, <1>7, <1>9, <2>2, <2>3, <2>4 DEF Sends
<1> QED
  BY <1>10, <1>11

-----------------------------------------------------------------------------
(* MapView: the steps                                                       *)

LEMMA IdleStep ==
    ASSUME MapInv, Idle
    PROVE  MapStep /\ gps' = gps
  BY DEF MapInv, MapTypes, Idle, MapStep

\* The card moves the map, or finds that it need not; v is the view with what
\* does not matter here set before.
LEMMA SendsKeep ==
    ASSUME MapAssumption, MapInv, MapStep, NEW m, Noted(m),
           NEW v, Stays(view, v), SameStop(view, v), SamePopup(view, v),
           Sends(v, view'), SamePopup(v, view'),
           ViewTypes(view'), UpToDateNow(view'), Configured(view')
    PROVE  MapInv'
<1>1. gps' \in Fixes /\ setting' = setting
  BY DEF MapStep
<1>2. UpToDate(view)' /\ Configured(view)'
  BY <1>1 DEF UpToDateNow, UpToDate, Located, resolveTracking, PlaceOf, presetPosition, Configured
<1>3. view'.popup = view.popup /\ view'.closing = view.closing
  BY DEF SamePopup
<1>4. ViewTypes(view)'
  BY DEF ViewTypes
<1>5. CASE \E place \in Places : Sent(v, view', place) /\ SentTo(view', place)
  <2>1. PICK place \in Places : Sent(v, view', place) /\ SentTo(view', place)
    BY <1>5
  <2>2. Sent(view, view', place)
    BY <2>1 DEF Sent, Stays
  <2>3. /\ DOMAIN past' = {"base", "by", "cut", "missed"} /\ past'.cut \in BOOLEAN
        /\ ~past'.cut => Shown(view', past'.base) /\ Saves(view', past'.base)
        /\ ~past'.cut => past'.base = place
        /\ view'.move # Absent => view'.move.by = "card"
    BY <2>2, NotedSends
  <2>4. MapTypes'
    BY <1>1, <2>3 DEF MapInv, MapTypes
  <2>5. Popups(view)'
    <3>1. view'.saved # Absent => view'.saved = view.saved
      BY <2>2 DEF Sent
    <3>2. view.saved # Absent => view.popup \/ view.closing
      BY DEF MapInv, Popups
    <3> QED
      BY <1>3, <2>3, <3>1, <3>2 DEF Popups
  <2>6. ~past'.cut => Shown(view, past.base)' /\ Saves(view, past.base)'
    BY <2>3 DEF Shown, Saves
  <2>7. ~past'.cut => SentTo(view, past.base)'
    BY <2>1, <2>3 DEF SentTo
  <2> QED
    BY <1>2, <1>4, <2>4, <2>5, <2>6, <2>7 DEF MapInv
<1>6. CASE Stays(v, view') /\ \A base : SentTo(v, base) => SentTo(view', base)
  <2>1. Stays(view, view')
    BY <1>6 DEF Stays
  <2>2. /\ DOMAIN past' = {"base", "by", "cut", "missed"} /\ past'.cut \in BOOLEAN
        /\ past'.base = past.base /\ past'.by = past.by /\ past'.cut = past.cut
    BY <2>1, NotedStays
  <2>3. MapTypes'
    BY <1>1, <2>2 DEF MapInv, MapTypes
  <2>4. Popups(view)'
    BY <1>3, <2>1 DEF MapInv, Popups, Stays
  <2>5. ~past'.cut => Shown(view, past.base)' /\ Saves(view, past.base)'
    BY <2>1, <2>2 DEF MapInv, Shown, Saves, Stays
  <2>6. SentTo(view, past.base) => SentTo(v, past.base)
    BY DEF SentTo, SameStop
  <2>7. SentTo(view, past.base) => SentTo(view, past.base)'
    <3>1. SentTo(view, past.base) => SentTo(view', past.base)
      BY <1>6, <2>6
    <3> QED
      BY <2>2, <3>1 DEF SentTo
  <2> QED
    BY <1>2, <1>4, <2>2, <2>3, <2>4, <2>5, <2>7 DEF MapInv
<1> QED
  BY <1>5, <1>6 DEF Sends

\* Nothing is sent anywhere: the stop stays, and so do the places.
LEMMA StopStays ==
    ASSUME MapInv, MapStep, gps' = gps, SameStop(view, view')
    PROVE  /\ Configured(view)' /\ (UpToDate(view) => UpToDate(view)')
           /\ \A base : SentTo(view, base) => SentTo(view', base)
<1>1. view'.held = view.held /\ view'.followed = view.followed /\ view'.tracked = view.tracked
  BY DEF SameStop
<1>2. setting' = setting /\ gps' = gps
  BY DEF MapStep
<1> QED
  BY <1>1, <1>2 DEF MapInv, Configured, UpToDate, Located, PlaceOf, SentTo

\* The map, its move and the view saved stay too, and the history.
LEMMA RestKeeps ==
    ASSUME MapInv, MapStep, gps' = gps, SameStop(view, view'), Stays(view, view'),
           DOMAIN view' = ViewFields, view'.editing = view.editing,
           view'.saved # Absent => view'.popup \/ view'.closing,
           DOMAIN past' = DOMAIN past, past'.base = past.base, past'.by = past.by,
           past'.cut = past.cut, past.missed => past'.missed
    PROVE  MapInv'
<1>1. Configured(view)' /\ (UpToDate(view) => UpToDate(view)') /\ (SentTo(view, past.base) => SentTo(view', past.base))
  BY StopStays
<1>2. MapTypes'
  BY DEF MapInv, MapTypes, MapStep
<1>3. ViewTypes(view)'
  BY DEF MapInv, ViewTypes, SameStop, Stays
<1>4. Popups(view)'
  BY DEF MapInv, Popups, Stays
<1>5. ~past'.cut => Shown(view, past.base)' /\ Saves(view, past.base)'
  BY DEF MapInv, Shown, Saves, Stays
<1>6. SentTo(view, past.base) => SentTo(view, past.base)'
  BY <1>1 DEF SentTo
<1> QED
  BY <1>1, <1>2, <1>3, <1>4, <1>5, <1>6 DEF MapInv

LEMMA HassUpdateKeeps ==
    ASSUME MapAssumption, MapInv, NEW here \in Fixes, HassUpdate(here)
    PROVE  MapInv'
<1>1. MapStep /\ Noted(view.hand) /\ MapTypes /\ ViewTypes(view) /\ Configured(view)
  BY DEF HassUpdate, MapStep, MapInv
<1>2. CASE view.hand
  <2>1. _resolveTracking(view) = view
    BY <1>2 DEF _resolveTracking
  <2>2. view' = view
    BY <1>2, <2>1 DEF HassUpdate
  <2>3. Stays(view, view') /\ SameStop(view, view')
    BY <2>2 DEF Stays, SameStop
  <2>4. /\ DOMAIN past' = {"base", "by", "cut", "missed"} /\ past'.missed = view.hand
        /\ past'.base = past.base /\ past'.by = past.by /\ past'.cut = past.cut
    BY <1>1, <2>3, NotedStays
  <2>5. MapTypes'
    BY <1>1, <2>4 DEF MapTypes, MapStep
  <2>6. ViewTypes(view)' /\ Popups(view)' /\ past'.missed
    BY <1>1, <1>2, <2>2, <2>4 DEF MapInv, ViewTypes, Popups
  <2>7. Configured(view)'
    BY <1>1, <2>2 DEF Configured, MapStep
  <2>8. ~past'.cut => Shown(view, past.base)' /\ Saves(view, past.base)'
    BY <2>2, <2>4 DEF MapInv, Shown, Saves
  <2>9. ~past'.cut /\ past'.by = "card" => SentTo(view, past.base)'
    BY <2>2, <2>4 DEF MapInv, SentTo
  <2> QED
    BY <2>5, <2>6, <2>7, <2>8, <2>9 DEF MapInv
<1>3. CASE ~view.hand
  <2> DEFINE u == _resolveTracking(view)
  <2>1. ~u.hand
    <3> DEFINE t == [view EXCEPT !.tracked = resolveTracking]
    <3>1. DOMAIN t = ViewFields /\ ~t.hand
      BY <1>1, <1>3 DEF ViewTypes, ViewFields
    <3> HIDE DEF t
    <3>2. ~setView(t, resolveTracking).hand
      BY <3>1, SetViewSends
    <3> QED
      BY <1>3, <3>2 DEF _resolveTracking, t
  <2>2. view' = follow(u)
    BY <2>1 DEF HassUpdate
  <2>3. /\ ViewTypes(view') /\ SamePopup(view, view') /\ Sends(view, view')
        /\ UpToDateNow(view') /\ Configured(view')
    BY <1>1, <1>3, <2>2, CatchesUp
  <2>4. Stays(view, view) /\ SameStop(view, view) /\ SamePopup(view, view)
    BY DEF Stays, SameStop, SamePopup
  <2> QED
    BY <1>1, <2>3, <2>4, SendsKeep
<1> QED
  BY <1>2, <1>3

LEMMA GoKeeps ==
    ASSUME MapAssumption, MapInv, Idle, NEW m, Noted(m),
           NEW v, Stays(view, v), SameStop(view, v), SamePopup(view, v), DOMAIN v = ViewFields,
           NEW key, view' = _go(v, key),
           key = Default \/ (key = Tracked /\ liveTrackedStop # Absent) \/ key \in DOMAIN Presets
    PROVE  MapInv'
<1>1. MapStep /\ MapTypes /\ ViewTypes(view) /\ Configured(view)
  BY IdleStep DEF MapInv
<1>2. ViewTypes(v) /\ Configured(v)
  BY <1>1 DEF ViewTypes, Configured, Stays, SameStop, SamePopup
<1>3. /\ ViewTypes(view') /\ SamePopup(v, view') /\ Sends(v, view')
      /\ UpToDateNow(view') /\ Configured(view')
  BY <1>1, <1>2, GoesTo
<1> QED
  BY <1>1, <1>3, SendsKeep

LEMMA RestIsStop ==
    Rest = Default \/ (Rest = Tracked /\ liveTrackedStop # Absent)
  BY DEF Rest

\* The stops after one, unless there are none: the first of them.
LEMMA NextIsStop ==
    ASSUME MapAssumption, MapInv, MapStep, NEW current, NEW onStop,
           \/ current = Default \/ (current = Tracked /\ liveTrackedStop # Absent)
           \/ current \in DOMAIN Presets
    PROVE  LET key == nextStop(current, onStop)
           IN  key = Default \/ (key = Tracked /\ liveTrackedStop # Absent) \/ key \in DOMAIN Presets
<1> DEFINE later == {i \in _stops : current = Default \/ (current \in _stops /\ i > current)}
<1>1. setting'.presets = Presets
  BY DEF MapInv, MapTypes, MapStep
<1>2. later \subseteq DOMAIN Presets /\ DOMAIN Presets \subseteq Nat
  BY <1>1 DEF _stops, MapAssumption
<1> HIDE DEF later
<1>3. later # {} => Min(later) \in later
  <2>1. later \subseteq Nat
    BY <1>2
  <2> QED
    BY <2>1, LeastOf
<1>4. nextStop(current, onStop) =
        IF ~onStop THEN current
        ELSE IF current = Tracked THEN Default
        ELSE IF later # {} THEN Min(later) ELSE Rest
  BY DEF nextStop, later
<1> QED
  BY <1>2, <1>3, <1>4, RestIsStop

LEMMA PressRecenterKeeps ==
    ASSUME MapAssumption, MapInv, PressRecenter
    PROVE  MapInv'
<1> DEFINE key == recenterKey(view)
<1>1. Idle /\ view' = _go(view, key) /\ Noted(past.missed)
  BY DEF PressRecenter
<1>2. MapStep /\ DOMAIN view = ViewFields /\ view.editing = Absent
      /\ view.held \in {Absent, Default} \cup DOMAIN Presets
  BY <1>1, IdleStep DEF MapInv, ViewTypes
<1>3. \/ _currentKey(view) = Default
      \/ _currentKey(view) = Tracked /\ liveTrackedStop # Absent
      \/ _currentKey(view) \in DOMAIN Presets
  BY <1>2, RestIsStop DEF _currentKey
<1>4. PICK onStop \in BOOLEAN : key = nextStop(_currentKey(view), onStop)
  <2> DEFINE at == _view(_currentKey(view)) = Absent \/ _isAt(view, _view(_currentKey(view)))
  <2>1. key = nextStop(_currentKey(view), at)
    BY <1>2 DEF recenterKey
  <2>2. at \in BOOLEAN
    OBVIOUS
  <2> QED
    BY <2>1, <2>2
<1>5. key = Default \/ (key = Tracked /\ liveTrackedStop # Absent) \/ key \in DOMAIN Presets
  BY <1>2, <1>3, <1>4, NextIsStop
<1>6. Stays(view, view) /\ SameStop(view, view) /\ SamePopup(view, view)
  BY DEF Stays, SameStop, SamePopup
<1> HIDE DEF key
<1> QED
  BY <1>1, <1>2, <1>5, <1>6, GoKeeps

LEMMA PressLabelKeeps ==
    ASSUME MapAssumption, MapInv, PressLabel
    PROVE  MapInv'
<1>1. Idle /\ view' = clear(view) /\ Noted(past.missed)
  BY DEF PressLabel
<1>2. DOMAIN view = ViewFields /\ view.editing = Absent
  BY DEF MapInv, ViewTypes
<1>3. view' = _go(view, Rest)
  BY <1>1, <1>2 DEF clear
<1>4. Stays(view, view) /\ SameStop(view, view) /\ SamePopup(view, view)
  BY DEF Stays, SameStop, SamePopup
<1> QED
  BY <1>1, <1>2, <1>3, <1>4, RestIsStop, GoKeeps

LEMMA IdleTimerKeeps ==
    ASSUME MapAssumption, MapInv, IdleTimerFires
    PROVE  MapInv'
<1> DEFINE v == [view EXCEPT !.timer = FALSE]
<1>1. Idle /\ view' = clear(v) /\ Noted(past.missed)
  BY DEF IdleTimerFires
<1>2. DOMAIN view = ViewFields /\ view.editing = Absent
  BY DEF MapInv, ViewTypes
<1>3. /\ Stays(view, v) /\ SameStop(view, v) /\ SamePopup(view, v)
      /\ DOMAIN v = ViewFields /\ v.editing = Absent
  BY <1>2 DEF Stays, SameStop, SamePopup, ViewFields
<1> HIDE DEF v
<1>4. view' = _go(v, Rest)
  BY <1>1, <1>3 DEF clear
<1> QED
  BY <1>1, <1>3, <1>4, RestIsStop, GoKeeps

LEMMA MoveEndsKeeps ==
    ASSUME MapAssumption, MapInv, MoveEnds
    PROVE  MapInv'
<1> DEFINE to == view.move.to
<1>1. /\ Idle /\ MapStep /\ gps' = gps /\ Noted(past.missed)
      /\ view.move # Absent /\ view.move.by # "hand"
      /\ view' = [MapRests(view) EXCEPT !.at = to]
  BY IdleStep DEF MoveEnds
<1>2. DOMAIN view = ViewFields
  BY DEF MapInv, ViewTypes
<1>3. /\ DOMAIN view' = ViewFields /\ view'.at = to /\ view'.move = Absent
      /\ view'.saved = view.saved /\ SameStop(view, view') /\ SamePopup(view, view')
  BY <1>1, <1>2 DEF MapRests, ViewFields, SameStop, SamePopup
<1>4. to \in Places \cup {Aside} /\ (view.move.by = "card" \/ (view.move.by = "popup" /\ to = Aside))
  BY <1>1 DEF MapInv, ViewTypes, Popups, Moves
<1> HIDE DEF to
<1>5. /\ DOMAIN past' = {"base", "by", "cut", "missed"} /\ past'.missed = past.missed
      /\ past'.base = past.base /\ past'.by = past.by /\ (past'.cut <=> past.cut) /\ past'.cut \in BOOLEAN
  <2> DEFINE moves == view'.move \notin {Absent, view.move} /\ view'.move.by = "card"
  <2>1. ~moves
    BY <1>3
  <2>2. past' = [base   |-> IF moves THEN view'.move.to ELSE past.base,
                 by     |-> IF moves THEN "card" ELSE past.by,
                 cut    |-> past.cut /\ ~moves,
                 missed |-> past.missed]
    BY <1>1 DEF Noted
  <2> HIDE DEF moves
  <2> QED
    BY <2>1, <2>2
<1>6. Configured(view)' /\ (UpToDate(view) => UpToDate(view)') /\ (SentTo(view, past.base) => SentTo(view', past.base))
  BY <1>1, <1>3, StopStays
<1>7. MapTypes'
  BY <1>1, <1>5 DEF MapInv, MapTypes, MapStep
<1>8. ViewTypes(view)'
  BY <1>3, <1>4 DEF MapInv, ViewTypes, SameStop, SamePopup
<1>9. Popups(view)'
  BY <1>3 DEF MapInv, Popups, SamePopup
<1>10. ~past'.cut => Shown(view, past.base)' /\ Saves(view, past.base)'
  <2> SUFFICES ASSUME ~past.cut
               PROVE  Shown(view, past.base)' /\ Saves(view, past.base)'
    BY <1>5
  <2>1. Shown(view, past.base) /\ Saves(view, past.base)
    BY DEF MapInv
  <2>2. Saves(view, past.base)'
    BY <1>3, <1>5, <2>1 DEF Saves
  <2>3. CASE view.move.by = "card"
    <3>1. to = past.base
      BY <1>1, <2>1, <2>3 DEF Shown, to
    <3> QED
      BY <1>3, <1>5, <2>2, <3>1 DEF Shown
  <2>4. CASE view.move.by = "popup" /\ to = Aside
    <3>1. view.saved # Absent
      BY <1>1, <2>1, <2>4 DEF Shown
    <3> QED
      BY <1>3, <1>5, <2>2, <2>4, <3>1 DEF Shown
  <2> QED
    BY <1>4, <2>3, <2>4
<1>11. SentTo(view, past.base) => SentTo(view, past.base)'
  BY <1>5, <1>6 DEF SentTo
<1> QED
  BY <1>5, <1>6, <1>7, <1>8, <1>9, <1>10, <1>11 DEF MapInv

LEMMA GraceEndsKeeps ==
    ASSUME MapAssumption, MapInv, GraceEnds
    PROVE  MapInv'
<1>1. /\ Idle /\ MapStep /\ gps' = gps /\ view' = AfterGrace
      /\ Noted(past.missed /\ (view.started \/ ~view.hand))
  BY IdleStep DEF GraceEnds
<1>2. MapTypes /\ ViewTypes(view) /\ Configured(view) /\ Popups(view) /\ DOMAIN view = ViewFields
  BY DEF MapInv, ViewTypes
<1>3. CASE view.started \/ ~view.hand
  <2>1. view' = [view EXCEPT !.grace = FALSE]
    BY <1>1, <1>3 DEF AfterGrace
  <2>2. Stays(view, view') /\ SameStop(view, view') /\ SamePopup(view, view') /\ DOMAIN view' = ViewFields
    BY <1>2, <2>1 DEF ViewFields, Stays, SameStop, SamePopup
  <2>3. /\ DOMAIN past' = {"base", "by", "cut", "missed"}
        /\ past'.missed = (past.missed /\ (view.started \/ ~view.hand))
        /\ past'.base = past.base /\ past'.by = past.by /\ past'.cut = past.cut
    BY <1>1, <2>2, NotedStays
  <2>4. DOMAIN past' = DOMAIN past /\ (past.missed => past'.missed)
    BY <1>2, <1>3, <2>3 DEF MapTypes
  <2>5. view'.editing = view.editing /\ (view'.saved # Absent => view'.popup \/ view'.closing)
    BY <1>2, <2>2 DEF Popups, SamePopup, Stays
  <2> QED
    BY <1>1, <2>2, <2>3, <2>4, <2>5, RestKeeps
<1>4. CASE ~(view.started \/ ~view.hand)
  <2> DEFINE v == [view EXCEPT !.grace = FALSE, !.hand = FALSE]
  <2>1. view' = follow(_resolveTracking(v))
    BY <1>1, <1>4 DEF AfterGrace
  <2>2. /\ Stays(view, v) /\ SameStop(view, v) /\ SamePopup(view, v)
        /\ DOMAIN v = ViewFields /\ ~v.hand
    BY <1>2 DEF ViewFields, Stays, SameStop, SamePopup
  <2> HIDE DEF v
  <2>3. ViewTypes(v) /\ Configured(v)
    BY <1>2, <2>2 DEF ViewTypes, Configured, Stays, SameStop, SamePopup
  <2>4. /\ ViewTypes(view') /\ SamePopup(v, view') /\ Sends(v, view')
        /\ UpToDateNow(view') /\ Configured(view')
    BY <1>1, <1>2, <2>1, <2>2, <2>3, CatchesUp
  <2> QED
    BY <1>1, <2>2, <2>4, SendsKeep
<1> QED
  BY <1>3, <1>4

\* A press may stop the map short of its base: that is the base from then on.
LEMMA PointerDownKeeps ==
    ASSUME MapAssumption, MapInv, PointerDown
    PROVE  MapInv'
<1> DEFINE h == [view EXCEPT !.hand = TRUE, !.down = TRUE, !.grace = FALSE]
           t == touch(h)
           stops == view.move # Absent /\ view.move.by # "popup"
<1>1. /\ Idle /\ MapStep /\ gps' = gps /\ view' = Stopped(t)
      /\ past' = IF stops THEN [past EXCEPT !.base = view.at, !.by = "unmarked"] ELSE past
  BY IdleStep DEF PointerDown
<1>2. /\ MapTypes /\ ViewTypes(view) /\ Configured(view) /\ Popups(view)
      /\ DOMAIN view = ViewFields /\ DOMAIN past = {"base", "by", "cut", "missed"}
  BY DEF MapInv, ViewTypes, MapTypes
<1>3. Stays(view, h) /\ SameStop(view, h) /\ SamePopup(view, h) /\ DOMAIN h = ViewFields
  BY <1>2 DEF ViewFields, Stays, SameStop, SamePopup
<1> HIDE DEF h
<1>4. Stays(view, t) /\ SameStop(view, t) /\ SamePopup(view, t) /\ DOMAIN t = ViewFields
  BY <1>3 DEF touch, _arm, ViewFields, Stays, SameStop, SamePopup
<1> HIDE DEF t
<1>5. /\ view'.at = view.at /\ view'.move = Absent /\ view'.saved = view.saved
      /\ SameStop(view, view') /\ SamePopup(view, view') /\ DOMAIN view' = ViewFields
  BY <1>1, <1>4 DEF Stopped, MapRests, ViewFields, Stays, SameStop, SamePopup
<1>6. Configured(view)' /\ (UpToDate(view) => UpToDate(view)') /\ (SentTo(view, past.base) => SentTo(view', past.base))
  BY <1>1, <1>5, StopStays
<1>7. ViewTypes(view)' /\ Popups(view)'
  BY <1>2, <1>5 DEF ViewTypes, Popups, SameStop, SamePopup
<1>8. CASE stops
  <2>1. /\ DOMAIN past' = {"base", "by", "cut", "missed"}
        /\ past'.base = view.at /\ past'.by = "unmarked"
        /\ past'.cut = past.cut /\ past'.missed = past.missed
    BY <1>1, <1>2, <1>8
  <2>2. MapTypes'
    BY <1>1, <1>2, <2>1 DEF MapTypes, MapStep
  <2>3. ~past.cut => view.saved = Absent
    <3>1. view.move.by \in {"card", "hand"}
      BY <1>2, <1>8 DEF ViewTypes, Moves
    <3> QED
      BY <1>2, <1>8, <3>1 DEF MapInv, Shown, Popups
  <2>4. ~past'.cut => Shown(view, past.base)' /\ Saves(view, past.base)'
    BY <1>5, <2>1, <2>3 DEF Shown, Saves
  <2> HIDE DEF stops
  <2> QED
    BY <1>6, <1>7, <2>1, <2>2, <2>4 DEF MapInv
<1>9. CASE ~stops
  <2>1. past' = past
    BY <1>1, <1>9
  <2>2. MapTypes'
    BY <1>1, <1>2, <2>1 DEF MapTypes, MapStep
  <2>3. ~past.cut => Shown(view, past.base)' /\ Saves(view, past.base)'
    BY <1>5, <1>9, <2>1 DEF MapInv, Shown, Saves
  <2>4. SentTo(view, past.base) => SentTo(view, past.base)'
    BY <1>6, <2>1 DEF SentTo
  <2> HIDE DEF stops
  <2> QED
    BY <1>6, <1>7, <2>1, <2>2, <2>3, <2>4 DEF MapInv
<1> QED
  BY <1>8, <1>9

LEMMA PointerUpKeeps ==
    ASSUME MapInv, PointerUp
    PROVE  MapInv'
<1>1. MapStep /\ gps' = gps /\ view' = [view EXCEPT !.down = FALSE, !.grace = TRUE] /\ past' = past
  BY IdleStep DEF PointerUp
<1>2. DOMAIN view = ViewFields /\ Popups(view)
  BY DEF MapInv, ViewTypes
<1>3. /\ Stays(view, view') /\ SameStop(view, view') /\ SamePopup(view, view')
      /\ DOMAIN view' = ViewFields
  BY <1>1, <1>2 DEF ViewFields, Stays, SameStop, SamePopup
<1>4. view'.editing = view.editing /\ (view'.saved # Absent => view'.popup \/ view'.closing)
  BY <1>2, <1>3 DEF Popups, SamePopup, Stays
<1> QED
  BY <1>1, <1>3, <1>4, RestKeeps

LEMMA WheelKeeps ==
    ASSUME MapInv, Wheel
    PROVE  MapInv'
<1> DEFINE h == [view EXCEPT !.hand = TRUE, !.grace = TRUE]
<1>1. MapStep /\ gps' = gps /\ view' = touch(h) /\ past' = past
  BY IdleStep DEF Wheel
<1>2. DOMAIN view = ViewFields /\ Popups(view)
  BY DEF MapInv, ViewTypes
<1>3. Stays(view, h) /\ SameStop(view, h) /\ SamePopup(view, h) /\ DOMAIN h = ViewFields
  BY <1>2 DEF ViewFields, Stays, SameStop, SamePopup
<1> HIDE DEF h
<1>4. /\ Stays(view, view') /\ SameStop(view, view') /\ SamePopup(view, view')
      /\ DOMAIN view' = ViewFields
  BY <1>1, <1>3 DEF touch, _arm, ViewFields, Stays, SameStop, SamePopup
<1>5. view'.editing = view.editing /\ (view'.saved # Absent => view'.popup \/ view'.closing)
  BY <1>2, <1>4 DEF Popups, SamePopup, Stays
<1> QED
  BY <1>1, <1>4, <1>5, RestKeeps

LEMMA HandMovesKeeps ==
    ASSUME MapAssumption, MapInv, HandMoves
    PROVE  MapInv'
<1> DEFINE s == Stopped(view)
           m == MapMoves(s, FALSE)
           new == [to |-> Absent, by |-> "hand"]
<1>1. /\ MapStep /\ gps' = gps /\ view' = [m EXCEPT !.move = new] /\ past' = past
  BY IdleStep DEF HandMoves
<1>2. MapTypes /\ ViewTypes(view) /\ DOMAIN view = ViewFields
  BY DEF MapInv, ViewTypes
<1>3. s.at = view.at /\ SameStop(view, s) /\ SamePopup(view, s) /\ DOMAIN s = ViewFields
  BY <1>2 DEF Stopped, MapRests, ViewFields, SameStop, SamePopup
<1> HIDE DEF s
<1>4. /\ m.at = view.at /\ m.saved = Absent /\ SameStop(view, m) /\ SamePopup(view, m)
      /\ DOMAIN m = ViewFields
  BY <1>3 DEF MapMoves, ViewFields, SameStop, SamePopup
<1> HIDE DEF m
<1>5. /\ view'.at = view.at /\ view'.move = new /\ view'.saved = Absent
      /\ SameStop(view, view') /\ SamePopup(view, view') /\ DOMAIN view' = ViewFields
  BY <1>1, <1>4 DEF ViewFields, SameStop, SamePopup
<1>6. new.by = "hand" /\ new \in Moves
  BY DEF Moves
<1>7. new # Absent
  BY DEF MapAssumption
<1> HIDE DEF new
<1>8. Configured(view)' /\ (UpToDate(view) => UpToDate(view)') /\ (SentTo(view, past.base) => SentTo(view', past.base))
  BY <1>1, <1>5, StopStays
<1>9. ViewTypes(view)' /\ Popups(view)'
  BY <1>2, <1>5, <1>6 DEF ViewTypes, Popups, SameStop, SamePopup
<1>10. MapTypes'
  BY <1>1, <1>2 DEF MapTypes, MapStep
<1>11. Shown(view, past.base)' /\ Saves(view, past.base)'
  BY <1>5, <1>6, <1>7 DEF Shown, Saves
<1>12. SentTo(view, past.base) => SentTo(view, past.base)'
  BY <1>1, <1>8 DEF SentTo
<1> QED
  BY <1>1, <1>8, <1>9, <1>10, <1>11, <1>12 DEF MapInv

LEMMA HandMoveEndsKeeps ==
    ASSUME MapInv, NEW place \in Places, HandMoveEnds(place)
    PROVE  MapInv'
<1>1. /\ MapStep /\ gps' = gps /\ view' = [MapRests(view) EXCEPT !.at = place]
      /\ view.move # Absent /\ view.move.by = "hand"
      /\ past' = [past EXCEPT !.base = place, !.cut = FALSE,
                               !.by = IF view.hand THEN "hand" ELSE "unmarked"]
  BY IdleStep DEF HandMoveEnds
<1>2. /\ MapTypes /\ ViewTypes(view) /\ Popups(view) /\ DOMAIN view = ViewFields
      /\ DOMAIN past = {"base", "by", "cut", "missed"}
  BY DEF MapInv, ViewTypes, MapTypes
<1>3. /\ view'.at = place /\ view'.move = Absent /\ view'.saved = view.saved
      /\ SameStop(view, view') /\ SamePopup(view, view') /\ DOMAIN view' = ViewFields
  BY <1>1, <1>2 DEF MapRests, ViewFields, SameStop, SamePopup
<1>4. /\ DOMAIN past' = {"base", "by", "cut", "missed"} /\ past'.base = place
      /\ past'.by # "card" /\ past'.cut = FALSE /\ past'.missed = past.missed
  BY <1>1, <1>2
<1>5. Configured(view)' /\ (UpToDate(view) => UpToDate(view)')
  BY <1>1, <1>3, StopStays
<1>6. ViewTypes(view)' /\ Popups(view)'
  BY <1>2, <1>3 DEF ViewTypes, Popups, SameStop, SamePopup
<1>7. MapTypes'
  BY <1>1, <1>2, <1>4 DEF MapTypes, MapStep
<1>8. view'.saved = Absent
  BY <1>1, <1>2, <1>3 DEF Popups
<1>9. Shown(view, past.base)' /\ Saves(view, past.base)'
  BY <1>3, <1>4, <1>8 DEF Shown, Saves
<1> QED
  BY <1>4, <1>5, <1>6, <1>7, <1>9 DEF MapInv

LEMMA PopupOpensKeeps ==
    ASSUME MapAssumption, MapInv, NEW fits \in BOOLEAN, PopupOpens(fits)
    PROVE  MapInv'
<1> DEFINE v == [view EXCEPT !.popup = TRUE, !.closing = FALSE,
                             !.saved = IF @ = Absent THEN view.at ELSE @]
           s == Stopped(v)
           m == MapMoves(s, TRUE)
           new == [to |-> Aside, by |-> "popup"]
<1>1. /\ MapStep /\ gps' = gps /\ (view.move # Absent => view.move.by # "hand")
      /\ view' = IF fits THEN v ELSE [m EXCEPT !.move = new]
      /\ past' = [past EXCEPT !.cut = @ \/ (view.move # Absent /\ view.move.by = "card")]
  BY IdleStep DEF PopupOpens
<1>2. /\ MapTypes /\ ViewTypes(view) /\ Popups(view) /\ DOMAIN view = ViewFields
      /\ DOMAIN past = {"base", "by", "cut", "missed"} /\ past.cut \in BOOLEAN
  BY DEF MapInv, ViewTypes, MapTypes
<1>3. /\ DOMAIN v = ViewFields /\ v.at = view.at /\ v.move = view.move /\ SameStop(view, v)
      /\ v.saved = (IF view.saved = Absent THEN view.at ELSE view.saved)
      /\ v.popup = TRUE /\ v.editing = view.editing
  BY <1>2 DEF ViewFields, SameStop
<1> HIDE DEF v
<1>4. /\ DOMAIN s = ViewFields /\ s.at = view.at /\ SameStop(view, s)
      /\ s.saved = v.saved /\ s.popup = TRUE /\ s.editing = view.editing
  BY <1>3 DEF Stopped, MapRests, ViewFields, SameStop
<1> HIDE DEF s
<1>5. /\ DOMAIN m = ViewFields /\ m.at = view.at /\ SameStop(view, m)
      /\ m.saved = v.saved /\ m.popup = TRUE /\ m.editing = view.editing
  BY <1>4 DEF MapMoves, ViewFields, SameStop
<1> HIDE DEF m
<1>6. new.to = Aside /\ new.by = "popup" /\ new \in Moves
  BY DEF Moves
<1>7. new # Absent /\ Absent \notin Places \cup {Aside}
  BY DEF MapAssumption
<1> HIDE DEF new
<1>8. /\ DOMAIN view' = ViewFields /\ view'.at = view.at /\ SameStop(view, view')
      /\ view'.saved = (IF view.saved = Absent THEN view.at ELSE view.saved)
      /\ view'.popup = TRUE /\ view'.editing = view.editing
      /\ view'.move \in {view.move, new}
  BY <1>1, <1>3, <1>5 DEF ViewFields, SameStop
<1>9. /\ DOMAIN past' = {"base", "by", "cut", "missed"} /\ past'.base = past.base
      /\ past'.by = past.by /\ past'.missed = past.missed /\ past'.cut \in BOOLEAN
      /\ ~past'.cut => ~past.cut /\ (view.move # Absent => view.move.by # "card")
  <2>1. past'.cut = (past.cut \/ (view.move # Absent /\ view.move.by = "card"))
    BY <1>1, <1>2
  <2> QED
    BY <1>1, <1>2, <2>1
<1>10. Configured(view)' /\ (UpToDate(view) => UpToDate(view)') /\ (SentTo(view, past.base) => SentTo(view', past.base))
  BY <1>1, <1>8, StopStays
<1>11. view.at \in Places \cup {Aside} /\ view'.saved \in Places \cup {Aside} /\ view'.saved # Absent
  BY <1>2, <1>7, <1>8 DEF ViewTypes
<1>12. ViewTypes(view)'
  BY <1>2, <1>6, <1>8, <1>11 DEF ViewTypes, SameStop
<1>13. Popups(view)'
  BY <1>1, <1>2, <1>6, <1>8 DEF Popups
<1>14. MapTypes'
  BY <1>1, <1>2, <1>9 DEF MapTypes, MapStep
<1>15. ~past'.cut => Shown(view, past.base)' /\ Saves(view, past.base)'
  <2> SUFFICES ASSUME ~past'.cut
               PROVE  Shown(view, past.base)' /\ Saves(view, past.base)'
    OBVIOUS
  <2>1. ~past.cut /\ (view.move # Absent => view.move.by = "popup")
    <3>1. view.move # Absent => view.move.by \in {"card", "hand", "popup"}
      BY <1>2 DEF ViewTypes, Moves
    <3> QED
      BY <1>1, <1>9, <3>1
  <2>2. Shown(view, past.base) /\ Saves(view, past.base)
    BY <2>1 DEF MapInv
  <2>3. view.at \in {past.base, Aside} /\ (view.saved = Absent => view.at = past.base)
    BY <2>1, <2>2 DEF Shown
  <2>4. Saves(view, past.base)'
    BY <1>8, <1>9, <2>2, <2>3 DEF Saves
  <2>5. CASE view'.move = view.move
    BY <1>8, <1>9, <1>11, <2>1, <2>2, <2>3, <2>4, <2>5 DEF Shown
  <2>6. CASE view'.move = new
    BY <1>6, <1>7, <1>8, <1>9, <1>11, <2>3, <2>4, <2>6 DEF Shown
  <2> QED
    BY <1>8, <2>5, <2>6
<1>16. SentTo(view, past.base) => SentTo(view, past.base)'
  BY <1>9, <1>10 DEF SentTo
<1> QED
  BY <1>9, <1>10, <1>12, <1>13, <1>14, <1>15, <1>16 DEF MapInv

LEMMA PopupClosesKeeps ==
    ASSUME MapInv, PopupCloses
    PROVE  MapInv'
<1>1. MapStep /\ gps' = gps /\ view' = [view EXCEPT !.popup = FALSE, !.closing = TRUE] /\ past' = past
  BY IdleStep DEF PopupCloses
<1>2. DOMAIN view = ViewFields
  BY DEF MapInv, ViewTypes
<1>3. /\ Stays(view, view') /\ SameStop(view, view') /\ DOMAIN view' = ViewFields
      /\ view'.editing = view.editing /\ view'.closing = TRUE
  BY <1>1, <1>2 DEF ViewFields, Stays, SameStop
<1> QED
  BY <1>1, <1>3, RestKeeps

LEMMA CloseSettledKeeps ==
    ASSUME MapAssumption, MapInv, CloseSettled
    PROVE  MapInv'
<1> DEFINE v == [view EXCEPT !.closing = FALSE, !.saved = Absent]
           new == [to |-> view.saved, by |-> "card"]
<1>1. /\ MapStep /\ gps' = gps /\ past' = past
      /\ view' = IF view.saved = Absent THEN v ELSE setView(v, view.saved)
  BY IdleStep DEF CloseSettled
<1>2. /\ MapTypes /\ ViewTypes(view) /\ Popups(view) /\ DOMAIN view = ViewFields
      /\ ~past.cut => Shown(view, past.base) /\ Saves(view, past.base)
  BY DEF MapInv, ViewTypes, MapTypes
<1>3. /\ DOMAIN v = ViewFields /\ v.at = view.at /\ v.move = view.move /\ v.saved = Absent
      /\ SameStop(view, v) /\ v.editing = view.editing
  BY <1>2 DEF ViewFields, SameStop
<1> HIDE DEF v
<1>4. /\ DOMAIN view' = ViewFields /\ view'.at = view.at /\ view'.saved = Absent
      /\ SameStop(view, view') /\ view'.editing = view.editing
      /\ \/ view.saved = Absent /\ view'.move = view.move
         \/ view.saved # Absent /\ view.move = Absent /\ view.at = view.saved /\ view'.move = Absent
         \/ view.saved # Absent /\ view'.move = new
  <2>1. CASE view.saved = Absent
    BY <1>1, <1>3, <2>1
  <2>2. CASE view.saved # Absent
    <3>1. /\ DOMAIN view' = ViewFields /\ Sent(v, view', view.saved)
          /\ SameStop(v, view') /\ SamePopup(v, view')
      BY <1>1, <1>3, <2>2, SetViewSends
    <3> QED
      BY <1>3, <2>2, <3>1 DEF Sent, SameStop, SamePopup
  <2> QED
    BY <2>1, <2>2
<1>5. new.to = view.saved /\ new.by = "card" /\ (view.saved # Absent => new \in Moves /\ new # Absent)
  BY <1>2 DEF ViewTypes, Moves, MapAssumption
<1> HIDE DEF new
<1>6. Configured(view)' /\ (UpToDate(view) => UpToDate(view)') /\ (SentTo(view, past.base) => SentTo(view', past.base))
  BY <1>1, <1>4, StopStays
<1>7. ViewTypes(view)'
  BY <1>2, <1>4, <1>5 DEF ViewTypes, SameStop
<1>8. Popups(view)'
  BY <1>2, <1>4, <1>5 DEF Popups
<1>9. MapTypes'
  BY <1>1, <1>2 DEF MapTypes, MapStep
<1>10. ~past.cut => Shown(view, past.base)' /\ Saves(view, past.base)'
  <2> SUFFICES ASSUME ~past.cut
               PROVE  Shown(view, past.base)' /\ Saves(view, past.base)'
    OBVIOUS
  <2>1. CASE view.saved = Absent /\ view'.move = view.move
    BY <1>1, <1>2, <1>4, <2>1 DEF Shown, Saves
  <2>2. CASE view.saved # Absent /\ view.move = Absent /\ view.at = view.saved /\ view'.move = Absent
    BY <1>1, <1>2, <1>4, <2>2 DEF Shown, Saves
  <2>3. CASE view.saved # Absent /\ view'.move = new
    BY <1>1, <1>2, <1>4, <1>5, <2>3 DEF Shown, Saves
  <2> QED
    BY <1>4, <2>1, <2>2, <2>3
<1>11. SentTo(view, past.base) => SentTo(view, past.base)'
  BY <1>1, <1>6 DEF SentTo
<1> QED
  BY <1>1, <1>6, <1>7, <1>8, <1>9, <1>10, <1>11 DEF MapInv

LEMMA MapInitially ==
    ASSUME MapAssumption, InitMap
    PROVE  MapInv
<1>1. /\ gps \in Fixes /\ setting.tracked \in BOOLEAN /\ setting.centre = Home
      /\ setting.presets = Presets /\ view = InitView
      /\ past = [base |-> setting.centre, missed |-> setting.tracked, by |-> "card", cut |-> FALSE]
  BY DEF InitMap
<1>2. /\ DOMAIN view = ViewFields /\ view.at = Home /\ view.move = Absent /\ view.held = Absent
      /\ view.editing = Absent /\ view.followed = Absent /\ view.tracked = Absent /\ view.saved = Absent
  BY <1>1 DEF InitView, ViewFields
<1>3. /\ DOMAIN past = {"base", "by", "cut", "missed"} /\ past.base = Home
      /\ past.missed = setting.tracked /\ past.cut = FALSE
  BY <1>1
<1>4. Home \in Places /\ Absent # Default /\ Absent \notin DOMAIN Presets
  BY DEF MapAssumption
<1>5. MapTypes /\ ViewTypes(view)
  BY <1>1, <1>2, <1>3, <1>4 DEF MapTypes, ViewTypes
<1>6. Configured(view) /\ Popups(view) /\ Shown(view, past.base) /\ Saves(view, past.base)
  BY <1>2, <1>3, <1>4 DEF Configured, Popups, Shown, Saves
<1>7. SentTo(view, past.base)
  BY <1>2, <1>3, <1>4 DEF SentTo
<1>8. ~past.missed => UpToDate(view)
  BY <1>2, <1>3, <1>4 DEF UpToDate, Located
<1> QED
  BY <1>5, <1>6, <1>7, <1>8 DEF MapInv

LEMMA MapNext ==
    ASSUME MapAssumption, MapInv, [NextMap]_mapVars
    PROVE  MapInv'
<1>1. CASE \E here \in Fixes : HassUpdate(here)
  BY <1>1, HassUpdateKeeps
<1>2. CASE MoveEnds \/ PressRecenter \/ PressLabel \/ IdleTimerFires \/ GraceEnds
  BY <1>2, MoveEndsKeeps, PressRecenterKeeps, PressLabelKeeps, IdleTimerKeeps, GraceEndsKeeps
<1>3. CASE HandStep
  BY <1>3, PointerDownKeeps, PointerUpKeeps, WheelKeeps, HandMovesKeeps, HandMoveEndsKeeps DEF HandStep
<1>4. CASE PopupStep
  BY <1>4, PopupOpensKeeps, PopupClosesKeeps, CloseSettledKeeps DEF PopupStep
<1>5. CASE UNCHANGED mapVars
  <2>1. view' = view /\ gps' = gps /\ setting' = setting /\ past' = past
    BY <1>5 DEF mapVars
  <2> QED
    BY <2>1 DEF MapInv, MapTypes, ViewTypes, Configured, Popups, Shown, Saves, SentTo,
                UpToDate, Located, PlaceOf
<1> QED
  BY <1>1, <1>2, <1>3, <1>4, <1>5 DEF NextMap

LEMMA MapInvInPlace ==
    ASSUME MapAssumption, MapInv
    PROVE  MapInPlace
<1>1. PopupsLeaveNoShift \/ past.cut
  BY DEF MapInv, Popups, Shown, PopupsLeaveNoShift
<1>2. FollowsItsStop
  <2> SUFFICES ASSUME past.by = "card", ~past.missed, ~past.cut, StopPlace # Absent
               PROVE  past.base = StopPlace
    BY DEF FollowsItsStop
  <2>1. /\ SentTo(view, past.base) /\ UpToDate(view) /\ Configured(view)
        /\ view.held \in {Absent, Default} \cup DOMAIN Presets
        /\ setting.centre = Home /\ setting.presets = Presets
    BY DEF MapInv, ViewTypes, MapTypes
  <2>2. Absent # Default /\ \A i \in DOMAIN Presets : i \notin {Absent, Default}
    BY DEF MapAssumption
  <2>3. CASE view.held = Absent
    <3>1. setting.tracked /\ gps[Car] # Absent /\ StopPlace = gps[Car]
      BY <2>3 DEF StopPlace
    <3>2. view.tracked = gps[Car]
      BY <2>1, <2>3, <3>1 DEF UpToDate, Located
    <3> QED
      BY <2>1, <2>3, <3>1, <3>2 DEF SentTo
  <2>4. CASE view.held = Default
    <3>1. StopPlace = Home
      BY <2>1, <2>2, <2>4 DEF StopPlace
    <3> QED
      BY <2>1, <2>4, <3>1 DEF SentTo
  <2>5. CASE view.held \in DOMAIN Presets
    <3>1. StopPlace = PlaceOf(view.held)
      BY <2>1, <2>2, <2>5 DEF StopPlace, PlaceOf
    <3>2. view.followed = StopPlace
      BY <2>1, <2>5, <3>1 DEF UpToDate
    <3> QED
      BY <2>1, <2>5, <3>2 DEF SentTo
  <2> QED
    BY <2>1, <2>3, <2>4, <2>5
<1> QED
  BY <1>1, <1>2 DEF MapInPlace

\* The map is where its stop or the viewer's hand put it, whatever presses,
\* touches, hass updates, popups and time-outs come between (ViewPresets,
\* PopupPanRestore and the card's listeners), for any places and presets.
THEOREM MapTheorem == SpecMap => []MapInPlace
<1>1. InitMap => MapInv
  BY MapAssumption, MapInitially
<1>2. MapInv /\ [NextMap]_mapVars => MapInv'
  BY MapAssumption, MapNext
<1>3. MapInv => MapInPlace
  BY MapAssumption, MapInvInPlace
<1> QED
  BY <1>1, <1>2, <1>3, PTL DEF SpecMap
=============================================================================
