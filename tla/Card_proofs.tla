----------------------------- MODULE Card_proofs -----------------------------
(***************************************************************************)
(* PausedExactly, RebuildOwed and ChoicesApplied of Card for any overlays,  *)
(* speeds, nonces and number of calls.                                      *)
(*                                                                          *)
(* The first two are inductive with the types.  The third needs that saved  *)
(* choices a built map still waits for are asked for on its behalf          *)
(* (Awaited), so that their answer applies them: which needs, in turn, that *)
(* what is on its way is what the ViewerState object expects, one hydrate   *)
(* GET at most, and none of a record it has read (Flow).                    *)
(***************************************************************************)
EXTENDS Card, SequenceTheorems, TLAPS

Keys   == Overlays \cup {"speed"}
Caches == [Keys -> Speeds \cup {"off", None}]

ViewerStates ==
    [live : BOOLEAN, nonce : Nonces \cup {None}, cache : Caches, timer : BOOLEAN,
     hydrated : BOOLEAN, persistedRead : BOOLEAN, epoch : Nat, promise : BOOLEAN,
     waiting : SUBSET Nonces]

Requests ==
    [el : {El}, op : {"get"}, by : {"hydrate", "reread"}, nonce : Nonces, epoch : Nat,
     value : Caches, free : SUBSET Keys]
      \cup [el : {El}, op : {"set"}, by : {"write"}, nonce : Nonces, epoch : Nat,
            value : Caches, free : SUBSET Keys]

Replies ==
    [el : {El}, op : {"get"}, by : {"hydrate", "reread"}, nonce : Nonces, epoch : Nat,
     ok : BOOLEAN, value : Caches]

ViewerTypeOK ==
    /\ config \in [{El} -> Nonces \cup {None}]
    /\ owner \in [Nonces -> {El, None}]
    /\ vs \in [{El} -> ViewerStates]
    /\ record \in [Nonces -> Caches]
    /\ calls \in Seq(Requests)
    /\ answers \in Seq(Replies)
    /\ seen \in [{El} -> [removed : SUBSET Keys, unbroken : BOOLEAN, unsaved : BOOLEAN]]

Cards ==
    [up : BOOLEAN, ready : BOOLEAN, map : BOOLEAN, want : Configs, built : DOMAIN OfRest,
     timer : BOOLEAN, owed : BOOLEAN, stray : BOOLEAN, session : SUBSET Overlays,
     running : SUBSET Overlays, paused : SUBSET (Overlays \cup {Player}),
     speed : Speeds \cup {"off", None}, hidden : BOOLEAN, offScreen : BOOLEAN,
     observed : BOOLEAN, missed : BOOLEAN]

-----------------------------------------------------------------------------
(* The ViewerState object and what is on its way to it.                      *)

IsHydrate(c) == c.op = "get" /\ c.by = "hydrate"

\* A GET of the object finds it waiting: for the record, or for its re-read.
Awaits(s, c) == c.op = "get" => IF c.by = "hydrate" THEN s.promise ELSE s.hydrated

Expected(s, q) == \A i \in DOMAIN q : Awaits(s, q[i])

OneHydrate(cs, ans) ==
    /\ \A i, j \in DOMAIN cs : IsHydrate(cs[i]) /\ IsHydrate(cs[j]) => i = j
    /\ \A i, j \in DOMAIN ans : IsHydrate(ans[i]) /\ IsHydrate(ans[j]) => i = j
    /\ \A i \in DOMAIN cs, j \in DOMAIN ans : ~(IsHydrate(cs[i]) /\ IsHydrate(ans[j]))

\* A record that has been read is not asked for.
Flow(s, cs, ans) ==
    /\ Expected(s, cs) /\ Expected(s, ans) /\ OneHydrate(cs, ans)
    /\ s.promise => ~s.hydrated

ViewerInv ==
    /\ ViewerTypeOK
    /\ Flow(Mine, calls, answers)
    /\ ~Mine.live => Mine = V!Gone

-----------------------------------------------------------------------------
(* The card and its object.                                                  *)

Attached ==
    /\ card.map => card.up /\ Mine.live
    /\ card.timer => card.ready
    /\ Mine.live => card.ready /\ Mine.nonce = config[El]

\* PausedExactly and RebuildOwed of a card in a tab.
Sound(c, tab) ==
    /\ c \in Cards
    /\ c.map => /\ c.paused = IF c.hidden THEN c.running \cup {Player} ELSE {}
                /\ c.observed => c.hidden = (tab \/ c.offScreen)
    /\ IF c.map THEN c.built = c.want.rest \/ c.timer ELSE c.running = {} /\ c.paused = {}

Awaited(c, s) == c.map /\ ~c.timer /\ ChoicesDue(s) => c.owed

Applied(c, s) ==
    /\ c.running = Wanted(c, s)
    /\ Active(s) => c.speed = loadPlaybackSpeed(c, s)

Shows(c, s) == c.map /\ ~c.timer /\ ~ChoicesDue(s) /\ ~c.missed => Applied(c, s)

Good(c, s, tab) == Sound(c, tab) /\ Awaited(c, s) /\ Shows(c, s)

CardInv == tabHidden \in BOOLEAN /\ ViewerInv /\ Attached /\ Good(card, Mine, tabHidden)

-----------------------------------------------------------------------------
(* Sequences                                                                 *)

LEMMA WithoutKeeps ==
    ASSUME NEW S, NEW s \in Seq(S), NEW r \in V!Without(El, s)
    PROVE  /\ r \in Seq(S)
           /\ \A j \in DOMAIN r : \E i \in DOMAIN s : r[j] = s[i] /\ V!OfOthers(El, s[i])
<1> DEFINE kept == {i \in DOMAIN s : V!OfOthers(El, s[i])}
<1>0. PICK n \in 0..Len(s) : \E f \in [1..n -> kept] : r = [j \in 1..n |-> s[f[j]]]
    <2> DEFINE Onto(n) == {g \in [1..n -> kept] :
                             /\ \A i \in kept : \E j \in 1..n : g[j] = i
                             /\ \A j, k \in 1..n : j < k => g[j] < g[k]}
               Picks(n) == {[j \in 1..n |-> s[f[j]]] : f \in Onto(n)}
    <2>1. V!Without(El, s) = UNION {Picks(n) : n \in 0..Len(s)}
        BY DEF V!Without
    <2>2. PICK n \in 0..Len(s) : r \in Picks(n)
        <3> HIDE DEF Picks
        <3> QED  BY <2>1
    <2> QED  BY <2>2
<1>1. PICK f \in [1..n -> kept] : r = [j \in 1..n |-> s[f[j]]]
    BY <1>0
<1>2. n \in Nat
    BY LenProperties
<1>3. \A j \in 1..n : f[j] \in DOMAIN s /\ V!OfOthers(El, s[f[j]]) /\ r[j] = s[f[j]]
    BY <1>1
<1>4. \A j \in 1..n : s[f[j]] \in S
    BY <1>3, ElementOfSeq, LenProperties
<1>5. r \in [1..n -> S]
    BY <1>1, <1>4
<1>6. r \in Seq(S)
    BY <1>2, <1>5, SeqDef
<1> QED  BY <1>1, <1>3, <1>6

LEMMA RemovedAt ==
    ASSUME NEW S, NEW s \in Seq(S), NEW i \in DOMAIN s
    PROVE  /\ V!RemoveAt(s, i) \in Seq(S)
           /\ \A j \in DOMAIN V!RemoveAt(s, i) :
                 \E k \in DOMAIN s : /\ k = IF j < i THEN j ELSE j + 1
                                     /\ k # i /\ V!RemoveAt(s, i)[j] = s[k]
<1> DEFINE a == SubSeq(s, 1, i - 1)
           b == SubSeq(s, i + 1, Len(s))
<1>1. i \in 1..Len(s) /\ Len(s) \in Nat /\ DOMAIN s = 1..Len(s)
    BY LenProperties
<1>2. a \in Seq(S) /\ Len(a) = i - 1 /\ \A j \in 1..(i - 1) : a[j] = s[j]
    BY <1>1, SubSeqProperties
<1>3. b \in Seq(S) /\ Len(b) = Len(s) - i /\ \A j \in 1..(Len(s) - i) : b[j] = s[i + j]
    BY <1>1, SubSeqProperties
<1> HIDE DEF a, b
<1>4. /\ a \o b \in Seq(S) /\ Len(a \o b) = Len(s) - 1
      /\ \A j \in 1..(Len(s) - 1) : (a \o b)[j] = IF j < i THEN s[j] ELSE s[j + 1]
    <2>1. /\ a \o b \in Seq(S) /\ Len(a \o b) = Len(a) + Len(b)
          /\ \A j \in 1..(Len(a) + Len(b)) :
               (a \o b)[j] = IF j <= Len(a) THEN a[j] ELSE b[j - Len(a)]
        BY <1>2, <1>3, ConcatProperties
    <2>2. \A j \in 1..(Len(s) - 1) : j <= Len(a) => (a \o b)[j] = s[j]
        BY <1>1, <1>2, <1>3, <2>1
    <2>3. \A j \in 1..(Len(s) - 1) : ~(j <= Len(a)) =>
              j - (i - 1) \in 1..(Len(s) - i) /\ (a \o b)[j] = s[i + (j - (i - 1))]
        BY <1>1, <1>2, <1>3, <2>1
    <2>4. \A j \in 1..(Len(s) - 1) : i + (j - (i - 1)) = j + 1 /\ (j <= Len(a) <=> j < i)
        BY <1>1, <1>2
    <2>5. \A j \in 1..(Len(s) - 1) : (a \o b)[j] = IF j < i THEN s[j] ELSE s[j + 1]
        BY <2>2, <2>3, <2>4
    <2>6. Len(a \o b) = Len(s) - 1
        <3>1. Len(a) + Len(b) = Len(s) - 1
            BY <1>1, <1>2, <1>3
        <3> QED  BY <2>1, <3>1
    <2> QED  BY <2>1, <2>5, <2>6
<1>5. V!RemoveAt(s, i) = a \o b
    BY DEF V!RemoveAt, a, b
<1>6. DOMAIN (a \o b) = 1..(Len(s) - 1)
    BY <1>4, LenProperties
<1>7. \A j \in 1..(Len(s) - 1) : LET k == IF j < i THEN j ELSE j + 1
                                IN k \in 1..Len(s) /\ k # i /\ (a \o b)[j] = s[k]
    BY <1>1, <1>4
<1> QED  BY <1>1, <1>4, <1>5, <1>6, <1>7

LEMMA Appended ==
    ASSUME NEW S, NEW s \in Seq(S), NEW x \in S
    PROVE  /\ Append(s, x) \in Seq(S)
           /\ DOMAIN s = 1..Len(s) /\ Len(s) \in Nat
           /\ \A j \in DOMAIN Append(s, x) :
                 IF j \in DOMAIN s THEN Append(s, x)[j] = s[j]
                 ELSE j = Len(s) + 1 /\ Append(s, x)[j] = x
<1>1. DOMAIN s = 1..Len(s) /\ Len(s) \in Nat
    BY LenProperties
<1>2. /\ Append(s, x) \in Seq(S) /\ Len(Append(s, x)) = Len(s) + 1
      /\ \A j \in 1..Len(s) : Append(s, x)[j] = s[j]
      /\ Append(s, x)[Len(s) + 1] = x
    BY AppendProperties
<1>3. DOMAIN Append(s, x) = 1..(Len(s) + 1)
    BY <1>2, LenProperties
<1> QED  BY <1>1, <1>2, <1>3

LEMMA Shifted ==
    ASSUME NEW S, NEW s \in Seq(S), s # <<>>
    PROVE  /\ Tail(s) \in Seq(S) /\ Head(s) \in S /\ 1 \in DOMAIN s /\ Head(s) = s[1]
           /\ \A j \in DOMAIN Tail(s) : j \in Nat /\ j # 0 /\ j + 1 \in DOMAIN s /\ Tail(s)[j] = s[j + 1]
<1>1. DOMAIN s = 1..Len(s) /\ Len(s) \in Nat /\ Len(s) # 0
    BY LenProperties, EmptySeq
<1>2. /\ Tail(s) \in Seq(S) /\ Len(Tail(s)) = Len(s) - 1
      /\ \A j \in 1..Len(Tail(s)) : Tail(s)[j] = s[j + 1]
    BY HeadTailProperties
<1>3. DOMAIN Tail(s) = 1..(Len(s) - 1)
    BY <1>2, LenProperties
<1>4. Head(s) = s[1] /\ Head(s) \in S
    BY HeadTailProperties
<1> QED  BY <1>1, <1>2, <1>3, <1>4

-----------------------------------------------------------------------------
(* What a step of the ViewerState does to what is on its way                 *)

\* A call is sent: the first hydrate GET, or one that no hydrate is.
LEMMA Sends ==
    ASSUME NEW cs \in Seq(Requests), NEW ans \in Seq(Replies), NEW s, NEW t, Flow(s, cs, ans),
           NEW c \in Requests,
           t.hydrated = s.hydrated,
           IF IsHydrate(c) THEN ~s.promise /\ ~s.hydrated /\ t.promise
           ELSE t.promise = s.promise /\ (c.op = "get" => s.hydrated)
    PROVE  Append(cs, c) \in Seq(Requests) /\ Flow(t, Append(cs, c), ans)
<1> DEFINE q == Append(cs, c)
<1>1. /\ q \in Seq(Requests) /\ DOMAIN cs = 1..Len(cs) /\ Len(cs) \in Nat
      /\ \A j \in DOMAIN q : IF j \in DOMAIN cs THEN q[j] = cs[j]
                            ELSE j = Len(cs) + 1 /\ q[j] = c
    BY Appended
<1> HIDE DEF q
<1>2. c.op \in {"get", "set"} /\ (c.op = "get" => c.by \in {"hydrate", "reread"})
    BY DEF Requests
<1>3. Expected(t, q)
    BY <1>1, <1>2 DEF Flow, Expected, Awaits, IsHydrate
<1>4. Expected(t, ans)
    BY DEF Flow, Expected, Awaits, IsHydrate
<1>5. IsHydrate(c) => /\ \A i \in DOMAIN cs : ~IsHydrate(cs[i])
                      /\ \A i \in DOMAIN ans : ~IsHydrate(ans[i])
    BY DEF Flow, Expected, Awaits, IsHydrate
<1>6. OneHydrate(q, ans)
    BY <1>1, <1>5 DEF Flow, OneHydrate
<1>7. t.promise => ~t.hydrated
    BY DEF Flow
<1> QED  BY <1>1, <1>3, <1>4, <1>6, <1>7 DEF Flow, q

\* The server handles the oldest call.
LEMMA Moves ==
    ASSUME NEW cs \in Seq(Requests), NEW ans \in Seq(Replies), NEW s, Flow(s, cs, ans), cs # <<>>
    PROVE  /\ Flow(s, Tail(cs), ans)
           /\ Head(cs).op = "get" =>
                \A r \in Replies : r.by = Head(cs).by => Flow(s, Tail(cs), Append(ans, r))
<1> DEFINE q == Tail(cs)
           h == Head(cs)
<1>1. /\ q \in Seq(Requests) /\ 1 \in DOMAIN cs /\ h = cs[1]
      /\ \A j \in DOMAIN q : j \in Nat /\ j # 0 /\ j + 1 \in DOMAIN cs /\ q[j] = cs[j + 1]
    BY Shifted
<1> HIDE DEF q, h
<1>2. Expected(s, q)
    BY <1>1 DEF Flow, Expected
<1>3. /\ \A i, j \in DOMAIN q : IsHydrate(q[i]) /\ IsHydrate(q[j]) => i = j
      /\ IsHydrate(h) => \A i \in DOMAIN q : ~IsHydrate(q[i])
    <2>1. \A i, j \in DOMAIN q : IsHydrate(q[i]) /\ IsHydrate(q[j]) => i + 1 = j + 1
        BY <1>1 DEF Flow, OneHydrate
    <2>2. IsHydrate(h) => \A i \in DOMAIN q : IsHydrate(q[i]) => i + 1 = 1
        BY <1>1 DEF Flow, OneHydrate
    <2> QED  BY <1>1, <2>1, <2>2
<1>4. \A i \in DOMAIN q, j \in DOMAIN ans : ~(IsHydrate(q[i]) /\ IsHydrate(ans[j]))
    BY <1>1 DEF Flow, OneHydrate
<1>5. Flow(s, q, ans)
    BY <1>2, <1>3, <1>4 DEF Flow, OneHydrate
<1>6. ASSUME h.op = "get", NEW r \in Replies, r.by = h.by
      PROVE  Flow(s, q, Append(ans, r))
    <2> DEFINE p == Append(ans, r)
    <2>1. /\ DOMAIN ans = 1..Len(ans) /\ Len(ans) \in Nat
          /\ \A j \in DOMAIN p : IF j \in DOMAIN ans THEN p[j] = ans[j]
                                ELSE j = Len(ans) + 1 /\ p[j] = r
        BY Appended
    <2> HIDE DEF p
    <2>2. r.op = "get"
        BY DEF Replies
    <2>3. Awaits(s, r) /\ (IsHydrate(r) <=> IsHydrate(h))
        BY <1>1, <1>6, <2>2 DEF Flow, Expected, Awaits, IsHydrate
    <2>4. Expected(s, p)
        BY <2>1, <2>3 DEF Flow, Expected
    <2>5. IsHydrate(h) => \A j \in DOMAIN ans : ~IsHydrate(ans[j])
        BY <1>1 DEF Flow, OneHydrate
    <2>6. OneHydrate(q, p)
        BY <1>3, <1>5, <2>1, <2>3, <2>5 DEF Flow, OneHydrate
    <2> QED  BY <1>5, <2>4, <2>6 DEF Flow, p
<1> QED  BY <1>5, <1>6 DEF q, h

\* An answer arrives.
LEMMA Arrives ==
    ASSUME NEW cs \in Seq(Requests), NEW ans \in Seq(Replies), NEW s, NEW t, Flow(s, cs, ans),
           NEW i \in DOMAIN ans,
           t.hydrated = TRUE, t.promise = (s.promise /\ ans[i].by # "hydrate")
    PROVE  V!RemoveAt(ans, i) \in Seq(Replies) /\ Flow(t, cs, V!RemoveAt(ans, i))
<1> DEFINE q == V!RemoveAt(ans, i)
<1>1. /\ q \in Seq(Replies)
      /\ \A j \in DOMAIN q : \E k \in DOMAIN ans :
            k = (IF j < i THEN j ELSE j + 1) /\ k # i /\ q[j] = ans[k]
    BY RemovedAt
<1> HIDE DEF q
<1>2. ans[i] \in Replies
    BY LenProperties, ElementOfSeq
<1>3. ans[i].op = "get" /\ ans[i].by \in {"hydrate", "reread"}
    BY <1>2 DEF Replies
<1>4. ~t.promise /\ t.hydrated
    BY <1>3 DEF Flow, Expected, Awaits
<1>5. /\ \A j \in DOMAIN cs : ~IsHydrate(cs[j])
      /\ \A j \in DOMAIN q : ~IsHydrate(q[j])
    <2>1. CASE ans[i].by = "hydrate"
        BY <1>1, <1>3, <2>1 DEF Flow, OneHydrate, IsHydrate
    <2>2. CASE ans[i].by = "reread"
        BY <1>1, <1>3, <2>2 DEF Flow, Expected, Awaits, IsHydrate
    <2> QED  BY <1>3, <2>1, <2>2
<1>6. Expected(t, cs) /\ Expected(t, q)
    BY <1>4, <1>5 DEF Expected, Awaits, IsHydrate
<1>7. OneHydrate(cs, q)
    BY <1>5 DEF OneHydrate
<1> QED  BY <1>1, <1>4, <1>6, <1>7 DEF Flow, q

\* The object is disposed of, its reads with it.
LEMMA Forsaken ==
    ASSUME NEW cs \in Seq(Requests), NEW ans \in Seq(Replies),
           NEW c \in V!Without(El, cs), NEW a \in V!Without(El, ans), NEW t, ~t.promise
    PROVE  c \in Seq(Requests) /\ a \in Seq(Replies) /\ Flow(t, c, a)
<1>1. /\ c \in Seq(Requests)
      /\ \A j \in DOMAIN c : \E i \in DOMAIN cs : c[j] = cs[i] /\ V!OfOthers(El, cs[i])
    BY WithoutKeeps
<1>2. /\ a \in Seq(Replies)
      /\ \A j \in DOMAIN a : \E i \in DOMAIN ans : a[j] = ans[i] /\ V!OfOthers(El, ans[i])
    BY WithoutKeeps
<1>3. \A i \in DOMAIN cs : cs[i].el = El
    <2>1. \A i \in DOMAIN cs : cs[i] \in Requests
        BY LenProperties, ElementOfSeq
    <2> QED  BY <2>1 DEF Requests
<1>4. \A i \in DOMAIN ans : ans[i].el = El
    <2>1. \A i \in DOMAIN ans : ans[i] \in Replies
        BY LenProperties, ElementOfSeq
    <2> QED  BY <2>1 DEF Replies
<1>5. /\ \A j \in DOMAIN c : c[j].op # "get"
      /\ \A j \in DOMAIN a : a[j].op # "get"
    BY <1>1, <1>2, <1>3, <1>4 DEF V!OfOthers
<1> QED  BY <1>1, <1>2, <1>5 DEF Flow, Expected, OneHydrate, Awaits, IsHydrate

-----------------------------------------------------------------------------
(* The operations of the ViewerState                                         *)

LEMMA GoneIs ==
    /\ V!Gone \in ViewerStates /\ V!Gone.nonce = None /\ ~V!Gone.promise
    /\ ~V!Gone.hydrated /\ ~V!Gone.live
    /\ V!Fresh \in ViewerStates /\ V!Fresh.live /\ ~V!Fresh.promise /\ ~V!Fresh.hydrated
    /\ V!Fresh.cache = V!Gone.cache
BY DEF V!Gone, V!Fresh, V!Empty, ViewerStates, Caches, Keys

LEMMA IdentifyKeeps ==
    ASSUME ViewerInv, NEW n \in Nonces \cup {None}, NEW read \in BOOLEAN, V!Identify(El, n, read)
    PROVE  /\ ViewerInv'
           /\ Mine'.live /\ Mine'.nonce = n /\ config'[El] = n
           /\ Mine'.cache = Mine.cache /\ Mine'.hydrated = Mine.hydrated
<1> DEFINE s == V!Identified(El, n)
           t == IF read THEN V!Hydrating(s) ELSE s
           c == V!Read(El, "hydrate", s)
<1>1. Mine \in ViewerStates
    BY DEF ViewerInv, ViewerTypeOK, Mine
<1>2. V!Claimed(El, n) = n
    BY DEF V!Claimed, ViewerInv, ViewerTypeOK
<1>3. /\ s \in ViewerStates /\ s.live /\ s.nonce = n /\ s.cache = Mine.cache
      /\ s.hydrated = Mine.hydrated /\ s.promise = Mine.promise
    <2>1. s = [(IF Mine.live THEN Mine ELSE V!Fresh) EXCEPT !.nonce = n]
        BY <1>2 DEF V!Identified, Mine
    <2>2. CASE Mine.live
        BY <1>1, <2>1, <2>2 DEF ViewerStates
    <2>3. CASE ~Mine.live
        <3>1. Mine = V!Gone
            BY <2>3 DEF ViewerInv
        <3> HIDE DEF s
        <3> QED  BY <2>1, <2>3, <3>1, GoneIs DEF ViewerStates
    <2> QED  BY <2>2, <2>3
<1> HIDE DEF s
<1>4. /\ t \in ViewerStates /\ t.live /\ t.nonce = n /\ t.cache = Mine.cache
      /\ t.hydrated = Mine.hydrated
      /\ t.promise = (Mine.promise \/ (read /\ V!CanHydrate(s)))
    <2>1. V!CanHydrate(s) \in BOOLEAN
        BY <1>3 DEF V!CanHydrate
    <2> QED  BY <1>1, <1>3, <2>1 DEF ViewerStates, V!Hydrating
<1>5. /\ config' = [config EXCEPT ![El] = n]
      /\ owner' = V!OwnerAfter(El, n)
      /\ vs' = [vs EXCEPT ![El] = t]
      /\ calls' = IF read /\ V!CanHydrate(s) THEN Append(calls, c) ELSE calls
      /\ record' = record /\ answers' = answers
    BY <1>3 DEF V!Identify, s
<1> HIDE DEF t
<1>6. seen' \in [{El} -> [removed : SUBSET Keys, unbroken : BOOLEAN, unsaved : BOOLEAN]]
    <2>1. PICK b \in BOOLEAN : seen' = [seen EXCEPT ![El].unbroken = b]
        BY DEF V!Identify, ViewerInv, ViewerTypeOK
    <2> QED  BY <2>1 DEF ViewerInv, ViewerTypeOK
<1>7. vs' \in [{El} -> ViewerStates] /\ Mine' = t
    BY <1>4, <1>5 DEF ViewerInv, ViewerTypeOK, Mine
<1>8. config' \in [{El} -> Nonces \cup {None}] /\ config'[El] = n
    BY <1>5 DEF ViewerInv, ViewerTypeOK
<1>9. owner' \in [Nonces -> {El, None}]
    BY <1>5 DEF ViewerInv, ViewerTypeOK, V!OwnerAfter
<1>10. calls' \in Seq(Requests) /\ Flow(t, calls', answers)
    <2>1. calls \in Seq(Requests) /\ answers \in Seq(Replies) /\ Flow(Mine, calls, answers)
        BY DEF ViewerInv, ViewerTypeOK
    <2>2. CASE read /\ V!CanHydrate(s)
        <3>1. c \in Requests /\ IsHydrate(c)
            BY <1>3, <2>2 DEF V!CanHydrate, V!Read, Requests, IsHydrate, ViewerStates, V!Empty,
                Caches, Keys
        <3>2. ~Mine.promise /\ ~Mine.hydrated /\ t.promise
            BY <1>3, <1>4, <2>2 DEF V!CanHydrate
        <3> HIDE DEF c
        <3> QED  BY <1>4, <1>5, <2>1, <2>2, <3>1, <3>2, Sends
    <2>3. CASE ~(read /\ V!CanHydrate(s))
        <3>1. t.promise = Mine.promise /\ calls' = calls
            BY <1>1, <1>4, <1>5, <2>3 DEF ViewerStates
        <3> QED  BY <1>4, <2>1, <3>1 DEF Flow, Expected, Awaits
    <2> QED  BY <2>2, <2>3
<1>11. ViewerInv'
    BY <1>4, <1>5, <1>6, <1>7, <1>8, <1>9, <1>10 DEF ViewerInv, ViewerTypeOK
<1> QED  BY <1>4, <1>7, <1>8, <1>11

LEMMA AnsweredKeeps ==
    ASSUME ViewerInv, NEW i \in DOMAIN answers, V!Answered(i)
    PROVE  /\ ViewerInv' /\ config' = config
           /\ answers[i] \in Replies
           /\ Mine'.live = Mine.live /\ Mine'.nonce = Mine.nonce /\ Mine'.hydrated
           /\ IF answers[i].by = "reread" THEN Mine.hydrated ELSE ~Mine.hydrated
           /\ ~answers[i].ok => Mine'.cache = Mine.cache
<1> DEFINE a == answers[i]
           t == V!AfterAnswer(El, a)
           w == V!Write(El, t.nonce, t.cache)
           q == V!RemoveAt(answers, i)
<1>1. /\ Mine \in ViewerStates /\ answers \in Seq(Replies) /\ calls \in Seq(Requests)
      /\ Flow(Mine, calls, answers)
    BY DEF ViewerInv, ViewerTypeOK, Mine
<1>2. a \in Replies
    BY <1>1, LenProperties, ElementOfSeq
<1>3. /\ a.el = El /\ a.op = "get" /\ a.by \in {"hydrate", "reread"} /\ a.nonce \in Nonces
      /\ a.ok \in BOOLEAN /\ a.value \in Caches
    BY <1>2 DEF Replies
<1> HIDE DEF a
<1>4. V!Merged(El, a) \in Caches
    BY <1>1, <1>3 DEF V!Merged, V!MergeUnder, ViewerStates, Caches, Keys, Mine
<1>5. /\ t \in ViewerStates /\ t.live = Mine.live /\ t.nonce = Mine.nonce /\ t.hydrated
      /\ t.promise = (Mine.promise /\ a.by # "hydrate")
      /\ ~a.ok => t.cache = Mine.cache
    <2>1. PICK c \in Caches, p \in BOOLEAN, r \in BOOLEAN, ws \in SUBSET Nonces :
            /\ t = [Mine EXCEPT !.cache = c, !.persistedRead = r, !.hydrated = TRUE,
                                !.promise = p, !.waiting = ws]
            /\ p = (Mine.promise /\ a.by # "hydrate")
            /\ ~a.ok => c = Mine.cache
        <3> DEFINE c == IF a.ok THEN V!Merged(El, a) ELSE Mine.cache
                   p == Mine.promise /\ a.by # "hydrate"
                   r == Mine.persistedRead \/ a.ok
                   ws == IF a.by = "hydrate" THEN {} ELSE Mine.waiting
        <3>1. c \in Caches /\ p \in BOOLEAN /\ r \in BOOLEAN /\ ws \in SUBSET Nonces
            BY <1>1, <1>3, <1>4 DEF ViewerStates
        <3>2. t = [Mine EXCEPT !.cache = c, !.persistedRead = r, !.hydrated = TRUE,
                               !.promise = p, !.waiting = ws]
            BY DEF V!AfterAnswer, Mine
        <3>3. p = (Mine.promise /\ a.by # "hydrate") /\ (~a.ok => c = Mine.cache)
            OBVIOUS
        <3> HIDE DEF c, p, r, ws, t
        <3> QED  BY <3>1, <3>2, <3>3
    <2> HIDE DEF t
    <2> QED  BY <1>1, <2>1 DEF ViewerStates
<1> HIDE DEF t
<1>6. /\ vs' = [vs EXCEPT ![El] = t]
      /\ answers' = q
      /\ calls' = IF V!MayWrite(El, V!Resumed(El, a), t) THEN Append(calls, w) ELSE calls
      /\ config' = config /\ owner' = owner /\ record' = record
    BY <1>3 DEF V!Answered, a, t
<1>7. seen' \in [{El} -> [removed : SUBSET Keys, unbroken : BOOLEAN, unsaved : BOOLEAN]]
    <2>1. PICK b \in BOOLEAN : seen' = [seen EXCEPT ![El].unbroken = b]
        BY <1>3 DEF V!Answered, a, ViewerInv, ViewerTypeOK
    <2> QED  BY <2>1 DEF ViewerInv, ViewerTypeOK
<1>8. q \in Seq(Replies) /\ Flow(t, calls, q)
    BY <1>1, <1>5, Arrives DEF a
<1> HIDE DEF q
<1>9. calls' \in Seq(Requests) /\ Flow(t, calls', answers')
    <2>1. CASE V!MayWrite(El, V!Resumed(El, a), t)
        <3>1. t.nonce \in Nonces
            BY <1>1, <1>3, <2>1 DEF V!MayWrite, V!Resumed, ViewerStates, Mine
        <3>2. w \in Requests /\ ~IsHydrate(w) /\ w.op # "get"
            BY <1>5, <3>1 DEF V!Write, Requests, IsHydrate, ViewerStates, ViewerInv,
                ViewerTypeOK, Keys
        <3> HIDE DEF w
        <3> QED  BY <1>1, <1>6, <1>8, <2>1, <3>2, Sends
    <2>2. CASE ~V!MayWrite(El, V!Resumed(El, a), t)
        BY <1>1, <1>6, <1>8, <2>2
    <2> QED  BY <2>1, <2>2
<1>10. vs' \in [{El} -> ViewerStates] /\ Mine' = t
    BY <1>5, <1>6 DEF ViewerInv, ViewerTypeOK, Mine
<1>11. IF a.by = "reread" THEN Mine.hydrated ELSE ~Mine.hydrated
    BY <1>1, <1>3 DEF Flow, Expected, Awaits, a
<1>12. Mine.live
    BY <1>1, <1>3, GoneIs DEF Flow, Expected, Awaits, a, ViewerInv
<1>13. ViewerInv'
    BY <1>5, <1>6, <1>7, <1>8, <1>9, <1>10, <1>12 DEF ViewerInv, ViewerTypeOK
<1> QED  BY <1>2, <1>5, <1>6, <1>10, <1>11, <1>13 DEF a

\* set and delete alike: the cache at one key, and the timer.
LEMMA EditKeeps ==
    ASSUME ViewerInv, NEW k \in Keys, NEW v \in Speeds \cup {"off", None},
           Mine.nonce # None,
           vs' = [vs EXCEPT ![El].cache[k] = v, ![El].timer = TRUE],
           \E removed \in SUBSET Keys : seen' = [seen EXCEPT ![El].removed = removed],
           config' = config, owner' = owner, record' = record, calls' = calls,
           answers' = answers
    PROVE  /\ ViewerInv'
           /\ Mine'.live = Mine.live /\ Mine'.nonce = Mine.nonce
           /\ Mine'.hydrated = Mine.hydrated
           /\ Mine'.cache = [Mine.cache EXCEPT ![k] = v]
<1>1. Mine \in ViewerStates /\ Flow(Mine, calls, answers)
    BY DEF ViewerInv, ViewerTypeOK, Mine
<1>2. Mine' = [Mine EXCEPT !.cache = [Mine.cache EXCEPT ![k] = v], !.timer = TRUE]
    BY DEF Mine, ViewerInv, ViewerTypeOK, ViewerStates
<1>3. [Mine.cache EXCEPT ![k] = v] \in Caches
    BY <1>1 DEF ViewerStates, Caches
<1>4. /\ Mine' \in ViewerStates /\ Mine'.live = Mine.live /\ Mine'.nonce = Mine.nonce
      /\ Mine'.hydrated = Mine.hydrated /\ Mine'.promise = Mine.promise
      /\ Mine'.cache = [Mine.cache EXCEPT ![k] = v]
    BY <1>1, <1>2, <1>3 DEF ViewerStates
<1>5. vs' \in [{El} -> ViewerStates]
    BY <1>4 DEF Mine, ViewerInv, ViewerTypeOK
<1>6. seen' \in [{El} -> [removed : SUBSET Keys, unbroken : BOOLEAN, unsaved : BOOLEAN]]
    BY DEF ViewerInv, ViewerTypeOK
<1>7. Flow(Mine', calls', answers')
    BY <1>1, <1>4 DEF Flow, Expected, Awaits
<1>8. Mine.live
    BY GoneIs DEF ViewerInv
<1> QED  BY <1>4, <1>5, <1>6, <1>7, <1>8 DEF ViewerInv, ViewerTypeOK

LEMMA TimerFiresKeeps ==
    ASSUME ViewerInv, V!TimerFires(El)
    PROVE  /\ ViewerInv' /\ config' = config
           /\ Mine'.live = Mine.live /\ Mine'.nonce = Mine.nonce
           /\ Mine'.hydrated = Mine.hydrated /\ Mine'.cache = Mine.cache
<1> DEFINE t == [V!FlushState(Mine) EXCEPT !.timer = FALSE]
<1>1. /\ Mine \in ViewerStates /\ answers \in Seq(Replies) /\ calls \in Seq(Requests)
      /\ Flow(Mine, calls, answers)
    BY DEF ViewerInv, ViewerTypeOK, Mine
<1>2. /\ vs' = [vs EXCEPT ![El] = t]
      /\ calls' = calls \o V!FlushCalls(El, Mine)
      /\ config' = config /\ owner' = owner /\ record' = record /\ answers' = answers
    BY DEF V!TimerFires, Mine
<1>3. /\ t \in ViewerStates /\ t.live = Mine.live /\ t.nonce = Mine.nonce
      /\ t.hydrated = Mine.hydrated /\ t.cache = Mine.cache
      /\ t.promise = (Mine.promise \/ (Mine.nonce # None /\ ~Mine.hydrated))
    BY <1>1 DEF V!FlushState, V!Hydrating, V!CanHydrate, ViewerStates
<1> HIDE DEF t
<1>4. seen' \in [{El} -> [removed : SUBSET Keys, unbroken : BOOLEAN, unsaved : BOOLEAN]]
    <2>1. PICK b \in BOOLEAN : seen' = [seen EXCEPT ![El].unbroken = b]
        BY DEF V!TimerFires, V!isActive, ViewerInv, ViewerTypeOK
    <2> QED  BY <2>1 DEF ViewerInv, ViewerTypeOK
<1>5. vs' \in [{El} -> ViewerStates] /\ Mine' = t
    BY <1>2, <1>3 DEF ViewerInv, ViewerTypeOK, Mine
<1>6. calls' \in Seq(Requests) /\ Flow(t, calls', answers)
    <2>1. CASE Mine.nonce = None \/ (~Mine.hydrated /\ Mine.promise)
        <3>1. calls' = calls
            BY <1>1, <1>2, <2>1, ConcatEmptySeq DEF V!FlushCalls
        <3>2. t.promise = Mine.promise
            BY <1>1, <1>3, <2>1 DEF ViewerStates
        <3> QED  BY <1>1, <1>3, <3>1, <3>2 DEF Flow, Expected, Awaits
    <2>2. ASSUME Mine.nonce # None, ~(~Mine.hydrated /\ Mine.promise)
          PROVE  calls' \in Seq(Requests) /\ Flow(t, calls', answers)
        <3>1. Mine.nonce \in Nonces
            BY <1>1, <2>2 DEF ViewerStates
        <3>2. PICK c \in Requests :
                /\ calls' = Append(calls, c)
                /\ IsHydrate(c) <=> ~Mine.hydrated
            <4>1. CASE ~Mine.hydrated
                <5> DEFINE c == V!Read(El, "hydrate", Mine)
                <5>1. c \in Requests /\ IsHydrate(c)
                    BY <1>1, <3>1 DEF V!Read, Requests, IsHydrate, ViewerStates, V!Empty,
                        Caches, Keys
                <5>2. V!FlushCalls(El, Mine) = <<c>>
                    BY <2>2, <4>1 DEF V!FlushCalls
                <5> HIDE DEF c
                <5>3. calls' = Append(calls, c)
                    BY <1>1, <1>2, <5>1, <5>2, AppendIsConcat
                <5> QED  BY <4>1, <5>1, <5>3
            <4>2. CASE Mine.hydrated /\ ~Mine.persistedRead
                <5> DEFINE c == V!Read(El, "reread", Mine)
                <5>1. c \in Requests /\ ~IsHydrate(c)
                    BY <1>1, <3>1 DEF V!Read, Requests, IsHydrate, ViewerStates, V!Empty,
                        Caches, Keys
                <5>2. V!FlushCalls(El, Mine) = <<c>>
                    BY <2>2, <4>2 DEF V!FlushCalls
                <5> HIDE DEF c
                <5>3. calls' = Append(calls, c)
                    BY <1>1, <1>2, <5>1, <5>2, AppendIsConcat
                <5> QED  BY <4>2, <5>1, <5>3
            <4>3. CASE Mine.hydrated /\ Mine.persistedRead
                <5> DEFINE c == V!Write(El, Mine.nonce, Mine.cache)
                <5>1. c \in Requests /\ ~IsHydrate(c)
                    BY <1>1, <3>1 DEF V!Write, Requests, IsHydrate, ViewerStates, ViewerInv,
                        ViewerTypeOK, Keys
                <5>2. V!FlushCalls(El, Mine) = <<c>>
                    BY <2>2, <4>3 DEF V!FlushCalls
                <5> HIDE DEF c
                <5>3. calls' = Append(calls, c)
                    BY <1>1, <1>2, <5>1, <5>2, AppendIsConcat
                <5> QED  BY <4>3, <5>1, <5>3
            <4> QED  BY <1>1, <4>1, <4>2, <4>3 DEF ViewerStates
        <3>3. IF IsHydrate(c) THEN ~Mine.promise /\ ~Mine.hydrated /\ t.promise
              ELSE t.promise = Mine.promise /\ (c.op = "get" => Mine.hydrated)
            BY <1>1, <1>3, <2>2, <3>2 DEF ViewerStates
        <3> QED  BY <1>1, <1>3, <3>2, <3>3, Sends
    <2> QED  BY <2>1, <2>2
<1>7. Mine.live
    BY GoneIs DEF ViewerInv, V!TimerFires, V!Gone, V!Fresh, Mine
<1> QED  BY <1>2, <1>3, <1>4, <1>5, <1>6, <1>7 DEF ViewerInv, ViewerTypeOK

LEMMA DisposeKeeps ==
    ASSUME ViewerInv, V!dispose(El)
    PROVE  ViewerInv' /\ ~Mine'.live /\ config' = config
<1>1. /\ Mine \in ViewerStates /\ answers \in Seq(Replies) /\ calls \in Seq(Requests)
    BY DEF ViewerInv, ViewerTypeOK, Mine
<1>2. vs' \in [{El} -> ViewerStates] /\ Mine' = V!Gone
    BY GoneIs DEF V!dispose, ViewerInv, ViewerTypeOK, Mine
<1>3. PICK c \in V!Without(El, calls) :
        calls' = c \o V!DisposeCalls(El) /\ answers' \in V!Without(El, answers)
    BY DEF V!dispose
<1>4. c \in Seq(Requests) /\ answers' \in Seq(Replies) /\ Flow(V!Gone, c, answers')
    BY <1>1, <1>3, GoneIs, Forsaken
<1>5. calls' \in Seq(Requests) /\ Flow(V!Gone, calls', answers')
    <2> DEFINE w == V!Write(El, Mine.nonce, Mine.cache)
    <2>1. CASE V!DisposeCalls(El) = <<>>
        BY <1>3, <1>4, <2>1, ConcatEmptySeq
    <2>2. ASSUME V!DisposeCalls(El) # <<>>
          PROVE  calls' \in Seq(Requests) /\ Flow(V!Gone, calls', answers')
        <3>1. V!DisposeCalls(El) = <<w>> /\ Mine.nonce \in Nonces
            BY <1>1, <2>2 DEF V!DisposeCalls, V!isActive, ViewerStates, Mine
        <3>2. w \in Requests /\ ~IsHydrate(w) /\ w.op # "get"
            BY <1>1, <3>1 DEF V!Write, Requests, IsHydrate, ViewerStates, ViewerInv,
                ViewerTypeOK, Keys
        <3> HIDE DEF w
        <3>3. calls' = Append(c, w)
            BY <1>3, <1>4, <3>1, <3>2, AppendIsConcat
        <3> QED  BY <1>4, <3>2, <3>3, Sends
    <2> QED  BY <2>1, <2>2
<1>6. owner' \in [Nonces -> {El, None}] /\ config' = config /\ record' = record
    BY DEF V!dispose, V!OwnerAfter, ViewerInv, ViewerTypeOK
<1>7. seen' \in [{El} -> [removed : SUBSET Keys, unbroken : BOOLEAN, unsaved : BOOLEAN]]
    BY DEF V!dispose, V!Unseen, ViewerInv, ViewerTypeOK
<1> QED  BY <1>2, <1>4, <1>5, <1>6, <1>7, GoneIs DEF ViewerInv, ViewerTypeOK

LEMMA ServerKeeps ==
    ASSUME ViewerInv, NEW ok \in BOOLEAN, V!ServerHandles(ok)
    PROVE  ViewerInv' /\ vs' = vs /\ config' = config
<1> DEFINE c == Head(calls)
           r == [el |-> c.el, op |-> "get", by |-> c.by, nonce |-> c.nonce, epoch |-> c.epoch,
                 ok |-> ok, value |-> IF ok THEN record[c.nonce] ELSE V!Empty]
<1>1. /\ answers \in Seq(Replies) /\ calls \in Seq(Requests) /\ Flow(Mine, calls, answers)
      /\ calls # <<>> /\ calls' = Tail(calls) /\ config' = config /\ owner' = owner /\ vs' = vs
    BY DEF V!ServerHandles, ViewerInv, ViewerTypeOK
<1>2. Tail(calls) \in Seq(Requests) /\ c \in Requests
    BY <1>1, Shifted
<1>3. CASE c.op = "get"
    <2>1. answers' = Append(answers, r) /\ record' = record /\ seen' = seen
        BY <1>3 DEF V!ServerHandles
    <2>2. r \in Replies /\ r.by = c.by
        <3>1. c.el = El /\ c.by \in {"hydrate", "reread"} /\ c.nonce \in Nonces /\ c.epoch \in Nat
            BY <1>2, <1>3 DEF Requests
        <3>2. (IF ok THEN record[c.nonce] ELSE V!Empty) \in Caches
            BY <3>1 DEF ViewerInv, ViewerTypeOK, V!Empty, Caches, Keys
        <3> QED  BY <3>1, <3>2 DEF Replies
    <2> HIDE DEF r
    <2>3. answers' \in Seq(Replies)
        BY <1>1, <2>1, <2>2, Appended
    <2>4. Flow(Mine, calls', answers')
        BY <1>1, <1>3, <2>1, <2>2, Moves
    <2> QED  BY <1>1, <1>2, <2>1, <2>3, <2>4 DEF ViewerInv, ViewerTypeOK, Mine
<1>4. CASE c.op # "get"
    <2>1. answers' = answers
          /\ record' = IF ok THEN [record EXCEPT ![c.nonce] = c.value] ELSE record
        BY <1>4 DEF V!ServerHandles
    <2>2. c.el = El /\ c.value \in Caches
        BY <1>2 DEF Requests
    <2>3. record' \in [Nonces -> Caches]
        BY <2>1, <2>2 DEF ViewerInv, ViewerTypeOK
    <2>4. seen' \in [{El} -> [removed : SUBSET Keys, unbroken : BOOLEAN, unsaved : BOOLEAN]]
        <3>1. PICK b \in BOOLEAN : seen' = [seen EXCEPT ![El].unsaved = b]
            BY <1>4, <2>2 DEF V!ServerHandles, ViewerInv, ViewerTypeOK, ViewerStates
        <3> QED  BY <3>1 DEF ViewerInv, ViewerTypeOK
    <2>5. Flow(Mine, calls', answers')
        BY <1>1, <2>1, Moves
    <2> QED  BY <1>1, <1>2, <2>1, <2>3, <2>4, <2>5 DEF ViewerInv, ViewerTypeOK, Mine
<1> QED  BY <1>3, <1>4

-----------------------------------------------------------------------------
(* The operations of the card                                                *)

\* The fields that neither an overlay nor an answer changes.
Same(c, d) ==
    /\ d.up = c.up /\ d.ready = c.ready /\ d.map = c.map /\ d.want = c.want
    /\ d.built = c.built /\ d.timer = c.timer /\ d.stray = c.stray /\ d.session = c.session
    /\ d.hidden = c.hidden /\ d.offScreen = c.offScreen /\ d.observed = c.observed

LEMMA WantedIs ==
    ASSUME NEW c \in Cards, NEW s
    PROVE  Wanted(c, s) \subseteq Overlays
BY CardAssumption DEF Wanted, Cards, Configs

LEMMA SpeedIs ==
    ASSUME NEW c \in Cards, NEW s \in ViewerStates
    PROVE  loadPlaybackSpeed(c, s) \in Speeds \cup {"off", None}
BY DEF loadPlaybackSpeed, Cards, Configs, ViewerStates, Caches, Keys

LEMMA ApplyKeeps ==
    ASSUME NEW c, NEW s \in ViewerStates, NEW tab, Sound(c, tab)
    PROVE  LET d == applyOverlays(c, s)
           IN /\ Sound(d, tab) /\ Same(c, d) /\ d.owed = c.owed /\ d.missed = c.missed
              /\ d.speed = c.speed
              /\ c.map /\ ~ChoicesDue(s) => d.running = Wanted(d, s)
<1> DEFINE d == applyOverlays(c, s)
           w == Wanted(c, s)
           p == {k \in c.paused : k \in w \cup {Player}}
                   \cup IF c.hidden THEN w \ c.running ELSE {}
<1>1. c \in Cards /\ w \subseteq Overlays
    BY WantedIs DEF Sound
<1>2. CASE ~c.map \/ ChoicesDue(s)
    BY <1>2 DEF applyOverlays, Same
<1>3. ASSUME c.map, ~ChoicesDue(s)
      PROVE  LET e == applyOverlays(c, s)
             IN /\ Sound(e, tab) /\ Same(c, e) /\ e.owed = c.owed /\ e.missed = c.missed
                /\ e.speed = c.speed /\ e.running = Wanted(e, s)
    <2>1. d = [c EXCEPT !.running = w, !.paused = p]
        BY <1>3 DEF applyOverlays
    <2>2. p \subseteq Overlays \cup {Player}
        BY <1>1 DEF Cards
    <2>3. p = IF c.hidden THEN w \cup {Player} ELSE {}
        BY <1>1, <1>3 DEF Sound
    <2> HIDE DEF d, w, p
    <2>4. /\ d \in Cards /\ Same(c, d) /\ d.owed = c.owed /\ d.missed = c.missed
          /\ d.speed = c.speed /\ d.running = w /\ d.paused = p
        BY <1>1, <2>1, <2>2 DEF Cards, Same
    <2>5. Wanted(d, s) = w
        BY <2>4 DEF Wanted, isOn, Same, w
    <2>6. Sound(d, tab)
        BY <1>3, <2>3, <2>4 DEF Sound, Same
    <2> QED  BY <2>4, <2>5, <2>6 DEF d
<1> QED  BY <1>2, <1>3

LEMMA HydratedKeeps ==
    ASSUME NEW c, NEW s \in ViewerStates, NEW tab, Sound(c, tab)
    PROVE  LET d == afterHydrate(c, s)
           IN /\ Sound(d, tab) /\ Same(c, d)
              /\ ~d.owed /\ ~d.missed
              /\ c.map /\ ~ChoicesDue(s) => Applied(d, s)
<1> DEFINE b == [c EXCEPT !.owed = FALSE, !.missed = FALSE,
                          !.speed = IF c.map THEN loadPlaybackSpeed(c, s) ELSE c.speed]
           d == afterHydrate(c, s)
<1>1. c \in Cards /\ (IF c.map THEN loadPlaybackSpeed(c, s) ELSE c.speed) \in Speeds \cup {"off", None}
    BY SpeedIs DEF Sound, Cards
<1>2. d = applyOverlays(b, s)
    BY DEF afterHydrate
<1>3. /\ b \in Cards /\ Same(c, b) /\ ~b.owed /\ ~b.missed
      /\ b.running = c.running /\ b.paused = c.paused
      /\ c.map => b.speed = loadPlaybackSpeed(c, s)
    BY <1>1 DEF Cards, Same
<1> HIDE DEF b, d
<1>4. Sound(b, tab)
    BY <1>3 DEF Sound, Same
<1>5. /\ Sound(d, tab) /\ Same(b, d) /\ d.owed = b.owed /\ d.missed = b.missed
      /\ d.speed = b.speed
      /\ b.map /\ ~ChoicesDue(s) => d.running = Wanted(d, s)
    BY <1>2, <1>4, ApplyKeeps
<1>6. Same(c, d) /\ ~d.owed /\ ~d.missed
    BY <1>3, <1>5 DEF Same
<1>7. c.map /\ ~ChoicesDue(s) => Applied(d, s)
    BY <1>3, <1>5, <1>6 DEF Applied, Same, loadPlaybackSpeed
<1> QED  BY <1>5, <1>6, <1>7 DEF d

LEMMA UnbuiltKeeps ==
    ASSUME NEW c \in Cards, NEW tab
    PROVE  /\ Sound(Unbuilt(c), tab) /\ ~Unbuilt(c).map
           /\ Unbuilt(c).up = c.up /\ Unbuilt(c).ready = c.ready /\ Unbuilt(c).timer = c.timer
BY DEF Unbuilt, Sound, Cards

LEMMA BuiltKeeps ==
    ASSUME NEW c, NEW s \in ViewerStates, NEW tab, Sound(c, tab), ~c.map
    PROVE  LET d == Built(c, s)
           IN /\ Good(d, s, tab)
              /\ d.up = c.up /\ d.ready = c.ready /\ d.timer = c.timer
              /\ d.map = (c.up /\ c.ready)
<1> DEFINE d == Built(c, s)
           o == c.owed \/ ChoicesDue(s)
           b == [c EXCEPT !.map = TRUE, !.built = c.want.rest,
                          !.running = {}, !.paused = {}, !.hidden = FALSE, !.offScreen = FALSE,
                          !.observed = FALSE, !.owed = o, !.missed = FALSE,
                          !.speed = loadPlaybackSpeed(c, s)]
<1>1. c \in Cards
    BY DEF Sound
<1>2. CASE ~c.up \/ ~c.ready
    BY <1>1, <1>2 DEF Built, Good, Awaited, Shows, Cards
<1>3. ASSUME c.up, c.ready
      PROVE  LET e == Built(c, s)
             IN Good(e, s, tab) /\ e.up /\ e.ready /\ e.timer = c.timer /\ e.map
    <2>1. d = applyOverlays(b, s)
        BY <1>3 DEF Built
    <2>2. loadPlaybackSpeed(c, s) \in Speeds \cup {"off", None} /\ c.want.rest \in DOMAIN OfRest
        BY <1>1, SpeedIs DEF Cards, Configs
    <2>3. o \in BOOLEAN /\ (ChoicesDue(s) => o)
        BY <1>1 DEF ChoicesDue, Active, Cards
    <2> HIDE DEF o
    <2>4. /\ b \in Cards /\ b.map /\ b.up /\ b.ready /\ b.timer = c.timer
          /\ b.want = c.want /\ b.built = b.want.rest /\ b.paused = {} /\ ~b.hidden /\ ~b.observed
          /\ b.owed = o /\ ~b.missed /\ b.speed = loadPlaybackSpeed(c, s)
        BY <1>1, <1>3, <2>2, <2>3 DEF Cards
    <2> HIDE DEF b, d
    <2>5. Sound(b, tab)
        BY <2>4 DEF Sound
    <2>6. /\ Sound(d, tab) /\ Same(b, d) /\ d.owed = b.owed /\ d.missed = b.missed
          /\ d.speed = b.speed
          /\ b.map /\ ~ChoicesDue(s) => d.running = Wanted(d, s)
        BY <2>1, <2>5, ApplyKeeps
    <2>7. Awaited(d, s)
        BY <2>3, <2>4, <2>6 DEF Awaited
    <2>8. Shows(d, s)
        BY <2>4, <2>6 DEF Shows, Applied, Same, loadPlaybackSpeed
    <2> QED  BY <2>4, <2>6, <2>7, <2>8 DEF Good, Same, d
<1> QED  BY <1>1, <1>2, <1>3 DEF Cards

LEMMA RebuiltKeeps ==
    ASSUME NEW c \in Cards, NEW s \in ViewerStates, NEW tab
    PROVE  LET d == Rebuilt(c, s)
           IN /\ Good(d, s, tab)
              /\ d.up = c.up /\ d.ready = c.ready /\ d.timer = c.timer
              /\ d.map = (c.up /\ c.ready)
BY UnbuiltKeeps, BuiltKeeps DEF Rebuilt

LEMMA HydrateCalledKeeps ==
    ASSUME NEW c, NEW s \in ViewerStates, NEW tab, Sound(c, tab)
    PROVE  LET d == HydrateCalled(c, s) IN Good(d, s, tab) /\ Same(c, d)
<1> DEFINE d == HydrateCalled(c, s)
<1>1. CASE ChoicesDue(s)
    <2>1. d = [c EXCEPT !.owed = TRUE]
        BY <1>1 DEF HydrateCalled
    <2> HIDE DEF d
    <2>2. d \in Cards /\ Same(c, d) /\ d.owed /\ d.running = c.running /\ d.paused = c.paused
        BY <2>1 DEF Sound, Cards, Same
    <2>3. Sound(d, tab)
        BY <2>2 DEF Sound, Same
    <2> QED  BY <1>1, <2>2, <2>3 DEF Good, Awaited, Shows, d
<1>2. CASE ~ChoicesDue(s)
    <2>1. d = afterHydrate(c, s)
        BY <1>2 DEF HydrateCalled
    <2> HIDE DEF d
    <2>2. /\ Sound(d, tab) /\ Same(c, d)
          /\ c.map /\ ~ChoicesDue(s) => Applied(d, s)
        BY <2>1, HydratedKeeps
    <2> QED  BY <1>2, <2>2 DEF Good, Awaited, Shows, Same, d
<1> QED  BY <1>1, <1>2

-----------------------------------------------------------------------------
(* Every step keeps the invariant                                            *)

LEMMA ViewerStays ==
    ASSUME ViewerInv, UNCHANGED viewer
    PROVE  ViewerInv' /\ Mine' = Mine /\ config' = config
BY DEF viewer, ViewerInv, ViewerTypeOK, Mine, Flow, Expected, OneHydrate, Awaits, IsHydrate

\* What the card shows depends on the id, the cache and whether it was read.
LEMMA SameView ==
    ASSUME NEW c, NEW s, NEW t, NEW tab, Good(c, s, tab),
           t.nonce = s.nonce, t.cache = s.cache, t.hydrated = s.hydrated
    PROVE  Good(c, t, tab)
<1>1. ChoicesDue(t) = ChoicesDue(s) /\ Active(t) = Active(s)
    BY DEF ChoicesDue, Active
<1>2. Wanted(c, t) = Wanted(c, s)
    BY <1>1 DEF Wanted, isOn
<1>3. loadPlaybackSpeed(c, t) = loadPlaybackSpeed(c, s)
    BY <1>1 DEF loadPlaybackSpeed
<1> QED  BY <1>1, <1>2, <1>3 DEF Good, Awaited, Shows, Applied

LEMMA InvFacts ==
    ASSUME CardInv
    PROVE  /\ card \in Cards /\ Sound(card, tabHidden) /\ Mine \in ViewerStates /\ tabHidden \in BOOLEAN
           /\ config[El] \in Nonces \cup {None} /\ ViewerInv /\ Attached
BY DEF CardInv, Good, Sound, ViewerInv, ViewerTypeOK, Mine

LEMMA NextFacts ==
    ASSUME ViewerInv'
    PROVE  Mine' \in ViewerStates
BY DEF ViewerInv, ViewerTypeOK, Mine

LEMMA MountStep == CardInv /\ Mount => CardInv'
<1> SUFFICES ASSUME CardInv, Mount PROVE CardInv'
    OBVIOUS
<1>1. /\ card \in Cards /\ Sound(card, tabHidden) /\ Mine \in ViewerStates /\ ViewerInv
      /\ Attached /\ config[El] \in Nonces \cup {None} /\ tabHidden \in BOOLEAN
    BY InvFacts
<1>2. tabHidden' = tabHidden /\ ~card.up /\ ~card.map
    BY <1>1 DEF Mount, Attached
<1> DEFINE c == [card EXCEPT !.up = TRUE]
<1>3. /\ c \in Cards /\ Sound(c, tabHidden) /\ ~c.map /\ c.up /\ c.ready = card.ready
      /\ c.timer = card.timer
    BY <1>1, <1>2 DEF Cards, Sound
<1> HIDE DEF c
<1>4. CASE card.ready
    <2>1. V!Identify(El, config[El], TRUE) /\ card' = HydrateCalled(Built(c, Mine'), Mine')
        BY <1>4 DEF Mount, c, Mine, Mine_
    <2>2. ViewerInv' /\ Mine'.live /\ Mine'.nonce = config'[El]
        BY <1>1, <2>1, IdentifyKeeps
    <2>3. Mine' \in ViewerStates
        BY <2>2, NextFacts
    <2> DEFINE b == Built(c, Mine')
    <2>4. Good(b, Mine', tabHidden) /\ b.up /\ b.ready /\ b.map
        BY <1>3, <1>4, <2>3, BuiltKeeps
    <2> HIDE DEF b
    <2>5. Good(card', Mine', tabHidden) /\ Same(b, card')
        BY <2>1, <2>3, <2>4, HydrateCalledKeeps DEF Good, b
    <2> QED  BY <1>1, <1>2, <2>2, <2>4, <2>5 DEF CardInv, Attached, Same
<1>5. CASE ~card.ready
    <2>1. UNCHANGED viewer /\ card' = c
        BY <1>5 DEF Mount, c
    <2>2. ViewerInv' /\ Mine' = Mine /\ config' = config
        BY <1>1, <2>1, ViewerStays
    <2>3. Good(card', Mine', tabHidden')
        BY <1>2, <1>3, <2>1 DEF Good, Awaited, Shows
    <2> QED  BY <1>1, <1>2, <1>3, <2>1, <2>2, <2>3 DEF CardInv, Attached
<1> QED  BY <1>4, <1>5

LEMMA FirstUpdateStep == CardInv /\ FirstUpdate => CardInv'
<1> SUFFICES ASSUME CardInv, FirstUpdate PROVE CardInv'
    OBVIOUS
<1> DEFINE c == [card EXCEPT !.ready = TRUE]
<1>1. /\ card \in Cards /\ Sound(card, tabHidden) /\ ViewerInv /\ Attached
      /\ config[El] \in Nonces \cup {None} /\ tabHidden \in BOOLEAN
    BY InvFacts
<1>2. /\ tabHidden' = tabHidden /\ card.up /\ ~card.map
      /\ V!Identify(El, config[El], TRUE) /\ card' = Built(c, Mine')
    BY <1>1 DEF FirstUpdate, Attached, Mine, Mine_
<1>3. c \in Cards /\ Sound(c, tabHidden) /\ ~c.map /\ c.up /\ c.ready
    BY <1>1, <1>2 DEF Cards, Sound
<1> HIDE DEF c
<1>4. ViewerInv' /\ Mine'.live /\ Mine'.nonce = config'[El]
    BY <1>1, <1>2, IdentifyKeeps
<1>5. Mine' \in ViewerStates
    BY <1>4, NextFacts
<1>6. Good(card', Mine', tabHidden) /\ card'.up /\ card'.ready
    BY <1>2, <1>3, <1>5, BuiltKeeps
<1> QED  BY <1>1, <1>2, <1>4, <1>6 DEF CardInv, Attached

LEMMA UnmountStep == CardInv /\ Unmount => CardInv'
<1> SUFFICES ASSUME CardInv, Unmount PROVE CardInv'
    OBVIOUS
<1> DEFINE o == Unbuilt(card).stray \/ card.owed
<1>1. /\ card \in Cards /\ ViewerInv /\ Attached /\ tabHidden \in BOOLEAN
    BY InvFacts
<1>2. ViewerInv' /\ ~Mine'.live
    BY <1>1, DisposeKeeps, ViewerStays DEF Unmount
<1>3. /\ Sound(Unbuilt(card), tabHidden) /\ ~Unbuilt(card).map
    BY <1>1, UnbuiltKeeps
<1>4. /\ card' = [Unbuilt(card) EXCEPT !.up = FALSE, !.timer = FALSE, !.owed = FALSE, !.stray = o]
      /\ o \in BOOLEAN /\ tabHidden' = tabHidden
    BY DEF Unmount
<1> HIDE DEF o
<1>5. card' \in Cards /\ ~card'.map /\ ~card'.timer /\ card'.running = {} /\ card'.paused = {}
    BY <1>3, <1>4 DEF Sound, Cards
<1>6. Good(card', Mine', tabHidden')
    BY <1>5 DEF Good, Sound, Awaited, Shows
<1> QED  BY <1>1, <1>2, <1>4, <1>5, <1>6 DEF CardInv, Attached

LEMMA StrayStep == CardInv /\ StrayHydrateReturns => CardInv'
<1> SUFFICES ASSUME CardInv, StrayHydrateReturns PROVE CardInv'
    OBVIOUS
<1> DEFINE d == afterHydrate(card, Mine)
<1>1. /\ card \in Cards /\ Sound(card, tabHidden) /\ Mine \in ViewerStates /\ ViewerInv
      /\ Attached /\ tabHidden \in BOOLEAN
    BY InvFacts
<1>2. /\ ViewerInv' /\ Mine' = Mine /\ config' = config /\ tabHidden' = tabHidden
      /\ card' = [d EXCEPT !.stray = FALSE, !.owed = card.owed, !.missed = card.missed]
    BY <1>1, ViewerStays DEF StrayHydrateReturns
<1>3. /\ Sound(d, tabHidden) /\ Same(card, d)
      /\ card.map /\ ~ChoicesDue(Mine) => Applied(d, Mine)
    BY <1>1, HydratedKeeps
<1> HIDE DEF d
<1>4. /\ card' \in Cards /\ card'.owed = card.owed /\ card'.missed = card.missed
      /\ card'.running = d.running /\ card'.speed = d.speed /\ card'.paused = d.paused
      /\ card'.map = card.map /\ card'.up = card.up /\ card'.ready = card.ready
      /\ card'.timer = card.timer /\ card'.hidden = d.hidden /\ card'.observed = d.observed
      /\ card'.offScreen = d.offScreen /\ card'.built = d.built /\ card'.want = d.want
      /\ card'.session = d.session /\ d.map = card.map /\ d.timer = card.timer
    BY <1>1, <1>2, <1>3 DEF Sound, Cards, Same
<1>5. Sound(card', tabHidden)
    BY <1>3, <1>4 DEF Sound
<1>6. Applied(d, Mine) => Applied(card', Mine)
    BY <1>4 DEF Applied, Wanted, isOn, loadPlaybackSpeed
<1>7. Good(card', Mine, tabHidden)
    BY <1>3, <1>4, <1>5, <1>6 DEF CardInv, Good, Awaited, Shows
<1> QED  BY <1>1, <1>2, <1>4, <1>7 DEF CardInv, Attached

\* Theme flips and the rebuild timer alike.
LEMMA RebuildStep ==
    ASSUME CardInv, NEW c \in Cards, c.up = card.up, c.ready, c.timer = FALSE \/ c.timer = card.timer,
           V!Identify(El, config[El], TRUE), card' = Rebuilt(c, Mine'), tabHidden' = tabHidden
    PROVE  CardInv'
<1>1. ViewerInv /\ config[El] \in Nonces \cup {None} /\ tabHidden \in BOOLEAN
    BY InvFacts
<1>2. ViewerInv' /\ Mine'.live /\ Mine'.nonce = config'[El]
    BY <1>1, IdentifyKeeps
<1>3. Mine' \in ViewerStates
    BY <1>2, NextFacts
<1>4. /\ Good(card', Mine', tabHidden) /\ card'.up = c.up /\ card'.ready = c.ready
      /\ card'.map = (c.up /\ c.ready)
    BY <1>3, RebuiltKeeps
<1> QED  BY <1>1, <1>2, <1>4 DEF CardInv, Attached

LEMMA ThemeFlipsStep == CardInv /\ ThemeFlips => CardInv'
<1> SUFFICES ASSUME CardInv, ThemeFlips PROVE CardInv'
    OBVIOUS
<1>1. card \in Cards /\ card.ready
    BY InvFacts DEF ThemeFlips, Attached
<1> QED  BY <1>1, RebuildStep DEF ThemeFlips, Mine, Mine_

LEMMA RebuildTimerStep == CardInv /\ RebuildTimerFires => CardInv'
<1> SUFFICES ASSUME CardInv, RebuildTimerFires PROVE CardInv'
    OBVIOUS
<1> DEFINE c == [card EXCEPT !.timer = FALSE]
<1>1. /\ card \in Cards /\ card.ready
    BY InvFacts DEF RebuildTimerFires, Attached
<1>2. c \in Cards /\ c.up = card.up /\ c.ready /\ c.timer = FALSE
    BY <1>1 DEF Cards
<1>3. V!Identify(El, config[El], TRUE) /\ card' = Rebuilt(c, Mine') /\ tabHidden' = tabHidden
    BY DEF RebuildTimerFires, Mine, Mine_
<1> HIDE DEF c
<1> QED  BY <1>2, <1>3, RebuildStep

LEMMA setConfigStep ==
    ASSUME CardInv, NEW want \in Configs, NEW n \in Nonces \cup {None}, NEW moved \in BOOLEAN,
           setConfig(want, n, moved)
    PROVE  CardInv'
<1> DEFINE c == [card EXCEPT !.want = want]
           changed == Changed(want, n, moved)
           narrow == card.map /\ changed \in {{"view"}, {"speed"}}
<1>1. /\ card \in Cards /\ Sound(card, tabHidden) /\ Mine \in ViewerStates /\ ViewerInv
      /\ Attached /\ tabHidden \in BOOLEAN /\ Awaited(card, Mine) /\ Shows(card, Mine)
    BY InvFacts DEF CardInv, Good
<1>2. tabHidden' = tabHidden
    BY DEF setConfig
<1>3. /\ c \in Cards /\ Same([c EXCEPT !.want = card.want], card) /\ c.want = want
      /\ c.running = card.running /\ c.paused = card.paused /\ c.owed = card.owed
      /\ c.missed = card.missed /\ c.speed = card.speed
    BY <1>1 DEF Cards, Same
<1>4. /\ c.map = card.map /\ c.up = card.up /\ c.ready = card.ready /\ c.timer = card.timer
      /\ c.hidden = card.hidden /\ c.offScreen = card.offScreen /\ c.observed = card.observed
      /\ c.built = card.built /\ c.session = card.session
    BY <1>1 DEF Cards
<1> HIDE DEF c
<1>5. /\ "rest" \notin changed => want.rest = card.want.rest
      /\ "speed" \notin changed => want.speed = card.want.speed
      /\ "id" \notin changed => n = config[El]
    BY DEF Changed
<1>6. \/ narrow /\ V!Identify(El, n, FALSE)
           /\ card' = IF changed = {"view"} THEN c
                      ELSE [c EXCEPT !.speed = loadPlaybackSpeed(c, Mine)]
      \/ card.map /\ changed = {"id"} /\ V!Identify(El, n, TRUE)
           /\ card' = HydrateCalled(c, Mine')
      \/ /\ ~narrow
         /\ IF card.ready THEN V!Identify(El, n, FALSE)
            ELSE /\ config' = [config EXCEPT ![El] = n]
                 /\ UNCHANGED <<owner, vs, record, calls, answers, seen>>
         /\ card' = [c EXCEPT !.timer = c.timer \/ card.map]
    BY DEF setConfig, Mine, Mine_, c
<1> HIDE DEF changed
<1>7. ASSUME narrow, V!Identify(El, n, FALSE),
             card' = IF changed = {"view"} THEN c
                     ELSE [c EXCEPT !.speed = loadPlaybackSpeed(c, Mine)]
      PROVE  CardInv'
    <2>1. n = config[El] /\ want.rest = card.want.rest /\ card.map
          /\ (changed = {"view"} => want.speed = card.want.speed)
        BY <1>5, <1>7
    <2>2. /\ ViewerInv' /\ Mine'.live /\ Mine'.nonce = n /\ config'[El] = n
          /\ Mine'.cache = Mine.cache /\ Mine'.hydrated = Mine.hydrated
        BY <1>1, <1>7, IdentifyKeeps
    <2>3. Mine'.nonce = Mine.nonce
        BY <1>1, <2>1, <2>2 DEF Attached
    <2>4. Wanted(c, Mine) = Wanted(card, Mine)
        BY <1>3, <1>4, <2>1 DEF Wanted, isOn
    <2>5. Sound(c, tabHidden) /\ Awaited(c, Mine)
        BY <1>1, <1>3, <1>4, <2>1 DEF Sound, Awaited
    <2>6. CASE changed = {"view"}
        <3>1. card' = c
            BY <1>7, <2>6
        <3>2. loadPlaybackSpeed(c, Mine) = loadPlaybackSpeed(card, Mine)
            BY <1>3, <2>1, <2>6 DEF loadPlaybackSpeed
        <3>3. Good(c, Mine, tabHidden)
            BY <1>1, <1>3, <1>4, <2>4, <2>5, <3>2 DEF Good, Shows, Applied
        <3>4. Good(c, Mine', tabHidden)
            BY <2>2, <2>3, <3>3, SameView
        <3> QED  BY <1>1, <1>2, <1>4, <2>1, <2>2, <3>1, <3>4 DEF CardInv, Attached
    <2>7. CASE changed # {"view"}
        <3> DEFINE d == [c EXCEPT !.speed = loadPlaybackSpeed(c, Mine)]
        <3>1. loadPlaybackSpeed(c, Mine) \in Speeds \cup {"off", None}
            BY <1>1, <1>3, SpeedIs
        <3>2. /\ d \in Cards /\ Same(c, d) /\ d.speed = loadPlaybackSpeed(c, Mine)
              /\ d.running = c.running /\ d.paused = c.paused /\ d.owed = c.owed
              /\ d.missed = c.missed
            BY <1>3, <3>1 DEF Cards, Same
        <3>3. card' = d
            BY <1>7, <2>7
        <3> HIDE DEF d
        <3>4. loadPlaybackSpeed(d, Mine) = loadPlaybackSpeed(c, Mine) /\ Wanted(d, Mine) = Wanted(c, Mine)
            BY <3>2 DEF loadPlaybackSpeed, Wanted, isOn, Same
        <3>5. Sound(d, tabHidden) /\ Awaited(d, Mine)
            BY <2>5, <3>2 DEF Sound, Awaited, Same
        <3>6. Good(d, Mine, tabHidden)
            BY <1>1, <1>3, <1>4, <2>4, <3>2, <3>4, <3>5 DEF Good, Shows, Applied, Same
        <3>7. Good(d, Mine', tabHidden)
            BY <2>2, <2>3, <3>6, SameView
        <3> QED  BY <1>1, <1>2, <1>4, <2>1, <2>2, <3>2, <3>3, <3>7 DEF CardInv, Attached, Same
    <2> QED  BY <2>6, <2>7
<1>8. ASSUME card.map, changed = {"id"}, V!Identify(El, n, TRUE), card' = HydrateCalled(c, Mine')
      PROVE  CardInv'
    <2>1. want.rest = card.want.rest
        BY <1>5, <1>8
    <2>2. ViewerInv' /\ Mine'.live /\ Mine'.nonce = n /\ config'[El] = n
        BY <1>1, <1>8, IdentifyKeeps
    <2>3. Mine' \in ViewerStates
        BY <2>2, NextFacts
    <2>4. Sound(c, tabHidden)
        BY <1>1, <1>3, <1>4, <2>1 DEF Sound
    <2>5. Good(card', Mine', tabHidden) /\ Same(c, card')
        BY <1>8, <2>3, <2>4, HydrateCalledKeeps
    <2> QED  BY <1>1, <1>2, <1>4, <1>8, <2>2, <2>5 DEF CardInv, Attached, Same
<1>9. ASSUME ~narrow,
             IF card.ready THEN V!Identify(El, n, FALSE)
             ELSE /\ config' = [config EXCEPT ![El] = n]
                  /\ UNCHANGED <<owner, vs, record, calls, answers, seen>>,
             card' = [c EXCEPT !.timer = c.timer \/ card.map]
      PROVE  CardInv'
    <2> DEFINE b == c.timer \/ card.map
    <2>1. b \in BOOLEAN /\ (b <=> card.timer \/ card.map)
        BY <1>1, <1>4 DEF Cards
    <2>2. card' = [c EXCEPT !.timer = b]
        BY <1>9
    <2> HIDE DEF b
    <2>3. /\ card' \in Cards /\ card'.timer = b /\ card'.map = card.map /\ card'.up = card.up
          /\ card'.ready = card.ready /\ card'.running = card.running /\ card'.paused = card.paused
          /\ card'.hidden = card.hidden /\ card'.offScreen = card.offScreen
          /\ card'.observed = card.observed
        BY <1>3, <1>4, <2>1, <2>2 DEF Cards
    <2>4. Good(card', Mine', tabHidden)
        BY <1>1, <2>1, <2>3 DEF Good, Sound, Awaited, Shows
    <2>5. CASE card.ready
        <3>1. ViewerInv' /\ Mine'.live /\ Mine'.nonce = n /\ config'[El] = n
            BY <1>1, <1>9, <2>5, IdentifyKeeps
        <3> QED  BY <1>1, <1>2, <2>3, <2>4, <2>5, <3>1 DEF CardInv, Attached
    <2>6. CASE ~card.ready
        <3>1. config' = [config EXCEPT ![El] = n] /\ UNCHANGED <<owner, vs, record, calls, answers, seen>>
            BY <1>9, <2>6
        <3>2. ViewerInv' /\ Mine' = Mine
            BY <1>1, <3>1 DEF ViewerInv, ViewerTypeOK, Mine, Flow, Expected, OneHydrate, Awaits,
                IsHydrate
        <3>3. ~Mine.live /\ ~card.map /\ ~card.timer
            BY <1>1, <2>6 DEF Attached
        <3> QED  BY <1>1, <1>2, <2>1, <2>3, <2>4, <3>2, <3>3 DEF CardInv, Attached
    <2> QED  BY <2>5, <2>6
<1> HIDE DEF narrow
<1> QED  BY <1>6, <1>7, <1>8, <1>9

\* ViewerState.set and delete, as the card calls them.
Edited(k, v) ==
    /\ ViewerInv' /\ config' = config
    /\ Mine'.live = Mine.live /\ Mine'.nonce = Mine.nonce /\ Mine'.hydrated = Mine.hydrated
    /\ \A j \in Keys \ {k} : Mine'.cache[j] = Mine.cache[j]
    /\ Active(Mine) => Mine'.cache[k] = v

LEMMA StoreKeeps ==
    ASSUME CardInv, NEW k \in Keys, NEW v \in Speeds \cup {"off"}, Store(k, v)
    PROVE  Edited(k, v)
<1>1. Mine \in ViewerStates /\ ViewerInv
    BY InvFacts
<1>2. CASE Active(Mine) /\ Mine.cache[k] # v
    <2>1. V!set(El, k, v)
        BY <1>2 DEF Store
    <2>2. \E removed \in SUBSET Keys : seen' = [seen EXCEPT ![El].removed = removed]
        <3>1. seen[El].removed \ {k} \in SUBSET Keys
            BY <1>1 DEF ViewerInv, ViewerTypeOK
        <3> QED  BY <2>1, <3>1 DEF V!set
    <2>3. /\ vs' = [vs EXCEPT ![El].cache[k] = v, ![El].timer = TRUE]
          /\ config' = config /\ owner' = owner /\ record' = record /\ calls' = calls
          /\ answers' = answers
        BY <2>1 DEF V!set
    <2>4. /\ ViewerInv' /\ Mine'.live = Mine.live /\ Mine'.nonce = Mine.nonce
          /\ Mine'.hydrated = Mine.hydrated /\ Mine'.cache = [Mine.cache EXCEPT ![k] = v]
        BY <1>1, <1>2, <2>2, <2>3, EditKeeps DEF Active
    <2> QED  BY <1>1, <2>3, <2>4 DEF Edited, ViewerStates, Caches
<1>3. CASE ~(Active(Mine) /\ Mine.cache[k] # v)
    <2>1. UNCHANGED viewer
        BY <1>3 DEF Store
    <2>2. ViewerInv' /\ Mine' = Mine /\ config' = config
        BY <1>1, <2>1, ViewerStays
    <2> QED  BY <1>3, <2>2 DEF Edited
<1> QED  BY <1>2, <1>3

LEMMA DropKeeps ==
    ASSUME CardInv, NEW k \in Keys, Drop(k)
    PROVE  Edited(k, None)
<1>1. Mine \in ViewerStates /\ ViewerInv
    BY InvFacts
<1>2. CASE Active(Mine) /\ Mine.cache[k] # None
    <2>1. V!delete(El, k)
        BY <1>2 DEF Drop
    <2>2. \E removed \in SUBSET Keys : seen' = [seen EXCEPT ![El].removed = removed]
        <3>1. seen[El].removed \cup {k} \in SUBSET Keys
            BY <1>1 DEF ViewerInv, ViewerTypeOK
        <3> QED  BY <2>1, <3>1 DEF V!delete
    <2>3. /\ vs' = [vs EXCEPT ![El].cache[k] = None, ![El].timer = TRUE]
          /\ config' = config /\ owner' = owner /\ record' = record /\ calls' = calls
          /\ answers' = answers
        BY <2>1 DEF V!delete
    <2>4. /\ ViewerInv' /\ Mine'.live = Mine.live /\ Mine'.nonce = Mine.nonce
          /\ Mine'.hydrated = Mine.hydrated /\ Mine'.cache = [Mine.cache EXCEPT ![k] = None]
        BY <1>1, <1>2, <2>2, <2>3, EditKeeps DEF Active
    <2> QED  BY <1>1, <2>3, <2>4 DEF Edited, ViewerStates, Caches
<1>3. CASE ~(Active(Mine) /\ Mine.cache[k] # None)
    <2>1. UNCHANGED viewer
        BY <1>3 DEF Drop
    <2>2. ViewerInv' /\ Mine' = Mine /\ config' = config
        BY <1>1, <2>1, ViewerStays
    <2> QED  BY <1>3, <2>2 DEF Edited
<1> QED  BY <1>2, <1>3

LEMMA ToggleStep ==
    ASSUME CardInv, NEW k \in Overlays, Toggle(k)
    PROVE  CardInv'
<1> DEFINE shut == IF isOn(card, Mine, k) THEN card.session \cup {k} ELSE card.session \ {k}
           c == [card EXCEPT !.session = shut]
<1>1. /\ card \in Cards /\ Sound(card, tabHidden) /\ Mine \in ViewerStates /\ ViewerInv
      /\ Attached /\ tabHidden \in BOOLEAN /\ Awaited(card, Mine) /\ Shows(card, Mine)
    BY InvFacts DEF CardInv, Good
<1>2. shut \subseteq Overlays
    BY <1>1 DEF Cards
<1>3. card' = applyOverlays(c, Mine') /\ tabHidden' = tabHidden /\ card.map
    BY DEF Toggle, Mine, Mine_
<1> HIDE DEF shut
<1>4. /\ c \in Cards /\ c.map /\ c.map = card.map /\ c.up = card.up /\ c.ready = card.ready /\ c.timer = card.timer
      /\ c.owed = card.owed /\ c.missed = card.missed /\ c.running = card.running
      /\ c.paused = card.paused /\ c.hidden = card.hidden /\ c.offScreen = card.offScreen
      /\ c.observed = card.observed /\ c.built = card.built /\ c.want = card.want
      /\ c.speed = card.speed
    BY <1>1, <1>2, <1>3 DEF Cards
<1> HIDE DEF c
<1>5. k \in Keys /\ k # "speed" /\ "speed" \in Keys
    BY CardAssumption DEF Keys
<1>6. \E v \in {"off", None} : Edited(k, v)
    BY <1>5, StoreKeeps, DropKeeps DEF Toggle
<1>7. /\ ViewerInv' /\ config' = config /\ Mine'.live = Mine.live /\ Mine'.nonce = Mine.nonce
      /\ Mine'.hydrated = Mine.hydrated /\ Mine'.cache["speed"] = Mine.cache["speed"]
    BY <1>5, <1>6 DEF Edited
<1>8. Mine' \in ViewerStates
    BY <1>7, NextFacts
<1>9. Sound(c, tabHidden)
    BY <1>1, <1>3, <1>4 DEF Sound
<1>10. /\ Sound(card', tabHidden) /\ Same(c, card') /\ card'.owed = c.owed
       /\ card'.missed = c.missed /\ card'.speed = c.speed
       /\ c.map /\ ~ChoicesDue(Mine') => card'.running = Wanted(card', Mine')
    BY <1>3, <1>8, <1>9, ApplyKeeps
<1>11. /\ ChoicesDue(Mine') = ChoicesDue(Mine) /\ Active(Mine') = Active(Mine)
       /\ loadPlaybackSpeed(card', Mine') = loadPlaybackSpeed(card, Mine)
    BY <1>4, <1>7, <1>10 DEF ChoicesDue, Active, loadPlaybackSpeed, Same
<1>12. Awaited(card', Mine') /\ Shows(card', Mine')
    <2>1. /\ card'.map = card.map /\ card'.timer = card.timer /\ card'.owed = card.owed
          /\ card'.missed = card.missed /\ card'.speed = card.speed
        BY <1>4, <1>10 DEF Same
    <2>2. Awaited(card', Mine')
        BY <1>1, <1>11, <2>1 DEF Awaited
    <2>3. Shows(card', Mine')
        BY <1>1, <1>3, <1>4, <1>10, <1>11, <2>1 DEF Shows, Applied
    <2> QED  BY <2>2, <2>3
<1> QED  BY <1>1, <1>3, <1>4, <1>7, <1>10, <1>12 DEF CardInv, Good, Attached, Same

LEMMA PickSpeedStep ==
    ASSUME CardInv, NEW m \in Speeds, PickSpeed(m)
    PROVE  CardInv'
<1>1. /\ card \in Cards /\ Sound(card, tabHidden) /\ Mine \in ViewerStates /\ ViewerInv
      /\ Attached /\ tabHidden \in BOOLEAN /\ Awaited(card, Mine) /\ Shows(card, Mine)
    BY InvFacts DEF CardInv, Good
<1>2. card' = [card EXCEPT !.speed = m] /\ tabHidden' = tabHidden /\ card.map
    BY DEF PickSpeed
<1>3. /\ card' \in Cards /\ Same(card, card') /\ card'.speed = m /\ card'.owed = card.owed
      /\ card'.missed = card.missed /\ card'.running = card.running
      /\ card'.paused = card.paused
    BY <1>1, <1>2 DEF Cards, Same
<1>4. "speed" \in Keys /\ Overlays \subseteq Keys \ {"speed"} /\ m # None
    BY CardAssumption DEF Keys
<1>5. Edited("speed", IF m = card.want.speed THEN None ELSE m)
    BY <1>4, StoreKeeps, DropKeeps DEF PickSpeed
<1>6. /\ ViewerInv' /\ config' = config /\ Mine'.live = Mine.live /\ Mine'.nonce = Mine.nonce
      /\ Mine'.hydrated = Mine.hydrated
      /\ \A j \in Overlays : Mine'.cache[j] = Mine.cache[j]
      /\ Active(Mine) => Mine'.cache["speed"] = IF m = card.want.speed THEN None ELSE m
    BY <1>4, <1>5 DEF Edited
<1>7. ChoicesDue(Mine') = ChoicesDue(Mine) /\ Active(Mine') = Active(Mine)
    BY <1>6 DEF ChoicesDue, Active
<1>8. Wanted(card', Mine') = Wanted(card, Mine)
    <2>1. card'.want = card.want /\ card'.session = card.session
        BY <1>3 DEF Same
    <2>2. \A k \in OfRest[card.want.rest] : isOn(card', Mine', k) = isOn(card, Mine, k)
        BY <1>1, <1>6, <1>7, <2>1, CardAssumption DEF isOn, Cards, Configs
    <2> QED  BY <2>1, <2>2 DEF Wanted
<1>9. Active(Mine') => card'.speed = loadPlaybackSpeed(card', Mine')
    BY <1>3, <1>4, <1>6, <1>7 DEF loadPlaybackSpeed, Same
<1>10. Sound(card', tabHidden)
    BY <1>1, <1>3 DEF Sound, Same
<1>11. Awaited(card', Mine') /\ Shows(card', Mine')
    BY <1>1, <1>3, <1>7, <1>8, <1>9 DEF Awaited, Shows, Applied, Same
<1> QED  BY <1>1, <1>2, <1>3, <1>6, <1>10, <1>11 DEF CardInv, Good, Attached, Same

-----------------------------------------------------------------------------
(* Visibility                                                                *)

LEMMA HideShowKeeps ==
    ASSUME NEW c \in Cards, NEW d \in Cards, NEW s, Awaited(c, s), Shows(c, s),
           d.map = c.map, d.timer = c.timer, d.owed = c.owed, d.missed = c.missed,
           d.running = c.running, d.speed = c.speed, d.want = c.want, d.session = c.session
    PROVE  Awaited(d, s) /\ Shows(d, s)
<1>1. Wanted(d, s) = Wanted(c, s)
    BY DEF Wanted, isOn
<1>2. loadPlaybackSpeed(d, s) = loadPlaybackSpeed(c, s)
    BY DEF loadPlaybackSpeed
<1> QED  BY <1>1, <1>2 DEF Awaited, Shows, Applied

\* TabSwitches and ObserverReports alike.
LEMMA VisibilityStep ==
    ASSUME CardInv, UNCHANGED viewer, tabHidden' \in BOOLEAN,
           card' \in Cards,
           card'.up = card.up, card'.ready = card.ready, card'.map = card.map,
           card'.timer = card.timer, card'.owed = card.owed, card'.missed = card.missed,
           card'.running = card.running, card'.speed = card.speed, card'.want = card.want,
           card'.session = card.session, card'.built = card.built,
           ~card.map => card'.paused = card.paused,
           card.map => /\ card'.paused = IF card'.hidden THEN card'.running \cup {Player} ELSE {}
                       /\ card'.observed => card'.hidden = (tabHidden' \/ card'.offScreen)
    PROVE  CardInv'
<1>1. /\ card \in Cards /\ Sound(card, tabHidden) /\ ViewerInv /\ Attached
      /\ Awaited(card, Mine) /\ Shows(card, Mine)
    BY InvFacts DEF CardInv, Good
<1>2. ViewerInv' /\ Mine' = Mine /\ config' = config
    BY <1>1, ViewerStays
<1>3. Sound(card', tabHidden')
    BY <1>1 DEF Sound
<1>4. Awaited(card', Mine') /\ Shows(card', Mine')
    BY <1>1, <1>2, HideShowKeeps
<1> QED  BY <1>1, <1>2, <1>3, <1>4 DEF CardInv, Good, Attached

LEMMA TabSwitchesStep == CardInv /\ TabSwitches => CardInv'
<1> SUFFICES ASSUME CardInv, TabSwitches PROVE CardInv'
    OBVIOUS
<1>1. card \in Cards /\ Sound(card, tabHidden) /\ tabHidden \in BOOLEAN
    BY InvFacts
<1>2. UNCHANGED viewer /\ tabHidden' = ~tabHidden
    BY DEF TabSwitches
<1>3. CASE ~card.map
    <2>1. card' = card
        BY <1>3 DEF TabSwitches
    <2> QED  BY <1>1, <1>2, <1>3, <2>1, VisibilityStep
<1>4. CASE card.map /\ ~tabHidden
    <2>1. card' = [card EXCEPT !.hidden = TRUE, !.paused = card.running \cup {Player}]
        BY <1>1, <1>2, <1>4 DEF TabSwitches, onHide
    <2>2. card' \in Cards
        BY <1>1, <2>1 DEF Cards
    <2> QED  BY <1>1, <1>2, <1>4, <2>1, <2>2, VisibilityStep DEF Cards
<1>5. CASE card.map /\ tabHidden
    <2>1. card' = IF card.offScreen THEN card ELSE [card EXCEPT !.hidden = FALSE, !.paused = {}]
        BY <1>1, <1>2, <1>5 DEF TabSwitches, onShow
    <2>2. CASE card.offScreen
        BY <1>1, <1>2, <1>5, <2>1, <2>2, VisibilityStep DEF Sound
    <2>3. CASE ~card.offScreen
        <3>1. card' = [card EXCEPT !.hidden = FALSE, !.paused = {}]
            BY <2>1, <2>3
        <3>2. card' \in Cards
            BY <1>1, <3>1 DEF Cards
        <3> QED  BY <1>1, <1>2, <1>5, <2>3, <3>1, <3>2, VisibilityStep DEF Cards
    <2> QED  BY <2>2, <2>3
<1> QED  BY <1>1, <1>3, <1>4, <1>5

LEMMA ObserverStep ==
    ASSUME CardInv, NEW away \in BOOLEAN, ObserverReports(away)
    PROVE  CardInv'
<1> DEFINE c == [card EXCEPT !.observed = TRUE, !.offScreen = away]
<1>1. card \in Cards /\ Sound(card, tabHidden) /\ tabHidden \in BOOLEAN
    BY InvFacts
<1>2. /\ UNCHANGED viewer /\ tabHidden' = tabHidden /\ card.map
      /\ card' = IF ~away /\ ~tabHidden THEN onShow(c, FALSE) ELSE onHide(c)
    BY DEF ObserverReports
<1>3. CASE ~away /\ ~tabHidden
    <2>1. card' = [card EXCEPT !.observed = TRUE, !.offScreen = away, !.hidden = FALSE, !.paused = {}]
        BY <1>1, <1>2, <1>3 DEF onShow, Cards
    <2>2. card' \in Cards
        BY <1>1, <2>1 DEF Cards
    <2> QED  BY <1>1, <1>2, <1>3, <2>1, <2>2, VisibilityStep DEF Cards
<1>4. CASE away \/ tabHidden
    <2>1. card' = [card EXCEPT !.observed = TRUE, !.offScreen = away, !.hidden = TRUE,
                               !.paused = card.running \cup {Player}]
        BY <1>1, <1>2, <1>4 DEF onHide, Cards
    <2>2. card' \in Cards
        BY <1>1, <2>1 DEF Cards
    <2> QED  BY <1>1, <1>2, <1>4, <2>1, <2>2, VisibilityStep DEF Cards
<1> QED  BY <1>3, <1>4

-----------------------------------------------------------------------------
(* The viewer state's own steps                                              *)

LEMMA AnswerStep ==
    ASSUME CardInv, NEW i \in DOMAIN answers, ViewerAnswered(i)
    PROVE  CardInv'
<1>1. /\ card \in Cards /\ Sound(card, tabHidden) /\ Mine \in ViewerStates /\ ViewerInv
      /\ Attached /\ tabHidden \in BOOLEAN /\ Awaited(card, Mine) /\ Shows(card, Mine)
    BY InvFacts DEF CardInv, Good
<1>2. /\ ViewerInv' /\ config' = config /\ answers[i] \in Replies
      /\ Mine'.live = Mine.live /\ Mine'.nonce = Mine.nonce /\ Mine'.hydrated
      /\ IF answers[i].by = "reread" THEN Mine.hydrated ELSE ~Mine.hydrated
      /\ ~answers[i].ok => Mine'.cache = Mine.cache
    BY <1>1, AnsweredKeeps DEF ViewerAnswered
<1>3. /\ Mine' \in ViewerStates /\ ~ChoicesDue(Mine') /\ Active(Mine') = Active(Mine)
      /\ tabHidden' = tabHidden
    BY <1>2, NextFacts DEF ChoicesDue, Active, ViewerAnswered
<1>4. CASE answers[i].by = "reread" /\ answers[i].ok
    <2>1. card' = [card EXCEPT !.missed = TRUE]
        BY <1>4 DEF ViewerAnswered
    <2>2. /\ card' \in Cards /\ Same(card, card') /\ card'.missed
          /\ card'.running = card.running /\ card'.paused = card.paused
        BY <1>1, <2>1 DEF Cards, Same
    <2>3. Good(card', Mine', tabHidden)
        BY <1>1, <1>3, <2>2 DEF Good, Sound, Awaited, Shows, Same
    <2> QED  BY <1>1, <1>2, <1>3, <2>2, <2>3 DEF CardInv, Attached, Same
<1>5. CASE answers[i].by = "reread" /\ ~answers[i].ok
    <2>1. card' = card
        <3>1. answers[i].ok = FALSE
            BY <1>2, <1>5 DEF Replies
        <3>2. (card.missed \/ answers[i].ok) = card.missed
            BY <1>1, <3>1 DEF Cards
        <3>3. card' = [card EXCEPT !.missed = card.missed \/ answers[i].ok]
            BY <1>5 DEF ViewerAnswered
        <3> QED  BY <1>1, <3>2, <3>3 DEF Cards
    <2>2. Mine'.cache = Mine.cache /\ Mine'.hydrated = Mine.hydrated
        BY <1>1, <1>2, <1>3, <1>5 DEF ViewerStates
    <2>3. Good(card', Mine', tabHidden)
        BY <1>2, <2>1, <2>2, SameView DEF CardInv
    <2> QED  BY <1>1, <1>2, <1>3, <2>1, <2>3 DEF CardInv, Attached
<1>6. CASE answers[i].by # "reread" /\ card.owed
    <2>1. card' = afterHydrate(card, Mine')
        BY <1>6 DEF ViewerAnswered, Mine, Mine_
    <2>2. /\ Sound(card', tabHidden) /\ Same(card, card')
          /\ card.map /\ ~ChoicesDue(Mine') => Applied(card', Mine')
        BY <1>1, <1>3, <2>1, HydratedKeeps
    <2>3. Good(card', Mine', tabHidden)
        BY <1>3, <2>2 DEF Good, Awaited, Shows, Same
    <2> QED  BY <1>1, <1>2, <1>3, <2>2, <2>3 DEF CardInv, Attached, Same
<1>7. CASE answers[i].by # "reread" /\ ~card.owed
    <2>1. card' = card
        BY <1>7 DEF ViewerAnswered
    <2>2. card.map /\ ~card.timer => ~Active(Mine)
        BY <1>1, <1>2, <1>7 DEF Awaited, ChoicesDue
    <2>3. ~Active(Mine) => Wanted(card, Mine') = Wanted(card, Mine) /\ ~ChoicesDue(Mine)
        BY <1>3 DEF Wanted, isOn, ChoicesDue
    <2>4. Good(card', Mine', tabHidden)
        BY <1>1, <1>3, <2>1, <2>2, <2>3 DEF Good, Awaited, Shows, Applied
    <2> QED  BY <1>1, <1>2, <1>3, <2>1, <2>4 DEF CardInv, Attached
<1> QED  BY <1>4, <1>5, <1>6, <1>7

\* The card stays as it is, and so does what it sees of its object.
LEMMA ViewerOnly ==
    ASSUME CardInv, ViewerInv', card' = card, tabHidden' = tabHidden, config' = config,
           Mine'.live = Mine.live, Mine'.nonce = Mine.nonce,
           Mine'.cache = Mine.cache, Mine'.hydrated = Mine.hydrated
    PROVE  CardInv'
<1>1. Good(card, Mine', tabHidden)
    BY SameView DEF CardInv
<1> QED  BY <1>1 DEF CardInv, Attached

LEMMA ViewerTimerStep == CardInv /\ ViewerTimer => CardInv'
<1> SUFFICES ASSUME CardInv, ViewerTimer PROVE CardInv'
    OBVIOUS
<1>1. ViewerInv /\ V!TimerFires(El) /\ card' = card /\ tabHidden' = tabHidden
    BY InvFacts DEF ViewerTimer
<1>2. /\ ViewerInv' /\ config' = config /\ Mine'.live = Mine.live /\ Mine'.nonce = Mine.nonce
      /\ Mine'.hydrated = Mine.hydrated /\ Mine'.cache = Mine.cache
    BY <1>1, TimerFiresKeeps
<1> QED  BY <1>1, <1>2, ViewerOnly

LEMMA ServerStep ==
    ASSUME CardInv, NEW ok \in BOOLEAN, ServerHandles(ok)
    PROVE  CardInv'
<1>1. ViewerInv /\ V!ServerHandles(ok) /\ card' = card /\ tabHidden' = tabHidden
    BY InvFacts DEF ServerHandles
<1>2. ViewerInv' /\ vs' = vs /\ config' = config
    BY <1>1, ServerKeeps
<1> QED  BY <1>1, <1>2, ViewerOnly DEF Mine

-----------------------------------------------------------------------------
(* The invariant, and what it says                                           *)

LEMMA InitCard == Init => CardInv
<1> SUFFICES ASSUME Init PROVE CardInv
    OBVIOUS
<1>1. PICK want \in Configs :
        card = [up |-> FALSE, ready |-> FALSE, map |-> FALSE, want |-> want, built |-> want.rest,
                timer |-> FALSE, owed |-> FALSE, stray |-> FALSE, session |-> {},
                running |-> {}, paused |-> {}, speed |-> want.speed, hidden |-> FALSE,
                offScreen |-> FALSE, observed |-> FALSE, missed |-> FALSE]
    BY DEF Init
<1>2. want.rest \in DOMAIN OfRest /\ want.speed \in Speeds
    BY DEF Configs
<1>3. card \in Cards /\ ~card.map /\ ~card.up /\ ~card.timer /\ card.running = {} /\ card.paused = {}
    BY <1>1, <1>2 DEF Cards
<1>4. Good(card, Mine, tabHidden)
    BY <1>3 DEF Good, Sound, Awaited, Shows
<1>5. /\ vs = [e \in {El} |-> V!Gone] /\ calls = <<>> /\ answers = <<>>
      /\ owner = [n \in Nonces |-> None] /\ config \in [{El} -> Nonces \cup {None}]
      /\ record \in [Nonces -> [Overlays \cup {"speed"} -> (Speeds \cup {"off"}) \cup {None}]]
      /\ seen = [e \in {El} |-> V!Unseen] /\ tabHidden = FALSE
    BY DEF Init, V!Init
<1>6. Mine = V!Gone
    BY <1>5 DEF Mine
<1>7. Flow(Mine, calls, answers)
    BY <1>5, <1>6, GoneIs DEF Flow, Expected, OneHydrate
<1>8. record \in [Nonces -> Caches]
    <2>1. [Overlays \cup {"speed"} -> (Speeds \cup {"off"}) \cup {None}] = Caches
        BY DEF Caches, Keys
    <2> QED  BY <1>5, <2>1
<1>9. V!Unseen \in [removed : SUBSET Keys, unbroken : BOOLEAN, unsaved : BOOLEAN]
    BY DEF V!Unseen
<1>10. calls \in Seq(Requests) /\ answers \in Seq(Replies)
    BY <1>5, EmptySeq
<1>11. ViewerTypeOK
    BY <1>5, <1>8, <1>9, <1>10, GoneIs DEF ViewerTypeOK
<1>12. ViewerInv
    BY <1>6, <1>7, <1>11 DEF ViewerInv
<1> QED  BY <1>3, <1>4, <1>5, <1>6, <1>12, GoneIs DEF CardInv, Attached

LEMMA NextCard == CardInv /\ [Next]_cardVars => CardInv'
<1> SUFFICES ASSUME CardInv, [Next]_cardVars PROVE CardInv'
    OBVIOUS
<1>1. CASE UserStep
    <2>1. CASE \E want \in Configs, n \in Nonces \cup {None}, moved \in BOOLEAN :
                 setConfig(want, n, moved)
        BY <2>1, setConfigStep
    <2>2. CASE \E k \in Overlays : Toggle(k)
        BY <2>2, ToggleStep
    <2>3. CASE \E m \in Speeds : PickSpeed(m)
        BY <2>3, PickSpeedStep
    <2> QED  BY <1>1, <2>1, <2>2, <2>3, MountStep, UnmountStep, ThemeFlipsStep,
                TabSwitchesStep, Zenon DEF UserStep
<1>2. CASE \E away \in BOOLEAN : ObserverReports(away)
    BY <1>2, ObserverStep
<1>3. CASE \E i \in DOMAIN answers : ViewerAnswered(i)
    BY <1>3, AnswerStep
<1>4. CASE \E ok \in BOOLEAN : ServerHandles(ok)
    BY <1>4, ServerStep
<1>5. CASE UNCHANGED cardVars
    <2>1. /\ UNCHANGED viewer /\ card' = card /\ tabHidden' = tabHidden
        BY <1>5 DEF cardVars, viewer
    <2>2. ViewerInv' /\ Mine' = Mine /\ config' = config
        BY <2>1, ViewerStays DEF CardInv
    <2> QED  BY <2>1, <2>2, ViewerOnly
<1> QED  BY <1>1, <1>2, <1>3, <1>4, <1>5, FirstUpdateStep, RebuildTimerStep, StrayStep,
            ViewerTimerStep, Zenon DEF Next

THEOREM CardInvAlways == Spec => []CardInv
<1>1. Init => CardInv
    BY InitCard
<1>2. CardInv /\ [Next]_cardVars => CardInv'
    BY NextCard
<1> QED  BY <1>1, <1>2, PTL DEF Spec

\* However saved choices, configs, rebuilds and clicks interleave, a card at
\* rest runs what the config turns on and the viewer left on, at the viewer's
\* speed.
THEOREM ChoicesAppliedAlways == Spec => []ChoicesApplied
<1>1. CardInv => ChoicesApplied
    BY DEF CardInv, Good, Shows, Applied, ChoicesApplied, AtRest
<1> QED  BY <1>1, CardInvAlways, PTL

\* Everything is paused exactly while the card is hidden.
THEOREM PausedExactlyAlways == Spec => []PausedExactly
<1>1. CardInv => PausedExactly
    BY DEF CardInv, Good, Sound, PausedExactly
<1> QED  BY <1>1, CardInvAlways, PTL

\* A stale map is rebuilt, and nothing runs without a map.
THEOREM RebuildOwedAlways == Spec => []RebuildOwed
<1>1. CardInv => RebuildOwed
    BY DEF CardInv, Good, Sound, RebuildOwed
<1> QED  BY <1>1, CardInvAlways, PTL
=============================================================================
