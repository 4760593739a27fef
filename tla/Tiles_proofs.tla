---------------------------- MODULE Tiles_proofs ----------------------------
(***************************************************************************)
(* Proofs about the tiles.  First the tiles of the frames, for any number  *)
(* of frames, places, views and retries: the pending count is exact,       *)
(* 'load' means complete without a filter, and on a map that is reset the  *)
(* window is kept.  Then shared tiles, for any number of tiles, URLs and   *)
(* downloads, any frame and any budget: nothing but final content is kept  *)
(* or shown as final, each kind of request has one download, cancelled     *)
(* exactly when its last caller leaves, and the source's budget is kept.   *)
(***************************************************************************)
EXTENDS TileFetch, TileShare, TLAPS, FiniteSetTheorems, WellFoundedInduction

-----------------------------------------------------------------------------
(* The tiles of the frames (TileFetch).                                      *)

TileStages == {"none", "shown", "failed"} \cup Underway

\* The positions of one layer with a tile outstanding.
Out(st) == {p \in Places : st[p] \in Underway}

\* Types; that counts are natural numbers follows from their being exact.
Types ==
  /\ view \in Views
  /\ stage \in [Layers -> [Places -> TileStages]]
  /\ tries \in [Layers -> [Places -> [attempt : Nat, limited : Nat, timedOut : BOOLEAN]]]
  /\ leaving \in [Layers -> SUBSET (Places \X Promised)]
  /\ pending \in [Layers -> Int]
  /\ hold \in [Layers -> BOOLEAN] /\ loading \in [Layers -> BOOLEAN]
  /\ ready \in [Layers -> SUBSET Places]
  /\ planned \in BOOLEAN
  /\ cursor \in 0..(Slots - 1)

Exact(st, left, count) == count = Cardinality(Out(st)) + Cardinality(left)

CountInv ==
  /\ Types
  /\ \A l \in Layers : Exact(stage[l], leaving[l], pending[l])

-----------------------------------------------------------------------------
(* Counting.                                                               *)

LEMMA OutFinite ==
  ASSUME NEW st
  PROVE  IsFiniteSet(Out(st)) /\ Cardinality(Out(st)) \in Nat
BY FS_Subset, FS_CardinalityType, ConstantsAssumption DEF Out

LEMMA LeavingFinite ==
  ASSUME NEW left \in SUBSET (Places \X Promised)
  PROVE  IsFiniteSet(left) /\ Cardinality(left) \in Nat
<1>1. IsFiniteSet(Promised)
  <2>1. IsFiniteSet({"lookup"} \cup {"fetching"})
    BY FS_Singleton, FS_AddElement
  <2>2. IsFiniteSet(({"lookup"} \cup {"fetching"}) \cup {"cached"})
    BY <2>1, FS_AddElement
  <2>3. IsFiniteSet((({"lookup"} \cup {"fetching"}) \cup {"cached"}) \cup {"delivering"})
    BY <2>2, FS_AddElement
  <2>4. Promised = (({"lookup"} \cup {"fetching"}) \cup {"cached"}) \cup {"delivering"}
    BY DEF Promised
  <2> QED
    BY <2>3, <2>4
<1>2. IsFiniteSet(Places \X Promised)
  BY <1>1, FS_Product, ConstantsAssumption
<1> QED
  BY <1>2, FS_Subset, FS_CardinalityType

LEMMA DisjointUnion ==
  ASSUME NEW A, NEW B, IsFiniteSet(A), IsFiniteSet(B), A \cap B = {}
  PROVE  IsFiniteSet(A \cup B) /\ Cardinality(A \cup B) = Cardinality(A) + Cardinality(B)
<1>1. /\ IsFiniteSet(A \cup B)
      /\ Cardinality(A \cup B) = Cardinality(A) + Cardinality(B) - Cardinality(A \cap B)
  BY FS_Union
<1>2. Cardinality(A \cap B) = 0
  BY FS_EmptySet
<1>3. Cardinality(A) \in Nat /\ Cardinality(B) \in Nat
  BY FS_CardinalityType
<1> QED
  BY <1>1, <1>2, <1>3

\* A tile that is outstanding no more leaves the count.
LEMMA OneLess ==
  ASSUME NEW st, NEW p \in Places, st[p] \in Underway, NEW u, Out(u) = Out(st) \ {p},
         NEW left \in SUBSET (Places \X Promised), NEW count \in Int, Exact(st, left, count)
  PROVE  Exact(u, left, count - 1)
<1>1. p \in Out(st)
  BY DEF Out
<1>2. Cardinality(Out(u)) = Cardinality(Out(st)) - 1
  BY <1>1, OutFinite, FS_RemoveElement
<1> QED
  BY <1>2, OutFinite, LeavingFinite DEF Exact

\* Promises of tiles that are away have settled.
LEMMA SomeLeft ==
  ASSUME NEW st, NEW left \in SUBSET (Places \X Promised), NEW count \in Int,
         Exact(st, left, count), NEW settled \in SUBSET left
  PROVE  Exact(st, left \ settled, count - Cardinality(settled))
<1>1. IsFiniteSet(left) /\ left \cap settled = settled
  BY LeavingFinite
<1>2. Cardinality(left \ settled) = Cardinality(left) - Cardinality(settled)
  BY <1>1, FS_Difference
<1>3. settled \in SUBSET (Places \X Promised)
  OBVIOUS
<1> QED
  BY <1>2, <1>3, OutFinite, LeavingFinite DEF Exact

\* The promises of a layer's tiles that are unloaded, one for each.
LEMMA ContinuedCount ==
  ASSUME NEW l \in Layers, NEW away \in SUBSET Places
  PROVE  LET waits == {q \in away : stage[l][q] \in Promised}
         IN  /\ Continued(l, away) \in SUBSET (Places \X Promised)
             /\ Cardinality(Continued(l, away)) = Cardinality(waits)
<1> DEFINE waits == {q \in away : stage[l][q] \in Promised}
           f == [q \in waits |-> <<q, stage[l][q]>>]
<1>1. f \in Bijection(waits, Continued(l, away))
  <2>1. f \in [waits -> Continued(l, away)]
    BY DEF Continued
  <2>2. \A a, b \in waits : f[a] = f[b] => a = b
    OBVIOUS
  <2>3. \A t \in Continued(l, away) : \E q \in waits : f[q] = t
    BY DEF Continued
  <2> QED
    BY <2>1, <2>2, <2>3 DEF Bijection, Injection, Surjection, IsInjective
<1>2. IsFiniteSet(waits)
  BY FS_Subset, ConstantsAssumption
<1>3. Cardinality(Continued(l, away)) = Cardinality(waits)
  BY <1>1, <1>2, FS_Bijection DEF ExistsBijection
<1> QED
  BY <1>3 DEF Continued

\* Of the tiles a layer unloads, the ones cancelled at once and the ones that
\* settle later are those that were outstanding; the created ones are new.
LEMMA UnloadCount ==
  ASSUME NEW l \in Layers, stage[l] \in [Places -> TileStages], NEW away \in SUBSET Present(l),
         NEW left \in SUBSET (Places \X Promised), NEW count \in Int,
         Exact(stage[l], left, count), Continued(l, away) \cap left = {},
         NEW fresh \in SUBSET Places, fresh \cap (Present(l) \ away) = {},
         NEW st,
         \A p \in Places : IF p \in fresh THEN st[p] \in Underway
                           ELSE IF p \in away THEN st[p] = "none" ELSE st[p] = stage[l][p]
  PROVE  Exact(st, left \cup Continued(l, away),
               count - Cardinality(CountedOff(l, away)) + Cardinality(fresh))
<1> DEFINE old == Out(stage[l])
           waits == {q \in away : stage[l][q] \in Promised}
           off == CountedOff(l, away)
           stay == old \ away
<1>1. away \in SUBSET Places
  BY DEF Present
<1>2. /\ IsFiniteSet(old) /\ IsFiniteSet(waits) /\ IsFiniteSet(off) /\ IsFiniteSet(stay)
      /\ IsFiniteSet(fresh)
  BY <1>1, OutFinite, FS_Subset, FS_Difference, ConstantsAssumption DEF CountedOff
<1>3. Out(st) = stay \cup fresh /\ stay \cap fresh = {}
  <2>1. \A p \in Places : p \in Out(st) <=> p \in stay \/ p \in fresh
    BY DEF Out, Underway
  <2>2. stay \cap fresh = {}
    BY DEF Out, Present, Underway
  <2> QED
    BY <2>1, <2>2 DEF Out
<1>4. old = stay \cup (waits \cup off) /\ stay \cap (waits \cup off) = {} /\ waits \cap off = {}
  BY <1>1 DEF Out, CountedOff, Promised, Underway
<1> HIDE DEF old, waits, off, stay
<1>5. Cardinality(Out(st)) = Cardinality(stay) + Cardinality(fresh)
  BY <1>2, <1>3, DisjointUnion
<1>6. /\ IsFiniteSet(waits \cup off)
      /\ Cardinality(waits \cup off) = Cardinality(waits) + Cardinality(off)
  BY <1>2, <1>4, DisjointUnion
<1>7. Cardinality(old) = Cardinality(stay) + Cardinality(waits \cup off)
  BY <1>2, <1>4, <1>6, DisjointUnion
<1>8. Continued(l, away) \in SUBSET (Places \X Promised) /\ Cardinality(Continued(l, away)) = Cardinality(waits)
  BY <1>1, ContinuedCount DEF waits
<1>9. Cardinality(left \cup Continued(l, away)) = Cardinality(left) + Cardinality(waits)
  BY <1>8, LeavingFinite, DisjointUnion
<1>10. /\ Cardinality(stay) \in Nat /\ Cardinality(waits) \in Nat /\ Cardinality(off) \in Nat
       /\ Cardinality(fresh) \in Nat /\ Cardinality(left) \in Nat
  BY <1>2, LeavingFinite, FS_CardinalityType
<1>11. count = Cardinality(old) + Cardinality(left)
  BY DEF Exact, old
<1> QED
  BY <1>5, <1>6, <1>7, <1>9, <1>10, <1>11 DEF Exact, off

-----------------------------------------------------------------------------
(* One tile's steps.                                                       *)

\* done() and the tile's end: the types, and the count of its layer.
LEMMA DoneTypes ==
  ASSUME Types, NEW l \in Layers, NEW p \in Places, Done(l, p)
  PROVE  /\ ready' \in [Layers -> SUBSET Places] /\ loading' \in [Layers -> BOOLEAN]
         /\ planned' \in BOOLEAN
BY DEF Types, Done

LEMMA BecomesTypes ==
  ASSUME Types, NEW l \in Layers, NEW p \in Places, NEW to \in TileStages, Becomes(l, p, to)
  PROVE  /\ stage' \in [Layers -> [Places -> TileStages]]
         /\ stage'[l][p] = to
         /\ \A q \in Places : q # p => stage'[l][q] = stage[l][q]
         /\ \A m \in Layers : m # l => stage'[m] = stage[m]
BY DEF Types, Becomes

\* A tile goes on: nothing is counted.
LEMMA GoesOn ==
  ASSUME CountInv, NEW l \in Layers, NEW p \in Places, stage[l][p] \in Underway,
         NEW to \in Underway, Becomes(l, p, to), UNCHANGED <<leaving, pending>>
  PROVE  /\ stage' \in [Layers -> [Places -> TileStages]]
         /\ \A m \in Layers : Exact(stage'[m], leaving'[m], pending'[m])
<1>1. to \in TileStages
  BY DEF TileStages
<1>2. /\ stage' \in [Layers -> [Places -> TileStages]]
      /\ stage'[l][p] = to
      /\ \A q \in Places : q # p => stage'[l][q] = stage[l][q]
      /\ \A m \in Layers : m # l => stage'[m] = stage[m]
  BY <1>1, BecomesTypes DEF CountInv
<1>3. \A m \in Layers : Out(stage'[m]) = Out(stage[m])
  BY <1>2 DEF Out
<1> QED
  BY <1>2, <1>3 DEF CountInv, Exact

\* A tile ends: it is counted off.
LEMMA TileEnds ==
  ASSUME CountInv, NEW l \in Layers, NEW p \in Places, stage[l][p] \in Underway,
         NEW to \in {"shown", "failed"}, Finish(l, p, to), UNCHANGED leaving
  PROVE  /\ stage' \in [Layers -> [Places -> TileStages]] /\ pending' \in [Layers -> Int]
         /\ \A m \in Layers : Exact(stage'[m], leaving'[m], pending'[m])
<1>1. to \in TileStages /\ to \notin Underway
  BY DEF TileStages, Underway
<1>2. /\ stage' \in [Layers -> [Places -> TileStages]]
      /\ stage'[l][p] = to
      /\ \A q \in Places : q # p => stage'[l][q] = stage[l][q]
      /\ \A m \in Layers : m # l => stage'[m] = stage[m]
  BY <1>1, BecomesTypes DEF CountInv, Finish
<1>3. /\ pending' \in [Layers -> Int] /\ pending'[l] = pending[l] - 1
      /\ \A m \in Layers : m # l => pending'[m] = pending[m]
  BY DEF CountInv, Types, Finish
<1>4. Out(stage'[l]) = Out(stage[l]) \ {p}
  BY <1>1, <1>2 DEF Out
<1>5. leaving[l] \in SUBSET (Places \X Promised) /\ pending[l] \in Int /\ Exact(stage[l], leaving[l], pending[l])
  BY DEF CountInv, Types
<1> DEFINE st == stage[l]
           u == stage'[l]
           left == leaving[l]
           count == pending[l]
<1>6. Exact(u, left, count - 1)
  <2>1. /\ st[p] \in Underway /\ Out(u) = Out(st) \ {p} /\ left \in SUBSET (Places \X Promised)
        /\ count \in Int /\ Exact(st, left, count)
    BY <1>4, <1>5
  <2> HIDE DEF st, u, left, count
  <2> QED
    BY <2>1, OneLess
<1> QED
  BY <1>2, <1>3, <1>6 DEF CountInv, Exact

LEMMA LookupHitsCounts ==
  ASSUME CountInv, NEW l \in Layers, NEW p \in Places, LookupHits(l, p)
  PROVE  CountInv'
<1>1. /\ stage[l][p] \in Underway /\ "cached" \in Underway /\ Becomes(l, p, "cached")
      /\ UNCHANGED <<view, tries, leaving, pending, hold, leaflet, planned, cursor>>
  BY DEF LookupHits, Underway
<1>2. UNCHANGED <<leaving, pending>>
  BY <1>1
<1> QED
  BY <1>1, <1>2, GoesOn DEF CountInv, Types, leaflet

LEMMA LookupMissesCounts ==
  ASSUME CountInv, NEW l \in Layers, NEW p \in Places, LookupMisses(l, p)
  PROVE  CountInv'
<1>1. /\ stage[l][p] \in Underway /\ "fetching" \in Underway /\ "retry" \in Underway
      /\ Becomes(l, p, "fetching") \/ Becomes(l, p, "retry")
      /\ UNCHANGED <<view, tries, leaving, pending, hold, leaflet, planned, cursor>>
  BY DEF LookupMisses, tryFetch, Underway
<1>2. UNCHANGED <<leaving, pending>>
  BY <1>1
<1> QED
  BY <1>1, <1>2, GoesOn DEF CountInv, Types, leaflet

LEMMA RetryStartsCounts ==
  ASSUME CountInv, NEW l \in Layers, NEW p \in Places, RetryStarts(l, p)
  PROVE  CountInv'
<1>1. /\ stage[l][p] \in Underway /\ "fetching" \in Underway /\ Becomes(l, p, "fetching")
      /\ UNCHANGED <<view, tries, leaving, pending, hold, leaflet, planned, cursor>>
  BY DEF RetryStarts, Underway
<1>2. UNCHANGED <<leaving, pending>>
  BY <1>1
<1> QED
  BY <1>1, <1>2, GoesOn DEF CountInv, Types, leaflet

LEMMA BytesArriveCounts ==
  ASSUME CountInv, NEW l \in Layers, NEW p \in Places, BytesArrive(l, p)
  PROVE  CountInv'
<1>1. /\ stage[l][p] \in Underway /\ "delivering" \in Underway /\ Becomes(l, p, "delivering")
      /\ UNCHANGED <<view, tries, leaving, pending, hold, leaflet, planned, cursor>>
  BY DEF BytesArrive, Underway
<1>2. UNCHANGED <<leaving, pending>>
  BY <1>1
<1> QED
  BY <1>1, <1>2, GoesOn DEF CountInv, Types, leaflet

LEMMA DeliverCounts ==
  ASSUME CountInv, NEW l \in Layers, NEW p \in Places, Deliver(l, p)
  PROVE  CountInv'
<1>1. /\ stage[l][p] \in Underway /\ Finish(l, p, "shown")
      /\ UNCHANGED <<view, tries, leaving, hold, cursor>>
  BY DEF Deliver, Underway
<1>2. Done(l, p) /\ UNCHANGED leaving
  BY <1>1 DEF Finish
<1>3. /\ stage' \in [Layers -> [Places -> TileStages]] /\ pending' \in [Layers -> Int]
      /\ \A m \in Layers : Exact(stage'[m], leaving'[m], pending'[m])
  BY <1>1, <1>2, TileEnds
<1>4. /\ ready' \in [Layers -> SUBSET Places] /\ loading' \in [Layers -> BOOLEAN]
      /\ planned' \in BOOLEAN
  BY <1>2, DoneTypes DEF CountInv
<1> QED
  BY <1>1, <1>3, <1>4 DEF CountInv, Types

\* What a failed attempt has counted.
Counters == [attempt : Nat, limited : Nat, timedOut : BOOLEAN]

LEMMA RetryOrFailCounts ==
  ASSUME CountInv, NEW l \in Layers, NEW p \in Places, stage[l][p] \in Underway,
         NEW counted \in Counters, NEW again \in BOOLEAN, RetryOrFail(l, p, counted, again),
         UNCHANGED <<view, leaving, hold, cursor>>
  PROVE  CountInv'
<1>1. NoTries \in Counters
  BY DEF NoTries, Counters
<1>2. tries' \in [Layers -> [Places -> Counters]]
  BY <1>1 DEF RetryOrFail, CountInv, Types, Counters
<1>3. CASE again
  <2>1. /\ Becomes(l, p, "retry") /\ "retry" \in Underway
        /\ UNCHANGED <<leaving, pending>> /\ UNCHANGED <<leaflet, planned>>
    BY <1>3 DEF RetryOrFail, Underway
  <2>2. /\ stage' \in [Layers -> [Places -> TileStages]]
        /\ \A m \in Layers : Exact(stage'[m], leaving'[m], pending'[m])
    BY <2>1, GoesOn
  <2> QED
    BY <1>2, <2>1, <2>2 DEF CountInv, Types, leaflet, Counters
<1>4. CASE ~again
  <2>1. Finish(l, p, "failed") /\ UNCHANGED leaving
    BY <1>4 DEF RetryOrFail
  <2>2. /\ stage' \in [Layers -> [Places -> TileStages]] /\ pending' \in [Layers -> Int]
        /\ \A m \in Layers : Exact(stage'[m], leaving'[m], pending'[m])
    BY <2>1, TileEnds
  <2>3. /\ ready' \in [Layers -> SUBSET Places] /\ loading' \in [Layers -> BOOLEAN]
        /\ planned' \in BOOLEAN
    BY <2>1, DoneTypes DEF CountInv, Finish
  <2> QED
    BY <1>2, <2>2, <2>3 DEF CountInv, Types, Counters
<1> QED
  BY <1>3, <1>4

\* How an attempt ends: what was counted, and whether there is another.
LEMMA AttemptEnds ==
  ASSUME Types, NEW l \in Layers, NEW p \in Places, AttemptFails(l, p)
  PROVE  /\ stage[l][p] = "fetching" /\ UNCHANGED <<view, leaving, hold, cursor>>
         /\ \E counted \in Counters, again \in BOOLEAN : RetryOrFail(l, p, counted, again)
<1>1. PICK why \in Errors :
        LET t == [tries[l][p] EXCEPT !.timedOut = @ \/ why = "timeout"]
            limit == why = "limited" \/ (why = "statusless" /\ ~t.timedOut)
            cap == IF why = "server" THEN MaxServerErrorRetries ELSE MaxRetries
        IN  \/ RetryOrFail(l, p, t, FALSE)
            \/ RetryOrFail(l, p, [t EXCEPT !.limited = @ + 1], t.limited + 1 < MaxRateLimitRetries)
            \/ RetryOrFail(l, p, [t EXCEPT !.attempt = @ + 1], t.attempt + 1 < cap)
  BY DEF AttemptFails
<1> DEFINE late == tries[l][p].timedOut \/ why = "timeout"
           t == [tries[l][p] EXCEPT !.timedOut = late]
           cap == IF why = "server" THEN MaxServerErrorRetries ELSE MaxRetries
<1>2. tries[l][p] \in Counters /\ late \in BOOLEAN
  BY DEF Types, Counters
<1>3. \/ RetryOrFail(l, p, t, FALSE)
      \/ RetryOrFail(l, p, [t EXCEPT !.limited = t.limited + 1], t.limited + 1 < MaxRateLimitRetries)
      \/ RetryOrFail(l, p, [t EXCEPT !.attempt = t.attempt + 1], t.attempt + 1 < cap)
  BY <1>1
<1> HIDE DEF late, cap
<1>4. t \in Counters
  BY <1>2 DEF Counters
<1> HIDE DEF t
<1>5. [t EXCEPT !.limited = t.limited + 1] \in Counters /\ [t EXCEPT !.attempt = t.attempt + 1] \in Counters
  BY <1>4 DEF Counters
<1>6. (t.limited + 1 < MaxRateLimitRetries) \in BOOLEAN /\ (t.attempt + 1 < cap) \in BOOLEAN
  OBVIOUS
<1>7. stage[l][p] = "fetching" /\ UNCHANGED <<view, leaving, hold, cursor>>
  BY DEF AttemptFails
<1> QED
  BY <1>3, <1>4, <1>5, <1>6, <1>7

LEMMA AttemptFailsCounts ==
  ASSUME CountInv, NEW l \in Layers, NEW p \in Places, AttemptFails(l, p)
  PROVE  CountInv'
<1>1. /\ stage[l][p] = "fetching" /\ UNCHANGED <<view, leaving, hold, cursor>>
      /\ \E counted \in Counters, again \in BOOLEAN : RetryOrFail(l, p, counted, again)
  BY AttemptEnds DEF CountInv
<1>2. stage[l][p] \in Underway
  BY <1>1 DEF Underway
<1> QED
  BY <1>1, <1>2, RetryOrFailCounts

-----------------------------------------------------------------------------
(* The promises of unloaded tiles, the window, and Leaflet's bursts.       *)

LEMMA LeftoverSettlesCounts ==
  ASSUME CountInv, NEW l \in Layers, NEW g \in leaving[l], LeftoverSettles(l, g)
  PROVE  CountInv'
<1>1. /\ leaving' = [leaving EXCEPT ![l] = leaving[l] \ {g}]
      /\ pending' = [pending EXCEPT ![l] = pending[l] - 1]
      /\ Done(l, g[1]) \/ UNCHANGED <<leaflet, planned>>
      /\ UNCHANGED <<view, stage, tries, hold, cursor>>
  BY DEF LeftoverSettles
<1>2. g \in Places \X Promised /\ g[1] \in Places
  BY DEF CountInv, Types
<1>3. /\ ready' \in [Layers -> SUBSET Places] /\ loading' \in [Layers -> BOOLEAN]
      /\ planned' \in BOOLEAN
  <2>1. CASE Done(l, g[1])
    BY <1>2, <2>1, DoneTypes DEF CountInv
  <2>2. CASE UNCHANGED <<leaflet, planned>>
    BY <2>2 DEF CountInv, Types, leaflet
  <2> QED
    BY <1>1, <2>1, <2>2
<1>4. Exact(stage[l], leaving[l] \ {g}, pending[l] - 1)
  <2>1. leaving[l] \in SUBSET (Places \X Promised) /\ pending[l] \in Int /\ {g} \in SUBSET leaving[l]
    BY DEF CountInv, Types
  <2>2. Exact(stage[l], leaving[l], pending[l])
    BY DEF CountInv
  <2>3. Cardinality({g}) = 1
    BY FS_Singleton
  <2> DEFINE left == leaving[l]
             count == pending[l]
             st == stage[l]
             settled == {g}
  <2> HIDE DEF left, count, st, settled
  <2>4. Exact(st, left \ settled, count - Cardinality(settled))
    BY <2>1, <2>2, SomeLeft DEF left, count, st, settled
  <2> QED
    BY <2>3, <2>4 DEF left, count, st, settled
<1>5. \A m \in Layers : Exact(stage'[m], leaving'[m], pending'[m])
  BY <1>1, <1>4 DEF CountInv, Types
<1>6. leaving' \in [Layers -> SUBSET (Places \X Promised)]
  BY <1>1 DEF CountInv, Types
<1>7. pending' \in [Layers -> Int]
  BY <1>1 DEF CountInv, Types
<1> QED
  BY <1>1, <1>3, <1>5, <1>6, <1>7 DEF CountInv, Types

LEMMA AbortsSettleCounts ==
  ASSUME CountInv, AbortsSettle
  PROVE  CountInv'
<1>1. /\ leaving' = [l \in Layers |-> leaving[l] \ Aborted(l)]
      /\ pending' = [l \in Layers |-> pending[l] - Cardinality(Aborted(l))]
      /\ UNCHANGED <<view, stage, tries, hold, leaflet, planned, cursor>>
  BY DEF AbortsSettle
<1>2. ASSUME NEW l \in Layers
      PROVE  /\ Exact(stage[l], leaving[l] \ Aborted(l), pending[l] - Cardinality(Aborted(l)))
             /\ pending[l] - Cardinality(Aborted(l)) \in Int
  <2>1. /\ leaving[l] \in SUBSET (Places \X Promised) /\ pending[l] \in Int
        /\ Aborted(l) \in SUBSET leaving[l]
    BY DEF CountInv, Types, Aborted
  <2>2. Exact(stage[l], leaving[l], pending[l])
    BY DEF CountInv
  <2>3. Cardinality(Aborted(l)) \in Nat
    BY <2>1, LeavingFinite, FS_Subset, FS_CardinalityType
  <2> DEFINE left == leaving[l]
             count == pending[l]
             st == stage[l]
             settled == Aborted(l)
  <2> HIDE DEF left, count, st, settled
  <2>4. Exact(st, left \ settled, count - Cardinality(settled))
    BY <2>1, <2>2, SomeLeft DEF left, count, st, settled
  <2> QED
    BY <2>1, <2>3, <2>4 DEF left, count, st, settled
<1>3. \A l \in Layers : Exact(stage'[l], leaving'[l], pending'[l])
  BY <1>1, <1>2
<1> QED
  BY <1>1, <1>2, <1>3 DEF CountInv, Types, leaflet

\* What starting a layer's deferred tiles does to the stages.
LEMMA WindowStages ==
  ASSUME Types, ApplyFetchWindow
  PROVE  /\ stage' \in [Layers -> [Places -> TileStages]]
         /\ hold' = [l \in Layers |-> l \notin PlanFetchWindow] /\ planned' = FALSE
         /\ UNCHANGED <<view, tries, leaving, pending, leaflet, cursor>>
         /\ \A l \in Layers, p \in Places :
              IF l \in PlanFetchWindow /\ stage[l][p] = "held"
              THEN stage'[l][p] \in Starts ELSE stage'[l][p] = stage[l][p]
<1> DEFINE released == PlanFetchWindow
           started == {t \in released \X Places : stage[t[1]][t[2]] = "held"}
<1>1. PICK start \in [started -> Starts] :
        stage' = [l \in Layers |-> [p \in Places |->
          IF <<l, p>> \in started THEN start[<<l, p>>] ELSE stage[l][p]]]
  BY DEF ApplyFetchWindow
<1>2. \A l \in Layers, p \in Places : <<l, p>> \in started <=> l \in released /\ stage[l][p] = "held"
  OBVIOUS
<1> HIDE DEF released, started
<1>3. \A l \in Layers, p \in Places :
        IF l \in released /\ stage[l][p] = "held"
        THEN stage'[l][p] \in Starts ELSE stage'[l][p] = stage[l][p]
  BY <1>1, <1>2
<1>4. stage' \in [Layers -> [Places -> TileStages]]
  <2>1. \A l \in Layers, p \in Places : stage'[l][p] \in TileStages
    BY <1>3 DEF Types, Starts, TileStages, Underway
  <2> QED
    BY <1>1, <2>1
<1> QED
  BY <1>3, <1>4 DEF ApplyFetchWindow, released

LEMMA ApplyFetchWindowCounts ==
  ASSUME CountInv, ApplyFetchWindow
  PROVE  CountInv'
<1>1. /\ stage' \in [Layers -> [Places -> TileStages]]
      /\ hold' = [l \in Layers |-> l \notin PlanFetchWindow] /\ planned' = FALSE
      /\ UNCHANGED <<view, tries, leaving, pending, leaflet, cursor>>
      /\ \A l \in Layers, p \in Places :
           IF l \in PlanFetchWindow /\ stage[l][p] = "held"
           THEN stage'[l][p] \in Starts ELSE stage'[l][p] = stage[l][p]
  BY WindowStages DEF CountInv
<1>2. \A l \in Layers : Out(stage'[l]) = Out(stage[l])
  BY <1>1 DEF Out, Starts, Underway
<1>3. \A l \in Layers : Exact(stage'[l], leaving'[l], pending'[l])
  BY <1>1, <1>2 DEF CountInv, Exact
<1> QED
  BY <1>1, <1>3 DEF CountInv, Types, leaflet

\* What Leaflet unloads and creates, layer by layer.
Fresh(l, v, away) == v \ (Present(l) \ away)

LEMMA BurstStages ==
  ASSUME Types, NEW v \in SUBSET Places, NEW away, \A l \in Layers : away[l] \in SUBSET Present(l),
         UnloadAndCreate(v, away)
  PROVE  /\ stage' \in [Layers -> [Places -> TileStages]]
         /\ \A l \in Layers, p \in Places :
              IF p \in Fresh(l, v, away[l])
              THEN stage'[l][p] \in (IF hold[l] THEN {"held"} ELSE Starts)
              ELSE IF p \in away[l] THEN stage'[l][p] = "none"
              ELSE stage'[l][p] = stage[l][p]
<1> DEFINE fresh(l) == v \ (Present(l) \ away[l])
           started == {t \in Layers \X v : t[2] \in fresh(t[1]) /\ ~hold[t[1]]}
<1>1. PICK start \in [started -> Starts] :
        stage' = [l \in Layers |-> [p \in Places |->
             IF <<l, p>> \in started THEN start[<<l, p>>]
             ELSE IF p \in fresh(l) THEN "held"
             ELSE IF p \in away[l] THEN "none"
             ELSE stage[l][p]]]
  BY DEF UnloadAndCreate
<1>2. \A l \in Layers, p \in Places : <<l, p>> \in started <=> p \in fresh(l) /\ ~hold[l]
  OBVIOUS
<1>3. \A l \in Layers : fresh(l) = Fresh(l, v, away[l])
  BY DEF Fresh
<1> HIDE DEF fresh, started
<1>4. \A l \in Layers, p \in Places :
        IF p \in fresh(l)
        THEN stage'[l][p] \in (IF hold[l] THEN {"held"} ELSE Starts)
        ELSE IF p \in away[l] THEN stage'[l][p] = "none"
        ELSE stage'[l][p] = stage[l][p]
  BY <1>1, <1>2
<1>5. ASSUME NEW l \in Layers, NEW p \in Places
      PROVE  stage'[l][p] \in TileStages
  <2>1. stage[l][p] \in TileStages
    BY DEF Types
  <2>2. "held" \in TileStages /\ "none" \in TileStages /\ Starts \subseteq TileStages
    BY DEF Starts, TileStages, Underway
  <2> QED
    BY <1>4, <2>1, <2>2
<1>6. stage' \in [Layers -> [Places -> TileStages]]
  BY <1>1, <1>5
<1> QED
  BY <1>3, <1>4, <1>6

LEMMA BurstCounts ==
  ASSUME CountInv, NEW v \in Views, NEW away, \A l \in Layers : away[l] \in SUBSET Present(l),
         UnloadAndCreate(v, away), view' = v, UNCHANGED <<hold, cursor>>
  PROVE  CountInv'
<1>0. v \in SUBSET Places /\ Types
  BY ConstantsAssumption DEF CountInv
<1>1. /\ stage' \in [Layers -> [Places -> TileStages]]
      /\ \A l \in Layers, p \in Places :
           IF p \in Fresh(l, v, away[l])
           THEN stage'[l][p] \in (IF hold[l] THEN {"held"} ELSE Starts)
           ELSE IF p \in away[l] THEN stage'[l][p] = "none"
           ELSE stage'[l][p] = stage[l][p]
  BY <1>0, BurstStages
<1>2. /\ \A l \in Layers : Continued(l, away[l]) \cap leaving[l] = {}
      /\ leaving' = [l \in Layers |-> leaving[l] \cup Continued(l, away[l])]
      /\ pending' = [l \in Layers |->
           pending[l] - Cardinality(CountedOff(l, away[l])) + Cardinality(Fresh(l, v, away[l]))]
  BY DEF UnloadAndCreate, Fresh
<1>3. /\ tries' \in [Layers -> [Places -> Counters]]
      /\ ready' \in [Layers -> SUBSET Places] /\ loading' \in [Layers -> BOOLEAN]
      /\ planned' \in BOOLEAN
  <2>1. NoTries \in Counters /\ tries \in [Layers -> [Places -> Counters]]
    BY <1>0 DEF NoTries, Counters, Types
  <2>2. tries' \in [Layers -> [Places -> Counters]]
    BY <2>1 DEF UnloadAndCreate
  <2>3. ready' \in [Layers -> SUBSET Places] /\ planned' \in BOOLEAN
    BY <1>0 DEF UnloadAndCreate, Types
  <2>4. loading' \in [Layers -> BOOLEAN]
    BY <1>0 DEF UnloadAndCreate, Types
  <2> QED
    BY <2>2, <2>3, <2>4
<1>4. ASSUME NEW l \in Layers
      PROVE  /\ Exact(stage'[l], leaving'[l], pending'[l])
             /\ leaving'[l] \in SUBSET (Places \X Promised) /\ pending'[l] \in Int
  <2> DEFINE fresh == Fresh(l, v, away[l])
             left == leaving[l]
             count == pending[l]
             st == stage'[l]
             g == away[l]
  <2>1. /\ stage[l] \in [Places -> TileStages] /\ left \in SUBSET (Places \X Promised) /\ count \in Int
        /\ Exact(stage[l], left, count) /\ Continued(l, g) \cap left = {}
    BY <1>0, <1>2 DEF CountInv, Types
  <2>2. g \in SUBSET Present(l) /\ fresh \in SUBSET Places /\ fresh \cap (Present(l) \ g) = {}
    BY <1>0 DEF Fresh
  <2>3. \A p \in Places : IF p \in fresh THEN st[p] \in Underway
                          ELSE IF p \in g THEN st[p] = "none" ELSE st[p] = stage[l][p]
    BY <1>1 DEF Starts, Underway
  <2>4. leaving'[l] = left \cup Continued(l, g) /\ g \in SUBSET Places
    BY <1>2, <2>2 DEF Present
  <2>5. pending'[l] = count - Cardinality(CountedOff(l, g)) + Cardinality(fresh)
    BY <1>2
  <2>6. Cardinality(CountedOff(l, g)) \in Nat /\ Cardinality(fresh) \in Nat
    <3>1. IsFiniteSet(CountedOff(l, g)) /\ IsFiniteSet(fresh)
      BY <2>2, <2>4, FS_Subset, ConstantsAssumption DEF CountedOff
    <3> QED
      BY <3>1, FS_CardinalityType
  <2> HIDE DEF fresh, left, count, st, g
  <2>7. Exact(st, left \cup Continued(l, g), count - Cardinality(CountedOff(l, g)) + Cardinality(fresh))
    BY <2>1, <2>2, <2>3, UnloadCount
  <2>8. Continued(l, g) \in SUBSET (Places \X Promised)
    BY <2>4, ContinuedCount
  <2> QED
    BY <2>1, <2>4, <2>5, <2>6, <2>7, <2>8 DEF st
<1>5. leaving' \in [Layers -> SUBSET (Places \X Promised)] /\ pending' \in [Layers -> Int]
  BY <1>2, <1>4
<1> QED
  BY <1>0, <1>1, <1>3, <1>4, <1>5 DEF CountInv, Types, Counters

LEMMA PanCounts ==
  ASSUME CountInv, Pan
  PROVE  CountInv'
<1> DEFINE away == [l \in Layers |-> {}]
<1>1. PICK v \in Views : view' = v /\ UnloadAndCreate(v, away)
  BY DEF Pan
<1>2. \A l \in Layers : away[l] \in SUBSET Present(l)
  OBVIOUS
<1>3. UNCHANGED <<hold, cursor>>
  BY DEF Pan
<1> HIDE DEF away
<1> QED
  BY <1>1, <1>2, <1>3, BurstCounts

LEMMA PruneCounts ==
  ASSUME CountInv, NEW l \in Layers, Prune(l)
  PROVE  CountInv'
<1> DEFINE away == [m \in Layers |-> IF m = l THEN Present(l) \ view ELSE {}]
<1>1. UnloadAndCreate(view, away) /\ UNCHANGED <<view, hold, cursor>>
  BY DEF Prune
<1>2. \A m \in Layers : away[m] \in SUBSET Present(m)
  OBVIOUS
<1>3. view \in Views /\ view' = view /\ UNCHANGED <<hold, cursor>>
  BY <1>1 DEF CountInv, Types
<1> DEFINE v == view
<1>4. v \in Views /\ view' = v /\ UnloadAndCreate(v, away)
  BY <1>1, <1>3
<1> HIDE DEF away, v
<1> QED
  BY <1>2, <1>3, <1>4, BurstCounts

LEMMA JumpCounts ==
  ASSUME CountInv, Jump
  PROVE  CountInv'
<1> DEFINE away == [l \in Layers |-> Present(l)]
<1>1. PICK v \in Views : view' = v /\ UnloadAndCreate(v, away)
  BY DEF Jump
<1>2. \A l \in Layers : away[l] \in SUBSET Present(l)
  OBVIOUS
<1>3. UNCHANGED <<hold, cursor>>
  BY DEF Jump
<1> HIDE DEF away
<1> QED
  BY <1>1, <1>2, <1>3, BurstCounts

LEMMA ShowNextSlotCounts ==
  ASSUME CountInv, ShowNextSlot
  PROVE  CountInv'
<1>1. /\ cursor' = (cursor + 1) % Slots /\ planned' = TRUE
      /\ UNCHANGED <<view, stage, tries, leaving, pending, hold, leaflet>>
  BY DEF ShowNextSlot
<1>2. Slots \in Nat \ {0} /\ cursor \in 0..(Slots - 1)
  BY ConstantsAssumption DEF Slots, CountInv, Types
<1>3. cursor' \in 0..(Slots - 1)
  BY <1>1, <1>2
<1> QED
  BY <1>1, <1>3 DEF CountInv, Types, leaflet

LEMMA InitCounts ==
  ASSUME InitFetch
  PROVE  CountInv
<1>1. Types
  <2>1. view \in Views /\ view \in SUBSET Places /\ 0 \in 0..(Slots - 1)
    BY ConstantsAssumption DEF InitFetch, Slots
  <2>2. stage \in [Layers -> [Places -> TileStages]]
    BY DEF InitFetch, TileStages
  <2>3. tries \in [Layers -> [Places -> [attempt : Nat, limited : Nat, timedOut : BOOLEAN]]]
    BY DEF InitFetch, NoTries
  <2>4. leaving \in [Layers -> SUBSET (Places \X Promised)] /\ pending \in [Layers -> Int]
    BY DEF InitFetch
  <2>5. hold \in [Layers -> BOOLEAN] /\ loading \in [Layers -> BOOLEAN] /\ planned \in BOOLEAN
    BY DEF InitFetch
  <2>6. ready \in [Layers -> SUBSET Places] /\ cursor \in 0..(Slots - 1)
    BY <2>1 DEF InitFetch
  <2> QED
    BY <2>1, <2>2, <2>3, <2>4, <2>5, <2>6 DEF Types
<1>2. \A l \in Layers : Out(stage[l]) = {} /\ leaving[l] = {} /\ pending[l] = 0
  BY DEF InitFetch, Out, Underway
<1>3. Cardinality({}) = 0
  BY FS_EmptySet
<1> QED
  BY <1>1, <1>2, <1>3 DEF CountInv, Exact

LEMMA CountStep ==
  ASSUME CountInv, [NextFetch]_fetchVars
  PROVE  CountInv'
<1>1. ASSUME NEW l \in Layers, NEW p \in Places, TileStep(l, p)
      PROVE  CountInv'
  BY <1>1, LookupHitsCounts, LookupMissesCounts, RetryStartsCounts, BytesArriveCounts,
     AttemptFailsCounts, DeliverCounts DEF TileStep
<1>2. CASE UNCHANGED fetchVars
  BY <1>2 DEF fetchVars, leaflet, CountInv, Types
<1>3. CASE NextFetch
  BY <1>1, <1>3, ApplyFetchWindowCounts, AbortsSettleCounts, LeftoverSettlesCounts, JumpCounts,
     ShowNextSlotCounts, PanCounts, PruneCounts, Zenon DEF NextFetch, NextResting
<1> QED
  BY <1>2, <1>3

LEMMA CountInvariant == SpecFetch => []CountInv
BY InitCounts, CountStep, PTL DEF SpecFetch

\* In every state the pending count of a layer is the number of its tiles that
\* are outstanding, with the unloaded ones whose promise has yet to settle: no
\* tile is counted off twice, and none is forgotten (_tilePending).
THEOREM PendingExactTheorem == SpecFetch => []PendingExact
<1>1. CountInv => PendingExact
  BY DEF CountInv, PendingExact, Exact, Out, Outstanding
<1> QED
  BY <1>1, CountInvariant, PTL

-----------------------------------------------------------------------------
(* 'load', when no filter re-encodes the tiles.                            *)

\* What Leaflet marked loaded has ended, and the promises of unloaded tiles are
\* lookups or aborted requests: bytes were delivered before the next event.
LoadInv ==
  /\ \A l \in Layers : leaving[l] \subseteq Places \X {"lookup", "fetching"}
  /\ \A l \in Layers : \A p \in ready[l] : stage[l][p] \in {"shown", "failed"}

\* No layer that stops loading has a tile outstanding.
NoLoadEarly == \A l \in Layers : loading[l] /\ ~loading'[l] => Outstanding(l)' = {}

\* A tile goes on: the layers stay as loaded as they are.
LEMMA GoesOnLoad ==
  ASSUME Types, LoadInv, NEW l \in Layers, NEW p \in Places, stage[l][p] \in Underway,
         NEW to \in Underway, Becomes(l, p, to), UNCHANGED <<leaving, ready, loading>>
  PROVE  LoadInv' /\ NoLoadEarly
<1>1. to \in TileStages
  BY DEF TileStages
<1>2. /\ \A q \in Places : q # p => stage'[l][q] = stage[l][q]
      /\ \A m \in Layers : m # l => stage'[m] = stage[m]
  BY <1>1, BecomesTypes
<1>3. p \notin ready[l]
  BY DEF LoadInv, Underway
<1>4. \A m \in Layers : \A q \in ready[m] : stage'[m][q] \in {"shown", "failed"}
  BY <1>2, <1>3 DEF LoadInv, Types
<1> QED
  BY <1>4 DEF LoadInv, NoLoadEarly

\* A tile ends: when it was the last of its layer, none is outstanding.
LEMMA EndsLoad ==
  ASSUME Types, LoadInv, NEW l \in Layers, NEW p \in Places, stage[l][p] \in Underway,
         NEW to \in {"shown", "failed"}, Finish(l, p, to), UNCHANGED leaving
  PROVE  LoadInv' /\ NoLoadEarly
<1>1. to \in TileStages /\ to \notin Underway /\ Becomes(l, p, to) /\ Done(l, p)
  BY DEF TileStages, Underway, Finish
<1>2. /\ stage'[l][p] = to
      /\ \A q \in Places : q # p => stage'[l][q] = stage[l][q]
      /\ \A m \in Layers : m # l => stage'[m] = stage[m]
  BY <1>1, BecomesTypes
<1>3. /\ ready' = [ready EXCEPT ![l] = ready[l] \cup {p}]
      /\ loading' = [loading EXCEPT ![l] = loading[l] /\ ~(Present(l) \subseteq ready[l] \cup {p})]
  BY <1>1 DEF Done
<1>4. /\ ready'[l] = ready[l] \cup {p} /\ \A m \in Layers : m # l => ready'[m] = ready[m]
      /\ loading'[l] = (loading[l] /\ ~(Present(l) \subseteq ready[l] \cup {p}))
      /\ \A m \in Layers : m # l => loading'[m] = loading[m]
  BY <1>3 DEF Types
<1>5. \A m \in Layers : \A q \in ready'[m] : stage'[m][q] \in {"shown", "failed"}
  <2>1. ASSUME NEW q \in ready'[l]
        PROVE  stage'[l][q] \in {"shown", "failed"}
    BY <1>2, <1>4 DEF LoadInv, Types
  <2>2. ASSUME NEW m \in Layers, m # l, NEW q \in ready'[m]
        PROVE  stage'[m][q] \in {"shown", "failed"}
    BY <1>2, <1>4, <2>2 DEF LoadInv
  <2> QED
    BY <2>1, <2>2
<1>6. ASSUME loading[l], ~loading'[l]
      PROVE  Outstanding(l)' = {}
  <2>1. Present(l) \subseteq ready[l] \cup {p}
    BY <1>4, <1>6
  <2>2. ASSUME NEW q \in Places, stage'[l][q] \in Underway
        PROVE  FALSE
    <3>1. q # p /\ stage[l][q] \in Underway
      BY <1>1, <1>2, <2>2
    <3>2. q \in ready[l]
      BY <2>1, <3>1 DEF Present, Underway
    <3> QED
      BY <3>1, <3>2 DEF LoadInv, Underway
  <2> QED
    BY <2>2 DEF Outstanding
<1> QED
  BY <1>4, <1>5, <1>6 DEF LoadInv, NoLoadEarly

LEMMA TileStepLoad ==
  ASSUME Types, LoadInv, NEW l \in Layers, NEW p \in Places, TileStep(l, p)
  PROVE  LoadInv' /\ NoLoadEarly
<1>1. {"cached", "fetching", "retry", "delivering", "lookup"} \subseteq Underway
  BY DEF Underway
<1>2. CASE LookupHits(l, p)
  BY <1>1, <1>2, GoesOnLoad DEF LookupHits, leaflet
<1>3. CASE LookupMisses(l, p)
  BY <1>1, <1>3, GoesOnLoad DEF LookupMisses, tryFetch, leaflet
<1>4. CASE RetryStarts(l, p)
  BY <1>1, <1>4, GoesOnLoad DEF RetryStarts, leaflet
<1>5. CASE BytesArrive(l, p)
  BY <1>1, <1>5, GoesOnLoad DEF BytesArrive, leaflet
<1>6. CASE Deliver(l, p)
  BY <1>1, <1>6, EndsLoad DEF Deliver
<1>7. CASE AttemptFails(l, p)
  <2>1. /\ stage[l][p] \in Underway /\ UNCHANGED leaving
        /\ \E counted \in Counters, again \in BOOLEAN : RetryOrFail(l, p, counted, again)
    BY <1>1, <1>7, AttemptEnds
  <2>2. \/ Becomes(l, p, "retry") /\ UNCHANGED <<ready, loading>>
        \/ Finish(l, p, "failed")
    BY <2>1 DEF RetryOrFail, leaflet
  <2> QED
    BY <1>1, <2>1, <2>2, GoesOnLoad, EndsLoad
<1> QED
  BY <1>2, <1>3, <1>4, <1>5, <1>6, <1>7 DEF TileStep

LEMMA LeftoverSettlesLoad ==
  ASSUME Types, LoadInv, NEW l \in Layers, NEW g \in leaving[l], LeftoverSettles(l, g)
  PROVE  LoadInv' /\ NoLoadEarly
<1>1. g[2] = "lookup"
  BY DEF LeftoverSettles, EventDue, Aborting, Aborted, LoadInv
<1>2. /\ leaving' = [leaving EXCEPT ![l] = leaving[l] \ {g}]
      /\ UNCHANGED <<ready, loading, stage>>
  BY <1>1 DEF LeftoverSettles, leaflet
<1>3. \A m \in Layers : leaving'[m] \subseteq leaving[m]
  BY <1>2 DEF Types
<1> QED
  BY <1>2, <1>3 DEF LoadInv, NoLoadEarly

LEMMA AbortsSettleLoad ==
  ASSUME Types, LoadInv, AbortsSettle
  PROVE  LoadInv' /\ NoLoadEarly
<1>1. UNCHANGED <<ready, loading, stage>> /\ \A l \in Layers : leaving'[l] \subseteq leaving[l]
  BY DEF AbortsSettle, leaflet
<1> QED
  BY <1>1 DEF LoadInv, NoLoadEarly

LEMMA ApplyFetchWindowLoad ==
  ASSUME Types, LoadInv, ApplyFetchWindow
  PROVE  LoadInv' /\ NoLoadEarly
<1>1. /\ UNCHANGED <<leaving, ready, loading>>
      /\ \A l \in Layers, p \in Places : stage[l][p] # "held" => stage'[l][p] = stage[l][p]
  BY WindowStages DEF leaflet
<1>2. ASSUME NEW l \in Layers, NEW p \in ready[l]
      PROVE  stage'[l][p] \in {"shown", "failed"}
  <2>1. p \in Places /\ stage[l][p] \in {"shown", "failed"}
    BY DEF Types, LoadInv
  <2> QED
    BY <1>1, <2>1
<1> QED
  BY <1>1, <1>2 DEF LoadInv, NoLoadEarly

LEMMA BurstLoad ==
  ASSUME Types, LoadInv, ~Filter, EventDue,
         NEW v \in Views, NEW away, \A l \in Layers : away[l] \in SUBSET Present(l),
         UnloadAndCreate(v, away)
  PROVE  LoadInv' /\ NoLoadEarly
<1>1. v \in SUBSET Places
  BY ConstantsAssumption
<1>2. /\ leaving' = [l \in Layers |-> leaving[l] \cup Continued(l, away[l])]
      /\ ready' = [l \in Layers |-> ready[l] \ away[l]]
      /\ \A l \in Layers : loading[l] => loading'[l]
  BY DEF UnloadAndCreate, Types
<1>3. \A l \in Layers, p \in Places :
        p \notin Fresh(l, v, away[l]) /\ p \notin away[l] => stage'[l][p] = stage[l][p]
  BY <1>1, BurstStages
<1>4. ASSUME NEW l \in Layers
      PROVE  leaving'[l] \subseteq Places \X {"lookup", "fetching"}
  <2>1. \A p \in Places : stage[l][p] \notin {"cached", "delivering"}
    BY DEF EventDue, Delivering
  <2>2. Continued(l, away[l]) \subseteq Places \X {"lookup", "fetching"}
    BY <2>1 DEF Continued, Promised, Present
  <2> QED
    BY <1>2, <2>2 DEF LoadInv
<1>5. ASSUME NEW l \in Layers, NEW p \in ready'[l]
      PROVE  stage'[l][p] \in {"shown", "failed"}
  <2>1. p \in ready[l] /\ p \notin away[l] /\ p \in Places
    BY <1>2 DEF Types
  <2>2. stage[l][p] \in {"shown", "failed"}
    BY <2>1 DEF LoadInv
  <2>3. p \notin Fresh(l, v, away[l])
    BY <2>1, <2>2 DEF Fresh, Present
  <2> QED
    BY <1>3, <2>1, <2>2, <2>3
<1> QED
  BY <1>2, <1>4, <1>5 DEF LoadInv, NoLoadEarly

LEMMA PanLoad ==
  ASSUME Types, LoadInv, ~Filter, Pan
  PROVE  LoadInv' /\ NoLoadEarly
<1> DEFINE away == [l \in Layers |-> {}]
<1>1. PICK v \in Views : UnloadAndCreate(v, away)
  BY DEF Pan
<1>2. EventDue /\ \A l \in Layers : away[l] \in SUBSET Present(l)
  BY DEF Pan
<1> HIDE DEF away
<1> QED
  BY <1>1, <1>2, BurstLoad

LEMMA PruneLoad ==
  ASSUME Types, LoadInv, ~Filter, NEW l \in Layers, Prune(l)
  PROVE  LoadInv' /\ NoLoadEarly
<1> DEFINE away == [m \in Layers |-> IF m = l THEN Present(l) \ view ELSE {}]
           v == view
<1>1. v \in Views /\ UnloadAndCreate(v, away)
  BY DEF Prune, Types
<1>2. EventDue /\ \A m \in Layers : away[m] \in SUBSET Present(m)
  BY DEF Prune
<1> HIDE DEF away, v
<1> QED
  BY <1>1, <1>2, BurstLoad

LEMMA JumpLoad ==
  ASSUME Types, LoadInv, ~Filter, Jump
  PROVE  LoadInv' /\ NoLoadEarly
<1> DEFINE away == [l \in Layers |-> Present(l)]
<1>1. PICK v \in Views : UnloadAndCreate(v, away)
  BY DEF Jump
<1>2. EventDue /\ \A l \in Layers : away[l] \in SUBSET Present(l)
  BY DEF Jump
<1> HIDE DEF away
<1> QED
  BY <1>1, <1>2, BurstLoad

LEMMA LoadStep ==
  ASSUME Types, LoadInv, ~Filter, [NextFetch]_fetchVars
  PROVE  LoadInv' /\ NoLoadEarly
<1>1. CASE UNCHANGED fetchVars
  BY <1>1 DEF fetchVars, leaflet, LoadInv, NoLoadEarly
<1>2. CASE ShowNextSlot
  BY <1>2 DEF ShowNextSlot, leaflet, LoadInv, NoLoadEarly
<1>3. CASE NextFetch
  BY <1>2, <1>3, TileStepLoad, ApplyFetchWindowLoad, AbortsSettleLoad, LeftoverSettlesLoad, JumpLoad,
     PanLoad, PruneLoad, Zenon DEF NextFetch, NextResting
<1> QED
  BY <1>1, <1>3

\* Where no filter re-encodes the tiles, 'load' means complete: a layer stops
\* loading only with none of its tiles outstanding, whatever was unloaded,
\* aborted, retried or deferred on the way.
THEOREM LoadMeansCompleteTheorem ==
  ASSUME ~Filter
  PROVE  SpecFetch => LoadMeansComplete
<1>1. InitFetch => LoadInv
  <2>1. InitFetch => view \subseteq Places
    BY ConstantsAssumption DEF InitFetch
  <2> QED
    BY <2>1 DEF InitFetch, LoadInv
<1>2. CountInv /\ LoadInv /\ [NextFetch]_fetchVars => LoadInv'
  BY LoadStep DEF CountInv
<1>3. CountInv /\ LoadInv /\ [NextFetch]_fetchVars => [NoLoadEarly]_fetchVars
  BY LoadStep DEF CountInv
<1>4. SpecFetch => [][NoLoadEarly]_fetchVars
  BY <1>1, <1>2, <1>3, CountInvariant, PTL DEF SpecFetch
<1> QED
  BY <1>4 DEF LoadMeansComplete, NoLoadEarly

-----------------------------------------------------------------------------
(* The fetch window, on a map that is reset but not moved by less.         *)

LEMMA TurnsOnce ==
  ASSUME NEW n \in Nat \ {0}, NEW c \in 0..(n - 1), NEW k \in 0..(n - 1)
  PROVE  /\ (c + k) % n \in 0..(n - 1)
         /\ (c + k) % n = c <=> k = 0
<1>1. CASE c + k < n
  BY <1>1
<1>2. CASE c + k >= n
  <2>1. (c + k) % n = c + k - n
    BY <1>2
  <2> QED
    BY <1>2, <2>1
<1> QED
  BY <1>1, <1>2

\* No two frames have one place in playback order, and the shown one is first.
LEMMA OrderFacts ==
  ASSUME cursor \in 0..(Slots - 1)
  PROVE  /\ \A l \in Layers : FetchWindowOrder(l) \in Nat
         /\ \A l, m \in Layers : FetchWindowOrder(l) = FetchWindowOrder(m) => l = m
         /\ LoadedSlots[cursor + 1] \in Layers
         /\ FetchWindowOrder(LoadedSlots[cursor + 1]) = 0
<1> DEFINE plays(k) == LoadedSlots[((cursor + k) % Slots) + 1]
           loaded(l) == \E k \in 0..(Slots - 1) : plays(k) = l
           place(l) == CHOOSE k \in 0..(Slots - 1) : plays(k) = l
<1>1. Slots \in Nat \ {0}
  BY ConstantsAssumption DEF Slots
<1>2. \A l \in Layers : FetchWindowOrder(l) = IF loaded(l) THEN place(l) ELSE Slots + l
  BY DEF FetchWindowOrder
<1>3. \A l \in Layers : loaded(l) => place(l) \in 0..(Slots - 1) /\ plays(place(l)) = l
  OBVIOUS
<1> HIDE DEF loaded, place
<1>4. \A l \in Layers : FetchWindowOrder(l) \in Nat /\ (loaded(l) <=> FetchWindowOrder(l) < Slots)
  BY <1>1, <1>2, <1>3 DEF Layers
<1>5. \A l, m \in Layers : FetchWindowOrder(l) = FetchWindowOrder(m) => l = m
  <2>1. SUFFICES ASSUME NEW l \in Layers, NEW m \in Layers, FetchWindowOrder(l) = FetchWindowOrder(m)
                 PROVE  l = m
    OBVIOUS
  <2>2. CASE loaded(l)
    BY <1>2, <1>3, <1>4, <2>1, <2>2
  <2>3. CASE ~loaded(l)
    BY <1>1, <1>2, <1>4, <2>1, <2>3 DEF Layers
  <2> QED
    BY <2>2, <2>3
<1> DEFINE s == LoadedSlots[cursor + 1]
<1>6. s \in Layers /\ cursor + 1 \in 1..Len(LoadedSlots)
  BY <1>1, ConstantsAssumption DEF Slots, Layers
<1>7. \A k \in 0..(Slots - 1) : plays(k) = s <=> k = 0
  <2>1. SUFFICES ASSUME NEW k \in 0..(Slots - 1)
                 PROVE  plays(k) = s <=> k = 0
    OBVIOUS
  <2>2. (cursor + k) % Slots \in 0..(Slots - 1) /\ ((cursor + k) % Slots = cursor <=> k = 0)
    BY <1>1, TurnsOnce
  <2> DEFINE r == (cursor + k) % Slots
  <2>3. r \in 0..(Slots - 1) /\ (r = cursor <=> k = 0) /\ plays(k) = LoadedSlots[r + 1]
    BY <2>2
  <2> HIDE DEF r
  <2>4. r + 1 \in 1..Len(LoadedSlots)
    BY <1>1, <2>3 DEF Slots
  <2>5. LoadedSlots[r + 1] = LoadedSlots[cursor + 1] <=> r + 1 = cursor + 1
    BY <1>6, <2>4, ConstantsAssumption
  <2> QED
    BY <1>1, <2>3, <2>5
<1> HIDE DEF s, plays
<1>8. loaded(s) /\ place(s) = 0
  BY <1>1, <1>3, <1>6, <1>7 DEF loaded
<1> QED
  BY <1>2, <1>4, <1>5, <1>6, <1>8 DEF s

\* planFetchWindow never names more frames than the window admits.
LEMMA PlanFits ==
  ASSUME cursor \in 0..(Slots - 1)
  PROVE  IsFiniteSet(PlanFetchWindow) /\ Cardinality(PlanFetchWindow) <= FrameFetchWindow
<1> DEFINE busy == {l \in Layers : pending[l] > 0}
           order(l) == FetchWindowOrder(l)
           before(l) == {m \in busy : order(m) < order(l)}
           W == FrameFetchWindow
<1>1. PlanFetchWindow = {l \in busy : Cardinality(before(l)) < W}
  BY DEF PlanFetchWindow
<1>2. /\ \A l \in Layers : order(l) \in Nat
      /\ \A l, m \in Layers : order(l) = order(m) => l = m
  BY OrderFacts
<1>3. W \in Nat \ {0} /\ busy \subseteq Layers
  BY ConstantsAssumption
<1>4. IsFiniteSet(busy)
  <2>1. IsFiniteSet(Layers)
    BY FS_Interval, ConstantsAssumption DEF Layers
  <2> QED
    BY <2>1, FS_Subset
<1> HIDE DEF order, W, busy
<1>5. \A l \in Layers : IsFiniteSet(before(l)) /\ Cardinality(before(l)) \in Nat
  BY <1>4, FS_Subset, FS_CardinalityType
<1>6. ASSUME NEW l \in busy, NEW m \in busy, order(l) < order(m)
      PROVE  Cardinality(before(l)) < Cardinality(before(m))
  <2>1. before(l) \in SUBSET before(m) /\ l \in before(m) /\ l \notin before(l)
    BY <1>2, <1>3, <1>6
  <2>2. /\ Cardinality(before(l)) <= Cardinality(before(m))
        /\ Cardinality(before(m)) = Cardinality(before(l)) => before(m) = before(l)
    BY <1>3, <1>5, <2>1, FS_Subset
  <2> QED
    BY <1>3, <1>5, <2>1, <2>2
<1> DEFINE f == [l \in PlanFetchWindow |-> Cardinality(before(l))]
<1>7. f \in Injection(PlanFetchWindow, 0..(W - 1))
  <2>1. f \in [PlanFetchWindow -> 0..(W - 1)]
    BY <1>1, <1>3, <1>5
  <2>2. ASSUME NEW l \in PlanFetchWindow, NEW m \in PlanFetchWindow, f[l] = f[m]
        PROVE  l = m
    <3>1. l \in busy /\ m \in busy /\ Cardinality(before(l)) = Cardinality(before(m))
      BY <1>1, <2>2
    <3>2. Cardinality(before(l)) \in Nat /\ order(l) \in Nat /\ order(m) \in Nat
      BY <1>2, <1>3, <1>5, <3>1
    <3>3. order(l) = order(m)
      BY <1>6, <3>1, <3>2
    <3> QED
      BY <1>2, <1>3, <3>1, <3>3
  <2> QED
    BY <2>1, <2>2 DEF Injection, IsInjective
<1>8. IsFiniteSet(0..(W - 1)) /\ Cardinality(0..(W - 1)) = W
  BY <1>3, FS_Interval
<1> HIDE DEF f
<1> QED
  BY <1>7, <1>8, FS_Injection DEF W

\* The shown frame is in the plan when it has tiles outstanding.
LEMMA ShownPlanned ==
  ASSUME cursor \in 0..(Slots - 1), pending[LoadedSlots[cursor + 1]] > 0
  PROVE  LoadedSlots[cursor + 1] \in PlanFetchWindow
<1> DEFINE s == LoadedSlots[cursor + 1]
           busy == {l \in Layers : pending[l] > 0}
           before == {m \in busy : FetchWindowOrder(m) < FetchWindowOrder(s)}
<1>1. s \in busy /\ before = {}
  BY OrderFacts
<1>2. Cardinality(before) = 0
  BY <1>1, FS_EmptySet
<1>3. Cardinality(before) < FrameFetchWindow
  BY <1>2, ConstantsAssumption
<1> QED
  BY <1>1, <1>3 DEF PlanFetchWindow

\* Every layer holds just the tiles in view; and the window.
Window ==
  /\ Cardinality({l \in Layers : ~hold[l]}) <= FrameFetchWindow
  /\ \A p \in Places : stage[LoadedSlots[cursor + 1]][p] # "held"

WindowInv ==
  /\ \A l \in Layers, p \in Places : stage[l][p] # "none" <=> p \in view
  /\ ~planned => Window

\* Where nothing but one tile's stage and Leaflet's marks change.
LEMMA StepWindow ==
  ASSUME CountInv, WindowInv, NEW l \in Layers, NEW p \in Places, stage[l][p] \in Underway,
         NEW to \in TileStages \ {"none", "held"}, Becomes(l, p, to), ~planned' => ~planned,
         UNCHANGED <<view, hold, cursor>>
  PROVE  WindowInv'
<1>1. /\ stage'[l][p] = to
      /\ \A q \in Places : q # p => stage'[l][q] = stage[l][q]
      /\ \A m \in Layers : m # l => stage'[m] = stage[m]
  BY BecomesTypes DEF CountInv
<1>2. \A m \in Layers, q \in Places : stage'[m][q] # "none" <=> q \in view'
  BY <1>1 DEF WindowInv, Underway
<1>3. \A m \in Layers, q \in Places : stage[m][q] # "held" => stage'[m][q] # "held"
  BY <1>1
<1>4. LoadedSlots[cursor + 1] \in Layers
  BY OrderFacts DEF CountInv, Types
<1> QED
  BY <1>2, <1>3, <1>4 DEF WindowInv, Window

LEMMA TileStepWindow ==
  ASSUME CountInv, WindowInv, NEW l \in Layers, NEW p \in Places, TileStep(l, p)
  PROVE  WindowInv'
<1>1. /\ {"cached", "fetching", "retry", "delivering", "lookup"} \subseteq Underway
      /\ {"cached", "fetching", "retry", "delivering", "shown", "failed"} \subseteq TileStages \ {"none", "held"}
  BY DEF Underway, TileStages
<1>2. CASE LookupHits(l, p)
  BY <1>1, <1>2, StepWindow DEF LookupHits
<1>3. CASE LookupMisses(l, p)
  BY <1>1, <1>3, StepWindow DEF LookupMisses, tryFetch
<1>4. CASE RetryStarts(l, p)
  BY <1>1, <1>4, StepWindow DEF RetryStarts
<1>5. CASE BytesArrive(l, p)
  BY <1>1, <1>5, StepWindow DEF BytesArrive
<1>6. CASE Deliver(l, p)
  BY <1>1, <1>6, StepWindow DEF Deliver, Finish, Done
<1>7. CASE AttemptFails(l, p)
  <2>1. /\ stage[l][p] \in Underway /\ UNCHANGED <<view, hold, cursor>>
        /\ \E counted \in Counters, again \in BOOLEAN : RetryOrFail(l, p, counted, again)
    BY <1>1, <1>7, AttemptEnds DEF CountInv
  <2>2. /\ Becomes(l, p, "retry") \/ Becomes(l, p, "failed")
        /\ ~planned' => ~planned
    BY <2>1 DEF RetryOrFail, Finish, Done
  <2> QED
    BY <1>1, <2>1, <2>2, StepWindow
<1> QED
  BY <1>2, <1>3, <1>4, <1>5, <1>6, <1>7 DEF TileStep

LEMMA SettlingWindow ==
  ASSUME CountInv, WindowInv,
         AbortsSettle \/ \E l \in Layers : \E g \in leaving[l] : LeftoverSettles(l, g)
  PROVE  WindowInv'
<1>1. UNCHANGED <<view, stage, hold, cursor>> /\ (~planned' => ~planned)
  BY DEF AbortsSettle, LeftoverSettles, Done
<1> QED
  BY <1>1 DEF WindowInv, Window

LEMMA ApplyFetchWindowWindow ==
  ASSUME CountInv, WindowInv, ApplyFetchWindow
  PROVE  WindowInv'
<1> DEFINE s == LoadedSlots[cursor + 1]
<1>1. /\ hold' = [l \in Layers |-> l \notin PlanFetchWindow]
      /\ UNCHANGED <<view, cursor>>
      /\ \A l \in Layers, p \in Places :
           IF l \in PlanFetchWindow /\ stage[l][p] = "held"
           THEN stage'[l][p] \in Starts ELSE stage'[l][p] = stage[l][p]
  BY WindowStages DEF CountInv
<1>2. cursor \in 0..(Slots - 1) /\ s \in Layers
  BY OrderFacts DEF CountInv, Types
<1>3. {l \in Layers : ~hold'[l]} = PlanFetchWindow
  BY <1>1 DEF PlanFetchWindow
<1>4. Cardinality({l \in Layers : ~hold'[l]}) <= FrameFetchWindow
  BY <1>2, <1>3, PlanFits
<1>5. \A p \in Places : stage'[s][p] # "held"
  <2>1. CASE s \in PlanFetchWindow
    BY <1>1, <1>2, <2>1 DEF Starts
  <2>2. CASE s \notin PlanFetchWindow
    <3>1. ~(pending[s] > 0)
      BY <1>2, <2>2, ShownPlanned
    <3>2. /\ pending[s] \in Int /\ leaving[s] \in SUBSET (Places \X Promised)
          /\ pending[s] = Cardinality(Out(stage[s])) + Cardinality(leaving[s])
      BY <1>2 DEF CountInv, Types, Exact
    <3>3. Cardinality(Out(stage[s])) \in Nat /\ Cardinality(leaving[s]) \in Nat /\ IsFiniteSet(Out(stage[s]))
      BY <3>2, OutFinite, LeavingFinite
    <3>4. Cardinality(Out(stage[s])) = 0
      BY <3>1, <3>2, <3>3
    <3>5. Out(stage[s]) = {}
      BY <3>3, <3>4, FS_EmptySet
    <3> QED
      BY <1>1, <1>2, <2>2, <3>5 DEF Out, Underway
  <2> QED
    BY <2>1, <2>2
<1>6. \A l \in Layers, p \in Places : stage'[l][p] # "none" <=> p \in view'
  BY <1>1 DEF WindowInv, Starts
<1> QED
  BY <1>1, <1>4, <1>5, <1>6 DEF WindowInv, Window

LEMMA JumpWindow ==
  ASSUME CountInv, WindowInv, Jump
  PROVE  WindowInv'
<1> DEFINE away == [l \in Layers |-> Present(l)]
<1>1. PICK v \in Views : view' = v /\ UnloadAndCreate(v, away)
  BY DEF Jump
<1>2. /\ \A l \in Layers : away[l] \in SUBSET Present(l) /\ away[l] = Present(l)
      /\ planned' = \E l \in Layers : away[l] # {} \/ (~loading[l] /\ v \ (Present(l) \ away[l]) # {})
  BY <1>1 DEF UnloadAndCreate
<1> HIDE DEF away
<1>3. v \in SUBSET Places /\ Types
  BY ConstantsAssumption DEF CountInv
<1>4. \A l \in Layers, p \in Places :
        IF p \in Fresh(l, v, away[l])
        THEN stage'[l][p] \in (IF hold[l] THEN {"held"} ELSE Starts)
        ELSE IF p \in away[l] THEN stage'[l][p] = "none"
        ELSE stage'[l][p] = stage[l][p]
  BY <1>1, <1>2, <1>3, BurstStages
<1>5. \A l \in Layers, p \in Places : stage'[l][p] # "none" <=> p \in view'
  <2>1. \A l \in Layers : Fresh(l, v, away[l]) = v
    BY <1>2 DEF Fresh
  <2> QED
    BY <1>1, <1>2, <1>4, <2>1 DEF Starts, Present
<1>6. planned'
  <2>1. 0 \in Layers
    BY ConstantsAssumption DEF Layers
  <2>2. \E p \in Places : p \in view
    BY ConstantsAssumption DEF CountInv, Types
  <2>3. away[0] # {}
    BY <1>2, <2>1, <2>2 DEF WindowInv, Present
  <2> QED
    BY <1>2, <2>1, <2>3
<1> QED
  BY <1>5, <1>6 DEF WindowInv

LEMMA ShowNextSlotWindow ==
  ASSUME WindowInv, ShowNextSlot
  PROVE  WindowInv'
<1>1. planned' = TRUE /\ UNCHANGED <<view, stage>>
  BY DEF ShowNextSlot
<1> QED
  BY <1>1 DEF WindowInv

LEMMA InitWindow ==
  ASSUME InitFetch
  PROVE  WindowInv
<1>1. \A l \in Layers, p \in Places : stage[l][p] # "none" <=> p \in view
  BY DEF InitFetch
<1>2. {l \in Layers : ~hold[l]} = {}
  BY DEF InitFetch
<1>3. Cardinality({l \in Layers : ~hold[l]}) <= FrameFetchWindow
  <2>1. Cardinality({l \in Layers : ~hold[l]}) = 0
    BY <1>2, FS_EmptySet
  <2> QED
    BY <2>1, ConstantsAssumption
<1>4. LoadedSlots[cursor + 1] \in Layers
  BY InitCounts, OrderFacts DEF CountInv, Types
<1>5. \A p \in Places : stage[LoadedSlots[cursor + 1]][p] # "held"
  BY <1>4 DEF InitFetch
<1> QED
  BY <1>1, <1>3, <1>5 DEF WindowInv, Window

LEMMA WindowStep ==
  ASSUME CountInv, WindowInv, [NextResting]_fetchVars
  PROVE  CountInv' /\ WindowInv'
<1>1. CountInv'
  BY CountStep DEF NextFetch
<1>2. CASE UNCHANGED fetchVars
  BY <1>1, <1>2 DEF fetchVars, WindowInv, Window
<1>3. CASE NextResting
  BY <1>1, <1>3, TileStepWindow, SettlingWindow, ApplyFetchWindowWindow, JumpWindow, ShowNextSlotWindow,
     Zenon DEF NextResting
<1> QED
  BY <1>1, <1>2, <1>3

\* Exact counts are natural numbers, so that the types hold.
LEMMA CountTypes ==
  ASSUME CountInv
  PROVE  FetchTypes
<1>1. \A l \in Layers : pending[l] \in Nat
  BY OutFinite, LeavingFinite DEF CountInv, Types, Exact
<1> QED
  BY <1>1 DEF CountInv, Types, FetchTypes, TileStages

\* On a map that is reset, or at rest, with the loop playing on, no more frames
\* ask for new tiles than the window admits, and the shown frame waits for no
\* other: once the queued plan has run, none of its tiles is held back.
THEOREM WindowKeptTheorem == PlayingSpec => []WindowKept
<1>1. CountInv /\ WindowInv => WindowKept
  BY CountTypes DEF WindowInv, Window, WindowKept
<1>2. InitFetch => CountInv /\ WindowInv
  BY InitCounts, InitWindow
<1>3. CountInv /\ WindowInv /\ [NextResting]_fetchVars => (CountInv /\ WindowInv)'
  BY WindowStep
<1> QED
  BY <1>1, <1>2, <1>3, PTL DEF PlayingSpec

-----------------------------------------------------------------------------
(* Shared tiles (TileShare).                                                 *)

\* Types of everything but the limiter.
ShareTypes ==
  /\ pinned \in BOOLEAN /\ phase \in {"early", "margin", "passed", "draft", "fixed"}
  /\ at \in [Tiles -> Stages]
  /\ url \in [Tiles -> Urls \cup {None}]
  /\ persists \in [Tiles -> BOOLEAN] /\ need \in [Tiles -> BOOLEAN]
  /\ on \in [Tiles -> Downloads \cup {None}]
  /\ memo \in [Urls -> [content : Contents \cup {None}, final : BOOLEAN]]
  /\ store \in [Urls -> Contents \cup {None}]
  /\ inflight \in [Keys -> Downloads \cup {None}]
  /\ run \in [Downloads -> {"free", "running", "aborted"}]
  /\ key \in [Downloads -> Keys \cup {None}]
  /\ waiters \in [Downloads -> Int]
  /\ got \in [Tiles -> Contents \cup {None}]
  /\ gone \in BOOLEAN

\* A tile that works has a URL; a download that has not settled has its key,
\* and inflight names exactly the running ones.
Wired ==
  /\ \A t \in Tiles : at[t] # "none" => url[t] \in Urls
  /\ \A d \in Downloads : IF run[d] = "free" THEN waiters[d] = 0 ELSE key[d] \in Keys
  /\ \A k \in Keys : inflight[k] # None => run[inflight[k]] = "running" /\ key[inflight[k]] = k
  /\ OneDownload

-----------------------------------------------------------------------------
(* What the steps do to downloads.                                         *)

\* A tile in tryFetch joins a download, waits for a slot, or starts one.
Joins(t, k) ==
  /\ inflight[k] # None /\ Waits(t, inflight[k])
  /\ UNCHANGED <<inflight, run, key, since>>
WaitsForSlot(t) == at' = [at EXCEPT ![t] = "slot"] /\ UNCHANGED <<on, loads>>
Begins(t, k, d) ==
  /\ inflight[k] = None /\ run[d] = "free"
  /\ run' = [run EXCEPT ![d] = "running"]
  /\ key' = [key EXCEPT ![d] = k]
  /\ since' = [since EXCEPT ![d] = phase]
  /\ inflight' = [inflight EXCEPT ![k] = d]
  /\ Waits(t, d)

LEMMA TryFetchCases ==
  ASSUME NEW t \in Tiles, TryFetch(t)
  PROVE  LET final == IsFinalRequest(persists[t])
             k == ShareKeyFor(t, final)
         IN  /\ need' = [need EXCEPT ![t] = final]
             /\ Joins(t, k) \/ WaitsForSlot(t) \/ \E d \in Downloads : Begins(t, k, d)
BY DEF TryFetch, Joins, WaitsForSlot, Begins

\* A tile leaves download d, which goes on or is aborted.
LEMMA DetachCases ==
  ASSUME NEW t, NEW d, Detach(t, d)
  PROVE  /\ waiters' = [waiters EXCEPT ![d] = @ - 1] /\ UNCHANGED <<key, since>>
         /\ \/ waiters[d] # 1 /\ UNCHANGED <<run, inflight>>
            \/ /\ waiters[d] = 1 /\ run' = [run EXCEPT ![d] = "aborted"]
               /\ inflight' = IF inflight[key[d]] = d THEN [inflight EXCEPT ![key[d]] = None] ELSE inflight
BY DEF Detach

LEMMA FinalIsBoolean == ASSUME NEW l \in BOOLEAN PROVE IsFinalRequest(l) \in BOOLEAN
BY DEF IsFinalRequest

LEMMA KeyTyped ==
  ASSUME NEW t \in Tiles, url[t] \in Urls, NEW f \in BOOLEAN
  PROVE  ShareKeyFor(t, f) \in Keys /\ ShareKeyFor(t, f)[1] = url[t] /\ ShareKeyFor(t, f)[2] = f
BY DEF ShareKeyFor, Keys

-----------------------------------------------------------------------------
(* Types and wiring are inductive.                                         *)

Part1 == ShareTypes /\ Wired

LEMMA Part1Init == Init => Part1
<1> SUFFICES ASSUME Init PROVE Part1
  OBVIOUS
<1>1. ShareTypes
  <2>1. pinned \in BOOLEAN /\ phase \in {"early", "margin", "passed", "draft", "fixed"}
    BY DEF Init, FirstPhase
  <2>2. memo \in [Urls -> [content : Contents \cup {None}, final : BOOLEAN]]
    BY DEF Init, NoCopy
  <2>3. /\ at \in [Tiles -> Stages] /\ url \in [Tiles -> Urls \cup {None}]
        /\ persists \in [Tiles -> BOOLEAN] /\ need \in [Tiles -> BOOLEAN]
        /\ on \in [Tiles -> Downloads \cup {None}] /\ got \in [Tiles -> Contents \cup {None}]
        /\ store \in [Urls -> Contents \cup {None}] /\ gone \in BOOLEAN
    BY DEF Init, Stages
  <2>4. /\ inflight \in [Keys -> Downloads \cup {None}]
        /\ run \in [Downloads -> {"free", "running", "aborted"}]
        /\ key \in [Downloads -> Keys \cup {None}] /\ waiters \in [Downloads -> Int]
    BY DEF Init
  <2> QED
    BY <2>1, <2>2, <2>3, <2>4 DEF ShareTypes
<1>2. Wired
  BY DEF Init, Wired, OneDownload
<1> QED
  BY <1>1, <1>2 DEF Part1

\* tryFetch.
LEMMA Part1TryFetch ==
  ASSUME Part1, NEW t \in Tiles, at[t] \in {"slot", "missed"}, TryFetch(t), UNCHANGED <<url, persists>>
  PROVE  /\ Wired' /\ at' \in [Tiles -> Stages]
         /\ need' \in [Tiles -> BOOLEAN] /\ on' \in [Tiles -> Downloads \cup {None}]
         /\ inflight' \in [Keys -> Downloads \cup {None}]
         /\ run' \in [Downloads -> {"free", "running", "aborted"}]
         /\ key' \in [Downloads -> Keys \cup {None}] /\ waiters' \in [Downloads -> Int]
<1> USE DEF Part1
<1> DEFINE final == IsFinalRequest(persists[t])
           k == ShareKeyFor(t, final)
<1>1. final \in BOOLEAN
  BY FinalIsBoolean DEF ShareTypes
<1>2. url[t] \in Urls /\ k \in Keys
  BY <1>1, KeyTyped DEF Wired
<1>3. need' \in [Tiles -> BOOLEAN]
  BY <1>1, TryFetchCases DEF ShareTypes
<1> HIDE DEF final, k
<1>4. CASE Joins(t, k)
  <2>1. inflight[k] \in Downloads
    BY <1>2, <1>4 DEF Joins, ShareTypes
  <2> QED
    BY <1>2, <1>3, <1>4, <2>1 DEF Joins, Waits, ShareTypes, Wired, OneDownload, Stages
<1>5. CASE WaitsForSlot(t)
  BY <1>2, <1>3, <1>5 DEF WaitsForSlot, ShareTypes, Wired, OneDownload, loads, Stages
<1>6. ASSUME NEW d \in Downloads, Begins(t, k, d)
      PROVE  /\ Wired' /\ at' \in [Tiles -> Stages]
             /\ on' \in [Tiles -> Downloads \cup {None}]
             /\ inflight' \in [Keys -> Downloads \cup {None}]
             /\ run' \in [Downloads -> {"free", "running", "aborted"}]
             /\ key' \in [Downloads -> Keys \cup {None}] /\ waiters' \in [Downloads -> Int]
  <2>1. /\ at' \in [Tiles -> Stages]
        /\ on' \in [Tiles -> Downloads \cup {None}]
        /\ inflight' \in [Keys -> Downloads \cup {None}]
        /\ run' \in [Downloads -> {"free", "running", "aborted"}]
        /\ key' \in [Downloads -> Keys \cup {None}] /\ waiters' \in [Downloads -> Int]
    BY <1>2, <1>6 DEF Begins, Waits, ShareTypes, Stages
  <2>2. \A x \in Tiles : at'[x] # "none" => url'[x] \in Urls
    BY <1>2, <1>6 DEF Begins, Waits, ShareTypes, Wired
  <2>3. \A e \in Downloads : IF run'[e] = "free" THEN waiters'[e] = 0 ELSE key'[e] \in Keys
    BY <1>2, <1>6 DEF Begins, Waits, ShareTypes, Wired
  <2>4. \A j \in Keys : inflight'[j] # None => run'[inflight'[j]] = "running" /\ key'[inflight'[j]] = j
    BY <1>2, <1>6 DEF Begins, ShareTypes, Wired
  <2>5. OneDownload'
    BY <1>2, <1>6, ShareAssumption DEF Begins, ShareTypes, Wired, OneDownload
  <2> QED
    BY <2>1, <2>2, <2>3, <2>4, <2>5 DEF Wired
<1> QED
  BY <1>3, <1>4, <1>5, <1>6, TryFetchCases DEF final, k

\* The wiring of the loads alone, for the steps that only move them.
LoadTypes ==
  /\ inflight \in [Keys -> Downloads \cup {None}]
  /\ run \in [Downloads -> {"free", "running", "aborted"}]
  /\ key \in [Downloads -> Keys \cup {None}] /\ waiters \in [Downloads -> Int]
LoadsWired ==
  /\ \A d \in Downloads : IF run[d] = "free" THEN waiters[d] = 0 ELSE key[d] \in Keys
  /\ \A k \in Keys : inflight[k] # None => run[inflight[k]] = "running" /\ key[inflight[k]] = k
  /\ OneDownload

\* A download that is over leaves the others' entries alone.
LEMMA EndsWired ==
  ASSUME LoadTypes, LoadsWired, NEW d \in Downloads, run[d] # "free", Ends(d)
  PROVE  LoadTypes' /\ LoadsWired'
<1>1. key[d] \in Keys
  BY DEF LoadsWired
<1>2. LoadTypes'
  BY <1>1 DEF Ends, LoadTypes
<1>3. \A e \in Downloads : IF run'[e] = "free" THEN waiters'[e] = 0 ELSE key'[e] \in Keys
  BY DEF Ends, LoadTypes, LoadsWired
<1>4. \A k \in Keys : inflight'[k] # None => run'[inflight'[k]] = "running" /\ key'[inflight'[k]] = k
  BY <1>1 DEF Ends, LoadTypes, LoadsWired
<1>5. OneDownload'
  BY <1>1 DEF Ends, LoadTypes, LoadsWired, OneDownload
<1> QED
  BY <1>2, <1>3, <1>4, <1>5 DEF LoadsWired

\* So does the last tile that leaves one.
LEMMA DetachWired ==
  ASSUME LoadTypes, LoadsWired, NEW t, NEW d \in Downloads, run[d] # "free", Detach(t, d)
  PROVE  LoadTypes' /\ LoadsWired'
<1>1. key[d] \in Keys
  BY DEF LoadsWired
<1>2. CASE run' = run /\ inflight' = inflight
  BY <1>2, DetachCases DEF LoadTypes, LoadsWired, OneDownload
<1>3. ASSUME run' = [run EXCEPT ![d] = "aborted"],
             inflight' = [inflight EXCEPT ![key[d]] = None] \/ (inflight' = inflight /\ inflight[key[d]] # d),
             inflight' = inflight \/ inflight[key[d]] = d,
             waiters' = [waiters EXCEPT ![d] = @ - 1], key' = key
      PROVE  LoadTypes' /\ LoadsWired'
  <2>1. LoadTypes'
    BY <1>1, <1>3 DEF LoadTypes
  <2>2. \A e \in Downloads : IF run'[e] = "free" THEN waiters'[e] = 0 ELSE key'[e] \in Keys
    BY <1>3 DEF LoadTypes, LoadsWired
  <2>3. \A k \in Keys : inflight'[k] # None => run'[inflight'[k]] = "running" /\ key'[inflight'[k]] = k
    BY <1>1, <1>3, ShareAssumption DEF LoadTypes, LoadsWired
  <2>4. OneDownload'
    BY <1>1, <1>3 DEF LoadTypes, LoadsWired, OneDownload
  <2> QED
    BY <2>1, <2>2, <2>3, <2>4 DEF LoadsWired
<1> QED
  BY <1>2, <1>3, DetachCases

\* A tile that waits has a running download of its kind; a running download
\* counts those who wait for it, and somebody does.
Callers ==
  /\ \A t \in Tiles : /\ at[t] # "lost"
                      /\ at[t] = "fetching" => /\ on[t] \in Downloads /\ run[on[t]] = "running"
                                               /\ need[t] = key[on[t]][2]
  /\ \A d \in Downloads : run[d] = "running" => waiters[d] = Cardinality(Waiting(d)) /\ Waiting(d) # {}

\* A lookup's answer only moves the tiles that wait for it.
LEMMA LookupEndsTypes ==
  ASSUME ShareTypes, NEW u \in Urls, NEW c \in Contents \cup {None}, LookupEnds(u, c)
  PROVE  /\ at' \in [Tiles -> Stages] /\ got' \in [Tiles -> Contents \cup {None}]
         /\ \A t \in Tiles : at'[t] = at[t] \/ (at[t] = "lookup" /\ at'[t] \in {"missed", "found"})
BY DEF LookupEnds, ShareTypes, Stages

\* What a download brings is content.
LEMMA AnswersAreContent == ASSUME NEW p PROVE Answers(p) \subseteq Contents
BY DEF Answers, Served, Contents

LEMMA Part1Step == Part1 /\ Callers /\ [Next]_vars => Part1'
<1> SUFFICES ASSUME Part1, Callers, [Next]_vars PROVE Part1'
  OBVIOUS
<1>0. ShareTypes /\ Wired /\ LoadTypes /\ LoadsWired
  BY DEF Part1, ShareTypes, Wired, LoadTypes, LoadsWired
<1> DEFINE TileTypes ==
             /\ at \in [Tiles -> Stages] /\ url \in [Tiles -> Urls \cup {None}]
             /\ persists \in [Tiles -> BOOLEAN] /\ need \in [Tiles -> BOOLEAN]
             /\ on \in [Tiles -> Downloads \cup {None}] /\ got \in [Tiles -> Contents \cup {None}]
             /\ \A x \in Tiles : at[x] # "none" => url[x] \in Urls
           CopyTypes ==
             /\ memo \in [Urls -> [content : Contents \cup {None}, final : BOOLEAN]]
             /\ store \in [Urls -> Contents \cup {None}] /\ gone \in BOOLEAN
           FrameTypes == pinned \in BOOLEAN /\ phase \in {"early", "margin", "passed", "draft", "fixed"}
<1>a. TileTypes /\ CopyTypes /\ FrameTypes
  BY <1>0 DEF ShareTypes, Wired
<1>b. ASSUME TileTypes', CopyTypes', FrameTypes', LoadTypes', LoadsWired' PROVE Part1'
  BY <1>b DEF Part1, ShareTypes, Wired, LoadTypes, LoadsWired
<1>c. ASSUME UNCHANGED loads PROVE LoadTypes' /\ LoadsWired'
  BY <1>0, <1>c DEF LoadTypes, LoadsWired, OneDownload, loads
<1>d. ASSUME UNCHANGED <<pinned, phase>> PROVE FrameTypes'
  BY <1>a, <1>d
<1>e. ASSUME UNCHANGED <<memo, store, gone>> PROVE CopyTypes'
  BY <1>a, <1>e
<1>f. ASSUME UNCHANGED <<at, url, persists, need, on, got>> PROVE TileTypes'
  BY <1>a, <1>f
<1>1. ASSUME NEW t \in Tiles, NEW u \in Urls, NEW lasting \in BOOLEAN, Create(t, u, lasting) PROVE Part1'
  <2>1. need' \in [Tiles -> BOOLEAN]
    BY <1>a, <1>1, FinalIsBoolean DEF Create
  <2>2. got' \in [Tiles -> Contents \cup {None}]
    BY <1>a, <1>1 DEF Create, MemoHit
  <2>3. TileTypes'
    BY <1>a, <1>1, <2>1, <2>2 DEF Create, Stages
  <2>4. UNCHANGED <<pinned, phase, memo, store, gone, loads>>
    BY <1>1 DEF Create, frame
  <2> QED
    BY <2>3, <2>4, <1>b, <1>c, <1>d, <1>e
<1>2. ASSUME NEW t \in Tiles, Cancel(t) PROVE Part1'
  <2>1. TileTypes'
    BY <1>a, <1>2 DEF Cancel, Stages
  <2>2. LoadTypes' /\ LoadsWired'
    <3>1. CASE at[t] = "fetching"
      BY <1>0, <1>2, <3>1, DetachWired DEF Cancel, Callers
    <3>2. CASE at[t] # "fetching"
      BY <1>2, <3>2, <1>c DEF Cancel
    <3> QED
      BY <3>1, <3>2
  <2>3. UNCHANGED <<pinned, phase, memo, store, gone>>
    BY <1>2 DEF Cancel, frame, copies
  <2> QED
    BY <2>1, <2>2, <2>3, <1>b, <1>d, <1>e
<1>3. ASSUME NEW t \in Tiles, at[t] \in {"slot", "missed"}, TryFetch(t),
             UNCHANGED <<url, persists, got, pinned, phase, memo, store, gone>>
      PROVE  Part1'
  BY <1>0, <1>a, <1>3, <1>b, <1>d, <1>e, Part1TryFetch DEF Part1, LoadTypes, LoadsWired, Wired
<1>4. ASSUME NEW t \in Tiles, RetryFires(t) PROVE Part1'
  BY <1>3, <1>4 DEF RetryFires, frame, copies
<1>5. ASSUME NEW t \in Tiles, Continue(t) PROVE Part1'
  <2>1. CASE at[t] = "missed" /\ ~MemoHit(url[t], need[t])
    BY <1>3, <1>5, <2>1 DEF Continue, frame, copies
  <2>2. CASE ~(at[t] = "missed" /\ ~MemoHit(url[t], need[t]))
    <3>1. at[t] # "none" /\ url[t] \in Urls
      BY <1>a, <1>5 DEF Continue
    <3>2. TileTypes'
      BY <1>a, <1>5, <2>2, <3>1 DEF Continue, Stages
    <3>3. UNCHANGED <<pinned, phase, memo, store, gone, loads>>
      BY <1>5, <2>2 DEF Continue, frame, copies
    <3> QED
      BY <3>2, <3>3, <1>b, <1>c, <1>d, <1>e
  <2> QED
    BY <2>1, <2>2
<1>6. ASSUME NEW u \in Urls, StoreAnswers(u) PROVE Part1'
  <2>1. PICK c \in {store[u], None} :
          /\ memo' = IF c = None THEN memo ELSE [memo EXCEPT ![u] = Copy(c, TRUE)]
          /\ IF u \in lookups THEN LookupEnds(u, c) ELSE UNCHANGED <<lookups, at, got>>
    BY <1>6 DEF StoreAnswers
  <2>2. c \in Contents \cup {None}
    BY <1>a, <2>1
  <2>3. CopyTypes'
    BY <1>a, <1>6, <2>1, <2>2 DEF StoreAnswers, Copy
  <2>4. at' \in [Tiles -> Stages] /\ got' \in [Tiles -> Contents \cup {None}]
        /\ \A t \in Tiles : at'[t] = at[t] \/ (at[t] = "lookup" /\ at'[t] \in {"missed", "found"})
    BY <1>0, <1>a, <2>1, <2>2, LookupEndsTypes
  <2>5. TileTypes'
    BY <1>a, <1>6, <2>4 DEF StoreAnswers
  <2> QED
    BY <1>6, <2>3, <2>5, <1>b, <1>c, <1>d DEF StoreAnswers, frame
<1>7. ASSUME NEW u \in Urls, LookupTimesOut(u) PROVE Part1'
  <2>1. at' \in [Tiles -> Stages] /\ got' \in [Tiles -> Contents \cup {None}]
        /\ \A t \in Tiles : at'[t] = at[t] \/ (at[t] = "lookup" /\ at'[t] \in {"missed", "found"})
    BY <1>0, <1>7, LookupEndsTypes DEF LookupTimesOut
  <2>2. TileTypes'
    BY <1>a, <1>7, <2>1 DEF LookupTimesOut
  <2>3. CopyTypes'
    BY <1>a, <1>7 DEF LookupTimesOut
  <2> QED
    BY <1>7, <2>2, <2>3, <1>b, <1>c, <1>d DEF LookupTimesOut, frame
<1>8. ASSUME NEW u \in Urls, MemoForgets(u) \/ StoreForgets(u) PROVE Part1'
  <2>1. CopyTypes'
    <3>1. NoCopy \in [content : Contents \cup {None}, final : BOOLEAN]
      BY DEF NoCopy
    <3>2. CASE MemoForgets(u)
      BY <1>a, <3>1, <3>2 DEF MemoForgets
    <3>3. CASE StoreForgets(u)
      BY <1>a, <3>3 DEF StoreForgets
    <3> QED
      BY <1>8, <3>2, <3>3
  <2> QED
    BY <1>8, <2>1, <1>b, <1>c, <1>d, <1>f DEF MemoForgets, StoreForgets, frame, tiles
<1>9. ASSUME NEW d \in Downloads, DownloadArrives(d) PROVE Part1'
  <2>1. PICK content \in Answers(since[d]) :
          /\ at' = [t \in Tiles |-> IF t \in Waiting(d) THEN "shown" ELSE at[t]]
          /\ got' = [t \in Tiles |-> IF t \in Waiting(d) THEN content ELSE got[t]]
          /\ StoreTile(d, key[d][1], content) \/ UNCHANGED <<memo, store>>
    BY <1>9 DEF DownloadArrives
  <2>2. content \in Contents
    BY <2>1, AnswersAreContent
  <2>3. key[d] \in Keys
    BY <1>0, <1>9 DEF DownloadArrives, Wired
  <2>4. CopyTypes'
    <3>1. CASE StoreTile(d, key[d][1], content)
      BY <1>a, <1>9, <2>2, <2>3, <3>1 DEF DownloadArrives, StoreTile, Copy, Keys
    <3> QED
      BY <1>a, <1>9, <2>1, <3>1 DEF DownloadArrives
  <2>5. on' \in [Tiles -> Downloads \cup {None}]
    BY <1>a, <1>9 DEF DownloadArrives
  <2>6. \A t \in Tiles : t \in Waiting(d) => at[t] # "none"
    BY DEF Waiting
  <2>7. TileTypes'
    BY <1>a, <1>9, <2>1, <2>2, <2>5, <2>6 DEF DownloadArrives, Stages
  <2>8. LoadTypes' /\ LoadsWired'
    BY <1>0, <1>9, EndsWired DEF DownloadArrives
  <2> QED
    BY <1>9, <2>4, <2>7, <2>8, <1>b, <1>d DEF DownloadArrives, frame
<1>10. ASSUME NEW d \in Downloads, DownloadFails(d) PROVE Part1'
  <2>1. on' \in [Tiles -> Downloads \cup {None}]
    BY <1>a, <1>10 DEF DownloadFails
  <2>2. \A t \in Tiles : t \in Waiting(d) => at[t] # "none"
    BY DEF Waiting
  <2>3. TileTypes'
    BY <1>a, <1>10, <2>1, <2>2 DEF DownloadFails, Stages
  <2>4. LoadTypes' /\ LoadsWired'
    BY <1>0, <1>10, EndsWired DEF DownloadFails
  <2> QED
    BY <1>10, <2>3, <2>4, <1>b, <1>d, <1>e DEF DownloadFails, frame, copies
<1>11. ASSUME NEW d \in Downloads, AbortSettles(d) PROVE Part1'
  <2>1. \A t \in Tiles : t \in Waiting(d) => at[t] # "none"
    BY DEF Waiting
  <2>2. TileTypes'
    BY <1>a, <1>11, <2>1 DEF AbortSettles, Stages
  <2>3. LoadTypes' /\ LoadsWired'
    BY <1>0, <1>11, EndsWired DEF AbortSettles
  <2> QED
    BY <1>11, <2>2, <2>3, <1>b, <1>d, <1>e DEF AbortSettles, frame, copies
<1>12. CASE PhaseAdvances
  <2>1. FrameTypes'
    BY <1>a, <1>12 DEF PhaseAdvances, PhaseAfter
  <2> QED
    BY <1>12, <2>1, <1>b, <1>c, <1>e, <1>f DEF PhaseAdvances, tiles, copies
<1>13. CASE TimePasses \/ UNCHANGED vars
  BY <1>13, <1>b, <1>c, <1>d, <1>e, <1>f DEF TimePasses, vars, frame, tiles, copies
<1> QED
  BY <1>1, <1>2, <1>4, <1>5, <1>6, <1>7, <1>8, <1>9, <1>10, <1>11, <1>12, <1>13 DEF Next, Event

-----------------------------------------------------------------------------
(* Callers and counts.                                                     *)

\* Steps after which the same tiles wait, on downloads that did not change.
LEMMA CallersKept ==
  ASSUME Callers, UNCHANGED <<run, key, waiters>>,
         \A t \in Tiles : (at'[t] = "fetching" <=> at[t] = "fetching") /\ at'[t] # "lost",
         \A t \in Tiles : at[t] = "fetching" => on'[t] = on[t] /\ need'[t] = need[t]
  PROVE  Callers'
<1>1. \A d \in Downloads : Waiting(d)' = Waiting(d)
  BY DEF Waiting
<1> QED
  BY <1>1 DEF Callers

\* A download that is over, with all its tiles.
LEMMA CallersEnd ==
  ASSUME Part1, Callers, NEW d \in Downloads, run[d] # "free", Ends(d), UNCHANGED need,
         \A t \in Tiles : IF t \in Waiting(d) THEN at'[t] \notin {"fetching", "lost"}
                          ELSE at'[t] = at[t] /\ on'[t] = on[t]
  PROVE  Callers'
<1>1. \A e \in Downloads \ {d} : /\ run'[e] = run[e] /\ key'[e] = key[e] /\ waiters'[e] = waiters[e]
                                 /\ Waiting(e)' = Waiting(e)
  BY DEF Ends, Waiting, Part1, ShareTypes
<1>2. run'[d] = "free"
  BY DEF Ends, Part1, ShareTypes
<1>3. \A t \in Tiles : at'[t] = "fetching" => at[t] = "fetching" /\ on'[t] = on[t] /\ on[t] # d
  BY DEF Waiting
<1>4. \A t \in Tiles : at'[t] # "lost"
  BY DEF Callers
<1> QED
  BY <1>1, <1>2, <1>3, <1>4 DEF Callers

\* One more tile waits for d: a running download, or one that was free.
LEMMA CallersWait ==
  ASSUME Part1, Callers, NEW t \in Tiles, at[t] # "fetching", NEW d \in Downloads,
         Waits(t, d), run'[d] = "running", need'[t] = key'[d][2],
         \A x \in Tiles \ {t} : need'[x] = need[x],
         \A e \in Downloads \ {d} : run'[e] = run[e] /\ key'[e] = key[e],
         \/ run[d] = "running" /\ key'[d] = key[d]
         \/ run[d] = "free" /\ waiters[d] = 0
  PROVE  Callers'
<1>1. /\ at'[t] = "fetching" /\ on'[t] = d
      /\ \A x \in Tiles \ {t} : at'[x] = at[x] /\ on'[x] = on[x]
  BY DEF Waits, Part1, ShareTypes
<1>2. Waiting(d)' = Waiting(d) \cup {t} /\ t \notin Waiting(d)
  BY <1>1 DEF Waiting
<1>3. \A e \in Downloads \ {d} : Waiting(e)' = Waiting(e) /\ waiters'[e] = waiters[e]
  BY <1>1 DEF Waiting, Waits, Part1, ShareTypes
<1>4. waiters[d] = Cardinality(Waiting(d)) /\ IsFiniteSet(Waiting(d))
  <2>1. IsFiniteSet(Waiting(d))
    BY ShareAssumption, FS_Subset DEF Waiting
  <2>2. CASE run[d] = "free" /\ waiters[d] = 0
    <3>1. Waiting(d) = {}
      BY <2>2 DEF Callers, Waiting
    <3> QED
      BY <2>1, <2>2, <3>1, FS_EmptySet
  <2> QED
    BY <2>1, <2>2 DEF Callers
<1>5. waiters'[d] = waiters[d] + 1
  BY DEF Waits, Part1, ShareTypes
<1>6. waiters'[d] = Cardinality(Waiting(d)')
  BY <1>2, <1>4, <1>5, FS_AddElement
<1>7. \A x \in Tiles : at'[x] = "fetching" /\ x # t => on[x] \in Downloads /\ run[on[x]] = "running"
                                                      /\ need[x] = key[on[x]][2]
  BY <1>1 DEF Callers
<1>8. \A x \in Tiles : at'[x] = "fetching" => on'[x] \in Downloads /\ run'[on'[x]] = "running"
                                              /\ need'[x] = key'[on'[x]][2]
  BY <1>1, <1>7
<1> QED
  BY <1>1, <1>2, <1>3, <1>6, <1>8 DEF Callers

\* One tile leaves d, which is aborted if it was the last.
LEMMA CallersLeave ==
  ASSUME Part1, Callers, NEW t \in Tiles, NEW d \in Downloads, at[t] = "fetching", on[t] = d,
         Detach(t, d), at'[t] = "none",
         \A x \in Tiles \ {t} : at'[x] = at[x] /\ on'[x] = on[x] /\ need'[x] = need[x]
  PROVE  Callers'
<1>1. run[d] = "running" /\ waiters[d] = Cardinality(Waiting(d)) /\ t \in Waiting(d)
  BY DEF Callers, Waiting
<1>2. Waiting(d)' = Waiting(d) \ {t} /\ \A e \in Downloads \ {d} : Waiting(e)' = Waiting(e)
  BY DEF Waiting
<1>3. IsFiniteSet(Waiting(d)) /\ Cardinality(Waiting(d)') = waiters[d] - 1 /\ IsFiniteSet(Waiting(d)')
  <2>1. IsFiniteSet(Waiting(d))
    BY ShareAssumption, FS_Subset DEF Waiting
  <2> QED
    BY <1>1, <1>2, <2>1, FS_RemoveElement
<1>4. waiters' = [waiters EXCEPT ![d] = @ - 1] /\ key' = key
  BY DetachCases
<1>5. waiters[d] \in Int /\ waiters'[d] = waiters[d] - 1 /\ \A e \in Downloads \ {d} : waiters'[e] = waiters[e]
  BY <1>1, <1>4 DEF Part1, ShareTypes
<1>6. CASE waiters[d] = 1
  <2>1. Waiting(d)' = {}
    BY <1>3, <1>6, FS_EmptySet
  <2>2. run' = [run EXCEPT ![d] = "aborted"]
    BY <1>6, DetachCases
  <2>3. run'[d] = "aborted" /\ \A e \in Downloads \ {d} : run'[e] = run[e]
    BY <1>1, <2>2 DEF Part1, ShareTypes
  <2>4. \A x \in Tiles : at'[x] = "fetching" => on'[x] # d /\ x # t
    BY <2>1 DEF Waiting
  <2> QED
    BY <1>2, <1>4, <1>5, <2>3, <2>4 DEF Callers
<1>7. CASE waiters[d] # 1
  <2>1. run' = run
    BY <1>7, DetachCases
  <2>2. Waiting(d)' # {}
    BY <1>3, <1>5, <1>7, FS_EmptySet
  <2>3. waiters'[d] = Cardinality(Waiting(d)')
    BY <1>3, <1>5
  <2>4. \A x \in Tiles : /\ at'[x] # "lost"
                         /\ at'[x] = "fetching" => /\ on'[x] \in Downloads /\ run'[on'[x]] = "running"
                                                   /\ need'[x] = key'[on'[x]][2]
    BY <1>4, <2>1 DEF Callers
  <2>5. \A e \in Downloads : run'[e] = "running" => waiters'[e] = Cardinality(Waiting(e)') /\ Waiting(e)' # {}
    BY <1>2, <1>5, <2>1, <2>2, <2>3 DEF Callers
  <2> QED
    BY <2>4, <2>5 DEF Callers
<1> QED
  BY <1>6, <1>7

\* tryFetch keeps count.
LEMMA CallersTryFetch ==
  ASSUME Part1, Callers, NEW t \in Tiles, at[t] \in {"slot", "missed"}, TryFetch(t), UNCHANGED <<url, persists>>
  PROVE  Callers'
<1> DEFINE final == IsFinalRequest(persists[t])
           k == ShareKeyFor(t, final)
<1>1. final \in BOOLEAN
  BY FinalIsBoolean DEF Part1, ShareTypes
<1>2. k \in Keys /\ k[2] = final
  BY <1>1, KeyTyped DEF Part1, Wired
<1>3. need'[t] = final /\ \A x \in Tiles \ {t} : need'[x] = need[x]
  BY TryFetchCases DEF Part1, ShareTypes
<1>4. CASE Joins(t, k)
  <2>1. inflight[k] \in Downloads /\ run[inflight[k]] = "running" /\ key[inflight[k]] = k
    BY <1>2, <1>4 DEF Joins, Part1, ShareTypes, Wired
  <2> HIDE DEF k, final
  <2>2. Waits(t, inflight[k]) /\ UNCHANGED <<run, key>>
    BY <1>4 DEF Joins
  <2> QED
    BY <1>2, <1>3, <2>1, <2>2, CallersWait
<1>5. CASE WaitsForSlot(t)
  <2>1. at'[t] = "slot" /\ \A x \in Tiles \ {t} : at'[x] = at[x]
    BY <1>5 DEF WaitsForSlot, Part1, ShareTypes
  <2>2. UNCHANGED <<on, run, key, waiters>>
    BY <1>5 DEF WaitsForSlot, loads
  <2> HIDE DEF final, k
  <2> QED
    BY <1>3, <2>1, <2>2, CallersKept DEF Callers
<1>6. ASSUME NEW d \in Downloads, Begins(t, k, d) PROVE Callers'
  <2> HIDE DEF k, final
  <2>1. run'[d] = "running" /\ key'[d] = k /\ waiters[d] = 0 /\ run[d] = "free"
    BY <1>6 DEF Begins, Part1, ShareTypes, Wired
  <2>2. \A e \in Downloads \ {d} : run'[e] = run[e] /\ key'[e] = key[e]
    BY <1>6 DEF Begins, Part1, ShareTypes
  <2> QED
    BY <1>2, <1>3, <1>6, <2>1, <2>2, CallersWait DEF Begins
<1> QED
  BY <1>4, <1>5, <1>6, TryFetchCases

LEMMA CallersStep == Part1 /\ Callers /\ [Next]_vars => Callers'
<1> SUFFICES ASSUME Part1, Callers, [Next]_vars PROVE Callers'
  OBVIOUS
<1>0. ShareTypes /\ Wired
  BY DEF Part1
<1>1. ASSUME NEW t \in Tiles, NEW u \in Urls, NEW lasting \in BOOLEAN, Create(t, u, lasting) PROVE Callers'
  <2>1. at[t] = "none" /\ at'[t] \in {"shown", "missed", "lookup"} /\ on' = on
        /\ \A x \in Tiles \ {t} : at'[x] = at[x] /\ need'[x] = need[x]
    BY <1>0, <1>1 DEF Create, ShareTypes
  <2>2. UNCHANGED <<run, key, waiters>>
    BY <1>1 DEF Create, loads
  <2> QED
    BY <2>1, <2>2, CallersKept DEF Callers
<1>2. ASSUME NEW t \in Tiles, Cancel(t) PROVE Callers'
  <2>1. at'[t] = "none" /\ \A x \in Tiles \ {t} : at'[x] = at[x] /\ on'[x] = on[x] /\ need'[x] = need[x]
    BY <1>0, <1>2 DEF Cancel, ShareTypes
  <2>2. CASE at[t] = "fetching"
    BY <1>2, <2>1, <2>2, CallersLeave DEF Cancel, Callers
  <2>3. CASE at[t] # "fetching"
    BY <1>2, <2>1, <2>3, CallersKept DEF Cancel, loads, Callers
  <2> QED
    BY <2>2, <2>3
<1>3. ASSUME NEW t \in Tiles, RetryFires(t) PROVE Callers'
  BY <1>3, CallersTryFetch DEF RetryFires
<1>4. ASSUME NEW t \in Tiles, Continue(t) PROVE Callers'
  <2>1. CASE at[t] = "missed" /\ ~MemoHit(url[t], need[t])
    BY <1>4, <2>1, CallersTryFetch DEF Continue
  <2>2. CASE ~(at[t] = "missed" /\ ~MemoHit(url[t], need[t]))
    <3>1. /\ at[t] \in {"found", "missed"} /\ at'[t] = "shown" /\ UNCHANGED <<on, need, run, key, waiters>>
          /\ \A x \in Tiles \ {t} : at'[x] = at[x]
      BY <1>0, <1>4, <2>2 DEF Continue, ShareTypes, loads
    <3> QED
      BY <3>1, CallersKept DEF Callers
  <2> QED
    BY <2>1, <2>2
<1>5. ASSUME UNCHANGED <<on, need, loads>>,
             \A t \in Tiles : at'[t] = at[t] \/ (at[t] = "lookup" /\ at'[t] \in {"missed", "found"})
      PROVE  Callers'
  BY <1>5, CallersKept DEF loads, Callers
<1>6. ASSUME NEW u \in Urls, StoreAnswers(u) PROVE Callers'
  <2>1. PICK c \in {store[u], None} : LookupEnds(u, c) \/ UNCHANGED <<lookups, at, got>>
    BY <1>6 DEF StoreAnswers
  <2>2. c \in Contents \cup {None}
    BY <1>0, <2>1 DEF ShareTypes
  <2> QED
    BY <1>0, <1>5, <1>6, <2>1, <2>2, LookupEndsTypes DEF StoreAnswers
<1>7. ASSUME NEW u \in Urls, LookupTimesOut(u) PROVE Callers'
  BY <1>0, <1>5, <1>7, LookupEndsTypes DEF LookupTimesOut
<1>8. ASSUME NEW u \in Urls, MemoForgets(u) \/ StoreForgets(u) PROVE Callers'
  BY <1>5, <1>8 DEF MemoForgets, StoreForgets, tiles
<1>9. ASSUME NEW d \in Downloads, DownloadArrives(d) PROVE Callers'
  BY <1>9, CallersEnd DEF DownloadArrives
<1>10. ASSUME NEW d \in Downloads, DownloadFails(d) PROVE Callers'
  BY <1>10, CallersEnd DEF DownloadFails
<1>11. ASSUME NEW d \in Downloads, AbortSettles(d) PROVE Callers'
  <2>1. Waiting(d) = {}
    BY <1>11 DEF AbortSettles, Callers, Waiting
  <2>2. at' = [t \in Tiles |-> at[t]] /\ run[d] # "free"
    BY <1>11, <2>1 DEF AbortSettles
  <2> QED
    BY <1>11, <2>1, <2>2, CallersEnd DEF AbortSettles
<1>12. CASE PhaseAdvances \/ TimePasses \/ UNCHANGED vars
  BY <1>5, <1>12 DEF PhaseAdvances, TimePasses, tiles, vars
<1> QED
  BY <1>1, <1>2, <1>3, <1>4, <1>6, <1>7, <1>8, <1>9, <1>10, <1>11, <1>12 DEF Next, Event

-----------------------------------------------------------------------------
(* What is kept and shown as final is final.                               *)

\* Where a request counts as final nothing but final can arrive: an unpinned
\* layer persists only what a run covers, and a download that counted as final
\* began while the answer was final and ends before that changes.
SinceTyped == since \in [Downloads -> {"early", "margin", "passed", "draft", "fixed"}]
PersistsFixed == \A t \in Tiles : persists[t] /\ ~pinned => phase = "fixed"
FinalLoads == \A d \in Downloads : run[d] = "running" /\ key[d][2] =>
                since[d] \in {"early", "fixed"} /\ phase \notin {"draft", "passed"}
FoundIsFinal == \A t \in Tiles : at[t] = "found" => got[t] = "final"
Content == SinceTyped /\ PersistsFixed /\ FinalLoads /\ FoundIsFinal /\ KeptIsFinal /\ FinalGetsFinal

\* What a download that counted as final brings.
LEMMA FinalAnswers ==
  ASSUME FinalLoads, NEW d \in Downloads, run[d] = "running", key[d][2] = TRUE,
         phase \in {"early", "margin", "passed", "draft", "fixed"}, NEW c \in Answers(since[d])
  PROVE  c = "final"
BY DEF FinalLoads, Answers, Served

\* tryFetch starts a download that counts as final only when the answer is.
LEMMA ContentTryFetch ==
  ASSUME Part1, Callers, Content, NEW t \in Tiles, at[t] \in {"slot", "missed"}, TryFetch(t),
         UNCHANGED <<pinned, phase, url, persists, got, memo, store>>
  PROVE  Content'
<1> DEFINE final == IsFinalRequest(persists[t])
           k == ShareKeyFor(t, final)
<1>1. final \in BOOLEAN
  BY FinalIsBoolean DEF Part1, ShareTypes
<1>2. k \in Keys /\ k[2] = final
  BY <1>1, KeyTyped DEF Part1, Wired
<1>3. \A x \in Tiles \ {t} : need'[x] = need[x] /\ at'[x] = at[x]
  <2>1. \A x \in Tiles \ {t} : need'[x] = need[x]
    BY TryFetchCases DEF Part1, ShareTypes
  <2> QED
    BY <2>1, TryFetchCases DEF Joins, Waits, WaitsForSlot, Begins, Part1, ShareTypes
<1>4. at'[t] \in {"fetching", "slot"}
  BY TryFetchCases DEF Joins, Waits, WaitsForSlot, Begins, Part1, ShareTypes
<1>5. PersistsFixed' /\ KeptIsFinal'
  BY DEF Content, PersistsFixed, KeptIsFinal
<1>6. FoundIsFinal' /\ FinalGetsFinal'
  BY <1>3, <1>4 DEF Content, FoundIsFinal, FinalGetsFinal
<1>7. CASE UNCHANGED <<run, key, since>>
  BY <1>5, <1>6, <1>7 DEF Content, FinalLoads, SinceTyped
<1>8. ASSUME NEW d \in Downloads, Begins(t, k, d) PROVE Content'
  <2>1. SinceTyped'
    BY <1>8 DEF Begins, Content, SinceTyped, Part1, ShareTypes
  <2>2. final => phase \in {"early", "fixed"}
    BY DEF IsFinalRequest, Content, PersistsFixed, Part1, ShareTypes
  <2> HIDE DEF k, final
  <2>3. key'[d] = k /\ since'[d] = phase
        /\ \A e \in Downloads \ {d} : run'[e] = run[e] /\ key'[e] = key[e] /\ since'[e] = since[e]
    BY <1>8 DEF Begins, Content, SinceTyped, Part1, ShareTypes
  <2>4. FinalLoads'
    BY <1>2, <2>2, <2>3 DEF Content, FinalLoads
  <2> QED
    BY <1>5, <1>6, <2>1, <2>4 DEF Content
<1> QED
  BY <1>7, <1>8, TryFetchCases DEF Joins, WaitsForSlot, loads

\* A download that is over takes its claim with it.
LEMMA ContentEnds ==
  ASSUME Part1, Content, NEW d \in Downloads, Ends(d), UNCHANGED phase
  PROVE  SinceTyped' /\ FinalLoads'
<1>1. FirstPhase \in {"early", "draft"}
  BY DEF FirstPhase
<1> QED
  BY <1>1 DEF Ends, Content, SinceTyped, FinalLoads, Part1, ShareTypes

LEMMA ContentStep == Part1 /\ Callers /\ Content /\ [Next]_vars => Content'
<1> SUFFICES ASSUME Part1, Callers, Content, [Next]_vars PROVE Content'
  OBVIOUS
<1>0. ShareTypes /\ Wired
  BY DEF Part1
<1>a. SinceTyped /\ PersistsFixed /\ FinalLoads /\ FoundIsFinal /\ KeptIsFinal /\ FinalGetsFinal
  BY DEF Content
<1>b. ASSUME SinceTyped', PersistsFixed', FinalLoads', FoundIsFinal', KeptIsFinal', FinalGetsFinal' PROVE Content'
  BY <1>b DEF Content
<1>c. ASSUME UNCHANGED <<loads, phase>> PROVE SinceTyped' /\ FinalLoads'
  BY <1>a, <1>c DEF SinceTyped, FinalLoads, loads
<1>d. ASSUME UNCHANGED <<frame, persists>> PROVE PersistsFixed'
  BY <1>a, <1>d DEF PersistsFixed, frame
<1>e. ASSUME UNCHANGED <<memo, store>> PROVE KeptIsFinal'
  BY <1>a, <1>e DEF KeptIsFinal
<1>f. ASSUME UNCHANGED <<at, got, need>> PROVE FoundIsFinal' /\ FinalGetsFinal'
  BY <1>a, <1>f DEF FoundIsFinal, FinalGetsFinal
<1>1. ASSUME NEW t \in Tiles, NEW u \in Urls, NEW lasting \in BOOLEAN, Create(t, u, lasting) PROVE Content'
  <2>1. PersistsFixed'
    BY <1>0, <1>a, <1>1 DEF Create, MayPersist, PersistsFixed, ShareTypes, frame
  <2>2. \A x \in Tiles \ {t} : at'[x] = at[x] /\ need'[x] = need[x] /\ got'[x] = got[x]
    BY <1>0, <1>1 DEF Create, ShareTypes
  <2>3. at'[t] # "found" /\ (at'[t] = "shown" /\ need'[t] => got'[t] = "final")
    BY <1>0, <1>a, <1>1 DEF Create, ShareTypes, MemoHit, KeptIsFinal
  <2>4. FoundIsFinal' /\ FinalGetsFinal'
    BY <1>a, <2>2, <2>3 DEF FoundIsFinal, FinalGetsFinal
  <2> QED
    BY <1>1, <2>1, <2>4, <1>b, <1>c, <1>e DEF Create, frame
<1>2. ASSUME NEW t \in Tiles, Cancel(t) PROVE Content'
  <2>1. SinceTyped' /\ FinalLoads'
    BY <1>a, <1>2, <1>c, DetachCases DEF Cancel, SinceTyped, FinalLoads, frame, Callers, Part1, ShareTypes
  <2>2. PersistsFixed'
    BY <1>0, <1>a, <1>2 DEF Cancel, PersistsFixed, ShareTypes, frame
  <2>3. FoundIsFinal' /\ FinalGetsFinal'
    BY <1>0, <1>a, <1>2 DEF Cancel, FoundIsFinal, FinalGetsFinal, ShareTypes
  <2> QED
    BY <1>2, <2>1, <2>2, <2>3, <1>b, <1>e DEF Cancel, copies
<1>3. ASSUME NEW t \in Tiles, RetryFires(t) PROVE Content'
  BY <1>3, ContentTryFetch DEF RetryFires, frame, copies
<1>4. ASSUME NEW t \in Tiles, Continue(t) PROVE Content'
  <2>1. CASE at[t] = "missed" /\ ~MemoHit(url[t], need[t])
    BY <1>4, <2>1, ContentTryFetch DEF Continue, frame, copies
  <2>2. CASE ~(at[t] = "missed" /\ ~MemoHit(url[t], need[t]))
    <3>1. /\ at'[t] = "shown" /\ got'[t] = IF at[t] = "found" THEN got[t] ELSE memo[url[t]].content
          /\ \A x \in Tiles \ {t} : at'[x] = at[x] /\ got'[x] = got[x]
          /\ UNCHANGED <<frame, persists, need, copies, loads>>
      BY <1>0, <1>4, <2>2 DEF Continue, ShareTypes
    <3>2. need[t] => got'[t] = "final"
      <4>1. CASE at[t] = "found"
        BY <1>a, <3>1, <4>1 DEF FoundIsFinal
      <4>2. CASE at[t] = "missed" /\ MemoHit(url[t], need[t])
        BY <1>0, <1>a, <3>1, <4>2 DEF MemoHit, KeptIsFinal, Wired
      <4> QED
        BY <1>4, <2>2, <4>1, <4>2 DEF Continue
    <3>3. FoundIsFinal' /\ FinalGetsFinal'
      BY <1>a, <3>1, <3>2 DEF FoundIsFinal, FinalGetsFinal
    <3> QED
      BY <3>1, <3>3, <1>b, <1>c, <1>d, <1>e DEF copies, frame
  <2> QED
    BY <2>1, <2>2
<1>5. ASSUME NEW u \in Urls, StoreAnswers(u) PROVE Content'
  <2>1. PICK c \in {store[u], None} :
          /\ memo' = IF c = None THEN memo ELSE [memo EXCEPT ![u] = Copy(c, TRUE)]
          /\ IF u \in lookups THEN LookupEnds(u, c) ELSE UNCHANGED <<lookups, at, got>>
    BY <1>5 DEF StoreAnswers
  <2>2. c \in {"final", None}
    BY <1>a, <2>1 DEF KeptIsFinal
  <2>3. KeptIsFinal'
    BY <1>0, <1>a, <1>5, <2>1, <2>2 DEF StoreAnswers, KeptIsFinal, Copy, ShareTypes
  <2>4. FoundIsFinal' /\ FinalGetsFinal'
    BY <1>0, <1>a, <1>5, <2>1, <2>2 DEF StoreAnswers, LookupEnds, FoundIsFinal, FinalGetsFinal, ShareTypes
  <2> QED
    BY <1>5, <2>3, <2>4, <1>b, <1>c, <1>d DEF StoreAnswers, frame
<1>6. ASSUME NEW u \in Urls, LookupTimesOut(u) PROVE Content'
  <2>1. FoundIsFinal' /\ FinalGetsFinal'
    BY <1>0, <1>a, <1>6 DEF LookupTimesOut, LookupEnds, FoundIsFinal, FinalGetsFinal, ShareTypes
  <2> QED
    BY <1>6, <2>1, <1>b, <1>c, <1>d, <1>e DEF LookupTimesOut, frame
<1>7. ASSUME NEW u \in Urls, MemoForgets(u) \/ StoreForgets(u) PROVE Content'
  <2>1. KeptIsFinal'
    BY <1>0, <1>a, <1>7 DEF MemoForgets, StoreForgets, KeptIsFinal, NoCopy, ShareTypes
  <2> QED
    BY <1>7, <2>1, <1>b, <1>c, <1>d, <1>f DEF MemoForgets, StoreForgets, frame, tiles
<1>8. ASSUME NEW d \in Downloads, DownloadArrives(d) PROVE Content'
  <2>1. PICK content \in Answers(since[d]) :
          /\ at' = [t \in Tiles |-> IF t \in Waiting(d) THEN "shown" ELSE at[t]]
          /\ got' = [t \in Tiles |-> IF t \in Waiting(d) THEN content ELSE got[t]]
          /\ StoreTile(d, key[d][1], content) \/ UNCHANGED <<memo, store>>
    BY <1>8 DEF DownloadArrives
  <2>2. run[d] = "running" /\ key[d][1] \in Urls /\ key[d][2] \in BOOLEAN
    BY <1>0, <1>8 DEF DownloadArrives, Wired, Keys
  <2>3. key[d][2] => content = "final"
    BY <1>0, <1>a, <2>1, <2>2, FinalAnswers DEF ShareTypes
  <2>4. KeptIsFinal'
    <3>1. CASE StoreTile(d, key[d][1], content)
      BY <1>0, <1>a, <2>2, <2>3, <3>1 DEF StoreTile, Copy, KeptIsFinal, ShareTypes
    <3> QED
      BY <2>1, <3>1, <1>e
  <2>5. \A t \in Tiles : t \in Waiting(d) => need[t] = key[d][2]
    BY DEF Waiting, Callers
  <2>6. need' = need
    BY <1>8 DEF DownloadArrives
  <2>7. FoundIsFinal' /\ FinalGetsFinal'
    BY <1>a, <2>1, <2>3, <2>5, <2>6 DEF FoundIsFinal, FinalGetsFinal
  <2>8. SinceTyped' /\ FinalLoads'
    BY <1>8, ContentEnds DEF DownloadArrives, frame
  <2> QED
    BY <1>8, <2>4, <2>7, <2>8, <1>b, <1>d DEF DownloadArrives
<1>9. ASSUME NEW d \in Downloads, DownloadFails(d) \/ AbortSettles(d) PROVE Content'
  <2>1. SinceTyped' /\ FinalLoads'
    BY <1>9, ContentEnds DEF DownloadFails, AbortSettles, frame
  <2>2. UNCHANGED <<frame, persists, need, got, memo, store>>
    BY <1>9 DEF DownloadFails, AbortSettles, copies
  <2>3. \A t \in Tiles : at'[t] = at[t] \/ at'[t] \in {"slot", "failed", "lost"}
    BY <1>9 DEF DownloadFails, AbortSettles
  <2>4. FoundIsFinal' /\ FinalGetsFinal'
    BY <1>a, <2>2, <2>3 DEF FoundIsFinal, FinalGetsFinal
  <2> QED
    BY <2>1, <2>2, <2>4, <1>b, <1>d, <1>e
<1>10. CASE PhaseAdvances
  <2>1. PersistsFixed' /\ FinalLoads'
    BY <1>0, <1>a, <1>10 DEF PhaseAdvances, PhaseAfter, PersistsFixed, FinalLoads, tiles, loads, ShareTypes
  <2>2. SinceTyped'
    BY <1>a, <1>10 DEF PhaseAdvances, SinceTyped, loads
  <2> QED
    BY <1>10, <2>1, <2>2, <1>b, <1>e, <1>f DEF PhaseAdvances, tiles, copies
<1>11. CASE TimePasses \/ UNCHANGED vars
  BY <1>11, <1>b, <1>c, <1>d, <1>e, <1>f DEF TimePasses, vars, frame, tiles, copies
<1> QED
  BY <1>1, <1>2, <1>3, <1>4, <1>5, <1>6, <1>7, <1>8, <1>9, <1>10, <1>11 DEF Next, Event

-----------------------------------------------------------------------------
(* The budget.                                                             *)

\* A bounded set of numbers has its maximum.
LEMMA MaxOfBounded ==
  ASSUME NEW S \in SUBSET Nat, S # {}, NEW L \in Nat, \A n \in S : n <= L
  PROVE  Max(S) \in S /\ \A n \in S : n <= Max(S)
<1> DEFINE T == {L - n : n \in S}
<1>0. \A n \in S : L - n \in T
  OBVIOUS
<1>1. T \subseteq Nat /\ T # {}
  <2>1. T \subseteq Nat
    OBVIOUS
  <2> QED
    BY <1>0, <2>1
<1>2. PICK x \in T : \A y \in T : ~(<<y, x>> \in OpToRel(<, Nat))
  BY <1>1, NatLessThanWellFounded, WFMin
<1>3. \A y \in T : ~(y < x)
  BY <1>1, <1>2 DEF OpToRel
<1>4. PICK m \in S : x = L - m
  BY <1>2
<1> HIDE DEF T
<1>5. \A n \in S : m >= n
  BY <1>0, <1>3, <1>4
<1> QED
  BY <1>5 DEF Max

\* w is the end of s, and what it lacks is no later than c.
Suffix(w, s, c) ==
  /\ w \in Seq(Int) /\ s \in Seq(Int) /\ Len(w) <= Len(s)
  /\ \A i \in 1..Len(w) : w[i] = s[Len(s) - Len(w) + i]
  /\ \A i \in 1..(Len(s) - Len(w)) : s[i] <= c

\* What Append does.
LEMMA AppendFacts ==
  ASSUME NEW s \in Seq(Int), NEW n \in Int
  PROVE  /\ Append(s, n) \in Seq(Int) /\ Len(Append(s, n)) = Len(s) + 1 /\ Len(s) \in Nat
         /\ \A i \in 1..Len(s) : Append(s, n)[i] = s[i] /\ s[i] \in Int
         /\ Append(s, n)[Len(s) + 1] = n
OBVIOUS

\* A counted request joins both.
LEMMA AppendKeepsSuffix ==
  ASSUME NEW s, NEW w, NEW c, NEW n \in Int, Suffix(w, s, c)
  PROVE  Suffix(Append(w, n), Append(s, n), c)
<1>1. w \in Seq(Int) /\ s \in Seq(Int)
  BY DEF Suffix
<1> DEFINE w2 == Append(w, n)
           s2 == Append(s, n)
<1>2. /\ w2 \in Seq(Int) /\ Len(w2) = Len(w) + 1 /\ Len(w) \in Nat
      /\ \A i \in 1..Len(w) : w2[i] = w[i]
      /\ w2[Len(w) + 1] = n
  BY <1>1, AppendFacts
<1>3. /\ s2 \in Seq(Int) /\ Len(s2) = Len(s) + 1 /\ Len(s) \in Nat
      /\ \A i \in 1..Len(s) : s2[i] = s[i]
      /\ s2[Len(s) + 1] = n
  BY <1>1, AppendFacts
<1> HIDE DEF w2, s2
<1>4. Len(w) <= Len(s)
  BY DEF Suffix
<1>5. ASSUME NEW i \in 1..Len(w2) PROVE w2[i] = s2[Len(s2) - Len(w2) + i]
  <2>0. i \in Int /\ 1 <= i /\ i <= Len(w) + 1
    BY <1>2
  <2>1. CASE i = Len(w) + 1
    <3>1. Len(s2) - Len(w2) + i = Len(s) + 1
      BY <1>2, <1>3, <1>4, <2>1
    <3> QED
      BY <1>2, <1>3, <2>1, <3>1
  <2>2. CASE i <= Len(w)
    <3>1. i \in 1..Len(w)
      BY <1>2, <2>0, <2>2
    <3>2. w2[i] = w[i] /\ w[i] = s[Len(s) - Len(w) + i]
      BY <1>2, <3>1 DEF Suffix
    <3>3. Len(s2) - Len(w2) = Len(s) - Len(w) /\ Len(s) - Len(w) + i \in 1..Len(s)
      BY <1>2, <1>3, <1>4, <3>1
    <3> QED
      BY <1>3, <3>2, <3>3
  <2> QED
    BY <1>2, <2>0, <2>1, <2>2
<1>6. ASSUME NEW i \in 1..(Len(s2) - Len(w2)) PROVE s2[i] <= c
  <2>1. i \in 1..(Len(s) - Len(w)) /\ i \in 1..Len(s)
    BY <1>2, <1>3, <1>4
  <2> QED
    BY <1>3, <2>1 DEF Suffix
<1>7. Suffix(w2, s2, c)
  BY <1>2, <1>3, <1>4, <1>5, <1>6 DEF Suffix
<1> QED
  BY <1>7 DEF w2, s2

\* The oldest entries of w may leave if they are old.
LEMMA ShiftKeepsSuffix ==
  ASSUME NEW s, NEW w, NEW c, Suffix(w, s, c), NEW k \in 0..Len(w), \A i \in 1..k : w[i] <= c
  PROVE  Suffix(SubSeq(w, k + 1, Len(w)), s, c)
<1> DEFINE p == SubSeq(w, k + 1, Len(w))
<1>1. w \in Seq(Int) /\ s \in Seq(Int) /\ Len(w) \in Nat /\ Len(s) \in Nat /\ Len(w) <= Len(s)
  BY DEF Suffix
<1>2. p \in Seq(Int) /\ Len(p) = Len(w) - k /\ \A i \in 1..Len(p) : p[i] = w[k + i]
  BY <1>1
<1> HIDE DEF p
<1>3. ASSUME NEW i \in 1..Len(p) PROVE p[i] = s[Len(s) - Len(p) + i]
  <2>1. k + i \in 1..Len(w) /\ Len(s) - Len(w) + (k + i) = Len(s) - Len(p) + i
    BY <1>1, <1>2
  <2> QED
    BY <1>2, <2>1 DEF Suffix
<1>4. ASSUME NEW i \in 1..(Len(s) - Len(p)) PROVE s[i] <= c
  <2>1. CASE i \in 1..(Len(s) - Len(w))
    BY <2>1 DEF Suffix
  <2>2. CASE i > Len(s) - Len(w)
    <3> DEFINE j == i - (Len(s) - Len(w))
    <3>1. j \in 1..k /\ j \in 1..Len(w) /\ Len(s) - Len(w) + j = i
      BY <1>1, <1>2, <2>2
    <3> HIDE DEF j
    <3>2. w[j] = s[i]
      BY <3>1 DEF Suffix
    <3> QED
      BY <3>1, <3>2
  <2> QED
    BY <1>1, <2>1, <2>2
<1>5. Suffix(p, s, c)
  BY <1>1, <1>2, <1>3, <1>4 DEF Suffix
<1> QED
  BY <1>5 DEF p

\* A request counted now has at most b - 1 others within the last m.
LEMMA AppendKeepsBudget ==
  ASSUME NEW s, NEW w, NEW n \in Int, NEW m \in Nat, NEW b \in Nat \ {0}, Suffix(w, s, n - m), Len(w) < b,
         \A i \in 1..(Len(s) - b) : s[i + b] >= s[i] + m
  PROVE  \A i \in 1..(Len(Append(s, n)) - b) : Append(s, n)[i + b] >= Append(s, n)[i] + m
<1> DEFINE s2 == Append(s, n)
<1>1. s \in Seq(Int) /\ Len(w) \in Nat /\ Len(s) \in Nat
  BY DEF Suffix
<1>2. /\ s2 \in Seq(Int) /\ Len(s2) = Len(s) + 1
      /\ \A i \in 1..Len(s) : s2[i] = s[i] /\ s[i] \in Int
      /\ s2[Len(s) + 1] = n
  BY <1>1, AppendFacts
<1> HIDE DEF s2
<1>3. ASSUME NEW i \in 1..(Len(s2) - b) PROVE s2[i + b] >= s2[i] + m
  <2>1. CASE i + b <= Len(s)
    <3>1. i \in 1..(Len(s) - b) /\ i \in 1..Len(s) /\ i + b \in 1..Len(s)
      BY <1>1, <1>2, <2>1
    <3> QED
      BY <1>2, <3>1
  <2>2. CASE i + b = Len(s) + 1
    <3>1. i \in 1..(Len(s) - Len(w)) /\ i \in 1..Len(s)
      BY <1>1, <1>2, <2>2
    <3>2. s[i] <= n - m
      BY <3>1 DEF Suffix
    <3>3. s2[i + b] = n /\ s2[i] = s[i] /\ s[i] \in Int
      BY <1>2, <2>2, <3>1
    <3> QED
      BY <3>2, <3>3
  <2>3. i + b <= Len(s) \/ i + b = Len(s) + 1
    <3>1. i \in 1..(Len(s) + 1 - b)
      BY <1>2
    <3>2. b \in Nat /\ Len(s) \in Nat
      BY <1>1
    <3> QED
      BY ONLY <3>1, <3>2
  <2> QED
    BY <2>1, <2>2, <2>3
<1> QED
  BY <1>3 DEF s2

\* The window is the end of sent: what has left it is a minute old.
LimiterInv == now \in Int /\ Suffix(window, sent, now - Minute) /\ BudgetKept

LEMMA PrunedIsSuffix == ASSUME LimiterInv PROVE Suffix(Pruned(window), sent, now - Minute)
<1> DEFINE Old == {n \in 0..Len(window) : \A i \in 1..n : window[i] <= now - Minute}
           old == Max(Old)
<1>1. Len(window) \in Nat
  BY DEF LimiterInv, Suffix
<1>2. old \in Old
  <2>1. Old \in SUBSET Nat /\ 0 \in Old /\ \A n \in Old : n <= Len(window)
    BY <1>1
  <2> QED
    BY <1>1, <2>1, MaxOfBounded
<1>3. old \in 0..Len(window) /\ \A i \in 1..old : window[i] <= now - Minute
  BY <1>2
<1>4. Pruned(window) = SubSeq(window, old + 1, Len(window))
  BY DEF Pruned
<1> HIDE DEF old
<1> QED
  BY <1>3, <1>4, ShiftKeepsSuffix DEF LimiterInv

LEMMA RecordKeeps ==
  ASSUME LimiterInv, NEW u, ~Known(u), Len(Pruned(window)) < MaxPerMinute, Record(u), now' = now
  PROVE  LimiterInv'
<1>1. window' = Append(Pruned(window), now) /\ sent' = Append(sent, now)
  BY DEF Record
<1>2. Suffix(Pruned(window), sent, now - Minute) /\ now \in Int
  BY PrunedIsSuffix DEF LimiterInv
<1>3. Suffix(window, sent, now - Minute)'
  BY <1>1, <1>2, AppendKeepsSuffix
<1>4. MaxPerMinute \in Nat \ {0} /\ Minute \in Nat
  BY LimiterAssumption
<1>5. \A i \in 1..(Len(sent) - MaxPerMinute) : sent[i + MaxPerMinute] >= sent[i] + Minute
  BY DEF LimiterInv, BudgetKept
<1>6. BudgetKept'
  BY <1>1, <1>2, <1>4, <1>5, AppendKeepsBudget DEF BudgetKept
<1> QED
  BY <1>2, <1>3, <1>6 DEF LimiterInv

LEMMA LimiterInit0 == Init => LimiterInv
BY LimiterAssumption DEF Init, LimiterInit, LimiterInv, Suffix, BudgetKept

LEMMA LimiterTryFetch ==
  ASSUME LimiterInv, NEW t, TryFetch(t), now' = now PROVE LimiterInv'
<1>1. CASE UNCHANGED <<window, sent>>
  BY <1>1 DEF LimiterInv, BudgetKept
<1>2. CASE NoSlot
  BY <1>2, PrunedIsSuffix DEF NoSlot, LimiterInv, BudgetKept
<1>3. CASE CanFetch(url[t]) /\ Record(url[t])
  <2>1. CASE Known(url[t])
    BY <1>1, <1>3, <2>1 DEF Record
  <2>2. CASE ~Known(url[t])
    BY <1>3, <2>2, RecordKeeps DEF CanFetch
  <2> QED
    BY <2>1, <2>2
<1> QED
  BY <1>1, <1>2, <1>3 DEF TryFetch

LEMMA LimiterStep == LimiterInv /\ [Next]_vars => LimiterInv'
<1> SUFFICES ASSUME LimiterInv, [Next]_vars PROVE LimiterInv'
  OBVIOUS
<1>1. ASSUME UNCHANGED <<now, window, sent>> PROVE LimiterInv'
  BY <1>1 DEF LimiterInv, BudgetKept
<1>2. ASSUME NEW t \in Tiles, RetryFires(t) PROVE LimiterInv'
  BY <1>2, LimiterTryFetch DEF RetryFires
<1>3. ASSUME NEW t \in Tiles, Continue(t) PROVE LimiterInv'
  BY <1>1, <1>3, LimiterTryFetch DEF Continue, limiter
<1>4. CASE TimePasses
  <2>1. now' = now + 1 /\ UNCHANGED <<window, sent>>
    BY <1>4 DEF TimePasses, Tick
  <2>2. now \in Int /\ Minute \in Nat /\ Suffix(window, sent, now - Minute) /\ Len(window) \in Nat
    BY LimiterAssumption DEF LimiterInv, Suffix
  <2>3. \A i \in 1..(Len(sent) - Len(window)) : sent[i] \in Int /\ sent[i] <= now + 1 - Minute
    BY <2>2 DEF Suffix
  <2>4. Suffix(window, sent, now + 1 - Minute)
    BY <2>2, <2>3 DEF Suffix
  <2> QED
    BY <2>1, <2>2, <2>4 DEF LimiterInv, BudgetKept
<1>5. ASSUME NEW t \in Tiles, NEW u \in Urls, NEW l \in BOOLEAN, Create(t, u, l) PROVE LimiterInv'
  BY <1>1, <1>5 DEF Create, limiter
<1>6. ASSUME NEW t \in Tiles, Cancel(t) PROVE LimiterInv'
  BY <1>1, <1>6 DEF Cancel, limiter
<1>7. ASSUME NEW u \in Urls, StoreAnswers(u) \/ LookupTimesOut(u) \/ MemoForgets(u) \/ StoreForgets(u)
      PROVE  LimiterInv'
  BY <1>1, <1>7 DEF StoreAnswers, LookupTimesOut, MemoForgets, StoreForgets, limiter
<1>8. ASSUME NEW d \in Downloads, DownloadArrives(d) \/ DownloadFails(d) \/ AbortSettles(d) PROVE LimiterInv'
  BY <1>1, <1>8 DEF DownloadArrives, DownloadFails, AbortSettles, limiter
<1>9. CASE PhaseAdvances \/ UNCHANGED vars
  BY <1>1, <1>9 DEF PhaseAdvances, vars, limiter
<1> QED
  BY <1>2, <1>3, <1>4, <1>5, <1>6, <1>7, <1>8, <1>9 DEF Next, Event

-----------------------------------------------------------------------------
(* The theorems.                                                           *)

Inv == Part1 /\ Callers /\ Content

LEMMA InvInit == Init => Inv
<1> SUFFICES ASSUME Init PROVE Inv
  OBVIOUS
<1>1. Part1
  BY Part1Init
<1>2. Callers
  BY DEF Init, Callers
<1>3. SinceTyped
  BY DEF Init, SinceTyped, FirstPhase
<1>4. PersistsFixed /\ FinalLoads /\ FoundIsFinal /\ FinalGetsFinal
  BY DEF Init, PersistsFixed, FinalLoads, FoundIsFinal, FinalGetsFinal
<1>5. KeptIsFinal
  BY DEF Init, KeptIsFinal, NoCopy
<1> QED
  BY <1>1, <1>2, <1>3, <1>4, <1>5 DEF Inv, Content

LEMMA InvAlways == Spec => []Inv
<1>1. Inv /\ [Next]_vars => Inv'
  BY Part1Step, CallersStep, ContentStep DEF Inv
<1> QED
  BY <1>1, InvInit, PTL DEF Spec

\* Nothing that could still change is kept as final, in memory or in the store
\* (storeTile, memoSet).
THEOREM KeptFinal == Spec => []KeptIsFinal
<1>1. Inv => KeptIsFinal
  BY DEF Inv, Content
<1> QED
  BY <1>1, InvAlways, PTL

\* A tile whose request counts as final is never shown anything else
\* (isFinalRequest, shareKeyFor, memoGet).
THEOREM ShownFinal == Spec => []FinalGetsFinal
<1>1. Inv => FinalGetsFinal
  BY DEF Inv, Content
<1> QED
  BY <1>1, InvAlways, PTL

\* Both: only final content is kept or shown as final.
THEOREM FinalTheorem == Spec => []OnlyFinal
<1>1. KeptIsFinal /\ FinalGetsFinal => OnlyFinal
  BY DEF OnlyFinal
<1> QED
  BY <1>1, KeptFinal, ShownFinal, PTL

\* Each URL has at most one running download per kind, the one others join
\* (sharedFetch).
THEOREM OneRunning == Spec => []OneDownload
<1>1. Inv => OneDownload
  BY DEF Inv, Part1, Wired
<1> QED
  BY <1>1, InvAlways, PTL

\* A download runs exactly as long as a tile waits for it (detach).
THEOREM RunsForCallers == Spec => []RunsWhileWanted
<1>1. Inv => RunsWhileWanted
  BY DEF Inv, Callers, RunsWhileWanted
<1> QED
  BY <1>1, InvAlways, PTL

\* Both: the callers of a URL share one download, for as long as one of them waits.
THEOREM SharedTheorem == Spec => []OneSharedDownload
<1>1. OneDownload /\ RunsWhileWanted => OneSharedDownload
  BY DEF OneSharedDownload
<1> QED
  BY <1>1, OneRunning, RunsForCallers, PTL

\* No more than MaxPerMinute counted requests begin in any minute (canFetch,
\* record), whatever the tiles do.
THEOREM WithinBudget == Spec => []BudgetKept
<1>1. LimiterInv => BudgetKept
  BY DEF LimiterInv
<1> QED
  BY <1>1, LimiterInit0, LimiterStep, PTL DEF Spec
=============================================================================
