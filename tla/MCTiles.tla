------------------------------- MODULE MCTiles -------------------------------
(***************************************************************************)
(* Instances of TileFetch and of TileShare for TLC.  TileFetch follows the  *)
(* tiles of the frames to the network and back, TileShare what happens      *)
(* where tiles of one URL meet; the one sees a shared download as any       *)
(* other.  They are checked one at a time: part names the one a behaviour   *)
(* is of, and the variables of the other keep a first value.                *)
(***************************************************************************)
EXTENDS TileFetch, TileShare

CONSTANTS t1, t2, d1, d2, d3

VARIABLE part

TwoTiles == {t1, t2}
ThreeDownloads == {d1, d2, d3}
Alike == Permutations(TwoTiles)

\* Both frames are loaded, and the map may show a second tile of each.
BothLoaded == <<0, 1>>
OneOrTwo == {{"a"}, {"a", "b"}}

InitPart ==
  \/ part = "fetch" /\ InitFetch /\ Init /\ ~pinned
  \/ part = "share" /\ Init /\ InitFetch /\ view = {"a"}

NextPart ==
  /\ UNCHANGED part
  /\ \/ part = "fetch" /\ NextFetch /\ UNCHANGED vars
     \/ part = "share" /\ Next /\ UNCHANGED fetchVars

\* What TLC tells states apart by: of a download not its name, and once it is
\* aborted only who waits for it; of a tile what its next steps look at, and once
\* it has its bytes whether it has what it asked for.
Settled(t) == at[t] \in {"found", "shown", "failed"}
Tile(t) == <<at[t], IF Settled(t) THEN need[t] => got[t] = "final"
                    ELSE <<url[t], persists[t], at[t] # "slot" /\ need[t]>> >>
Download(d) == <<run[d], {t \in Tiles : on[t] = d},
                 IF run[d] = "aborted" THEN {}
                 ELSE <<key[d], since[d], waiters[d], inflight[key[d]] = d>> >>
Begun == {d \in Downloads : run[d] # "free"}
ShareNow == <<limiter, frame, [t \in Tiles |-> Tile(t)], copies,
              {Download(d) : d \in Begun}, Cardinality(Begun)>>

\* The frames are alike but for when they are shown next.
Layer(l) == <<stage[l], tries[l], leaving[l], pending[l], hold[l], ready[l], loading[l]>>
FetchNow == <<view, planned, [k \in 0..Slots - 1 |-> Layer(LoadedSlots[((cursor + k) % Slots) + 1])]>>

Now == <<part, IF part = "fetch" THEN FetchNow ELSE ShareNow>>

SpecPart == InitPart /\ [][NextPart]_<<part, vars, fetchVars>>
==============================================================================
