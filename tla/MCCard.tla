------------------------------- MODULE MCCard -------------------------------
(***************************************************************************)
(* Instances for TLC of Card, and of Wind for the two overlays that share   *)
(* their data.  They are checked one at a time: part names the one a        *)
(* behaviour is of, and the variables of the other keep a first value.      *)
(***************************************************************************)
EXTENDS Card, Wind, TLC

VARIABLE part

\* The card compares speeds and no more.
AnySpeed == Permutations(Speeds)

OneOfTwo == <<{}, {"wind"}>>

CardOff == /\ Init
           /\ card.want.rest = 1 /\ config[El] = None
           /\ \A n \in Nonces : \A k \in DOMAIN record[n] : record[n][k] = None
WindOff == InitWind /\ map.view = "here" /\ ~preload /\ ~reduced

\* The card twice: with one speed, an overlay and one call under way at most; and
\* with two speeds, no overlay and MaxCalls calls, on a page that is never hidden.
InitPart ==
  \/ part = "overlays" /\ Init /\ WindOff
     /\ \A n \in Nonces : record[n]["speed"] = None
  \/ part = "speeds" /\ Init /\ WindOff
     /\ card.want.rest = 1 /\ \A n \in Nonces : record[n]["wind"] = None
  \/ part = "wind" /\ InitWind /\ CardOff

NextPart ==
  /\ UNCHANGED part
  /\ \/ part = "overlays" /\ Next /\ UNCHANGED windVars
        /\ V!CallsUnderWay' <= 1 /\ card'.speed = card.speed /\ card'.want.speed = card.want.speed
     \/ part = "speeds" /\ Next /\ UNCHANGED windVars
        /\ ~tabHidden' /\ ~card'.observed /\ card'.want.rest = 1
     \/ part = "wind" /\ NextWind /\ UNCHANGED cardVars

SpecPart == InitPart /\ [][NextPart]_<<part, cardVars, windVars>>

\* What TLC tells states apart by.  Of the viewer state the history is left out.
CallsMade == [i \in DOMAIN calls |-> [calls[i] EXCEPT !.free = {}]]
\* A card without a map has nothing that is hidden, and the map it gets next is
\* built anew.  Its speed counts while no choice is owed to it, as all that ends the
\* time it does not loads the speed again.
Bare == [card EXCEPT !.hidden = FALSE, !.offScreen = FALSE, !.missed = FALSE,
                     !.built = card.want.rest]
CardNow == <<[IF card.map THEN card ELSE Bare EXCEPT
                !.speed = IF AtRest /\ Active(Mine) THEN @ ELSE None],
             tabHidden, config, owner, vs, record, CallsMade, answers>>

\* Of the wind, requests count by what they are of, not by their number, and of
\* the cache what a key of this half hour can find.  The comparison makes TLC
\* evaluate the two functions, which it puts off otherwise.
Request(r) == [wind.reqs[r] EXCEPT !.key = <<@, wind.cache[@] # Nothing /\ wind.cache[@].req = r>>]
Entry(k) == IF wind.cache[k] = Nothing THEN Nothing ELSE wind.cache[k].grid

\* What ends the time in which an overlay is paused, waits or the map moves asks
\* for its data anew.
Overlay(o) == IF o.paused \/ o.due \/ o.debounce \/ map.moving
              THEN [o EXCEPT !.grid = Nothing, !.last = "none"] ELSE o

WindNow == <<slice, map, preload, hidden, reduced, Overlay(wind.arrows), Overlay(wind.flow),
             {Request(r) : r \in {q \in Ids : wind.reqs[q] # Free}}, HasRoom, wind.reqs = wind.cache,
             {<<k, Entry(k)>> : k \in {j \in Keys : j.slice \in {Nothing, slice} /\ wind.cache[j] # Nothing}}>>

Now == IF part # "wind" THEN <<part, CardNow, wind.reqs = wind.cache>> ELSE <<part, WindNow>>
=============================================================================
