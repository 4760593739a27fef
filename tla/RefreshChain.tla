---------------------------- MODULE RefreshChain ----------------------------
(***************************************************************************)
(* What a data overlay of the card promises about its refreshes, whatever  *)
(* it fetches: at most one refresh at a time, none begun while the card is *)
(* hidden, and none missing for ever.  The alerts and the wildfire layer   *)
(* both implement it (modules NwsAlerts and Wildfire).                     *)
(***************************************************************************)

VARIABLES
  phase,   \* "running" while a refresh is in flight, "waiting" between two
  hidden   \* the card is off-screen or in a background tab

vars == <<phase, hidden>>

\* start() fetches at once.
Init == phase = "running" /\ hidden = FALSE

\* The next refresh begins, never while the card is hidden.
Begin == phase = "waiting" /\ ~hidden /\ phase' = "running" /\ UNCHANGED hidden

\* A refresh ends, also one the card was hidden during.
End == phase = "running" /\ phase' = "waiting" /\ UNCHANGED hidden

Hide == ~hidden /\ hidden' = TRUE /\ UNCHANGED phase

\* A refresh that came due while the card was hidden begins as it is shown.
Show ==
  /\ hidden /\ hidden' = FALSE
  /\ phase' = phase \/ (phase = "waiting" /\ phase' = "running")

Stop == phase # "off" /\ phase' = "off" /\ UNCHANGED hidden

Next == Begin \/ End \/ Hide \/ Show \/ Stop

\* A card that is shown again and again refreshes, however short the times
\* it is shown for: "a card shown 50 s and hidden 50 s in turn".
Refreshes == <>[]hidden \/ []<>(phase # "waiting")

Safe == Init /\ [][Next]_vars
Spec == Safe /\ Refreshes

=============================================================================
