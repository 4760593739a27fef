------------------------- MODULE MCPlayerLifecycle -------------------------
(* PlayerLifecycle on a small instance.                                    *)
EXTENDS PlayerLifecycle, TLC

CONSTANTS u1, u2, s1, t1, t2

MCUpdateSlots == {u1, u2}
MCShiftSlots == {s1}
MCTimerIds == {t1, t2}
Slots == Permutations({u1, u2}) \cup Permutations({t1, t2})
=============================================================================
