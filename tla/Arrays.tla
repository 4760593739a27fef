------------------------------- MODULE Arrays -------------------------------
(***************************************************************************)
(* The arrays of src/src/radar-player.ts: what filter leaves of one, for    *)
(* the frames' numbers (FrameLoop) and the per-frame arrays (Motion).       *)
(***************************************************************************)
EXTENDS Naturals, Sequences, FiniteSets

\* A set of numbers as an ascending sequence.
Ascending(S) == [k \in 1..Cardinality(S) |-> CHOOSE x \in S : Cardinality({y \in S : y <= x}) = k]

\* The entries of a sequence that are in S, in their order (filter).
Kept(seq, S) ==
  LET at == Ascending({k \in DOMAIN seq : seq[k] \in S})
  IN  [k \in DOMAIN at |-> seq[at[k]]]
=============================================================================
