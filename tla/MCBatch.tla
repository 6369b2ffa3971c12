------------------------------ MODULE MCBatch -------------------------------
(* Instances of Batch for TLC. *)
EXTENDS BatchInv

CONSTANTS d1, d2    \* contents of frozen folders

OneDigest == {d1}
TwoDigests == {d1, d2}
MCBaseInput == [c \in Cases |-> d1]
=============================================================================
