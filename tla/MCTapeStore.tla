---------------------------- MODULE MCTapeStore -----------------------------
(* Instances of TapeStore for TLC. *)
EXTENDS TapeInv, TLC

\* Writers are interchangeable, and so are the bodies of events.
MCSymmetry == Permutations(Writers) \cup Permutations(Bodies)
=============================================================================
