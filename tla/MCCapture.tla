----------------------------- MODULE MCCapture ------------------------------
(* Instances of Capture for TLC. *)
EXTENDS CaptureInv

CONSTANT a      \* the content of a file

\* Some files are there, and at least one is not.
MCWorkspaces == {[p \in Paths |-> IF p = 1 THEN Absent ELSE a]}
=============================================================================
