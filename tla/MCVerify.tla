------------------------------ MODULE MCVerify ------------------------------
(* Instances of the commands and of Console for TLC. *)
EXTENDS VerifyConsole

CONSTANTS x, y     \* two places for evidence

Ask(j, r, c, d) == [journal |-> j, receipt |-> r, context |-> c, delivery |-> d]

\* Everything at once, the evidence crosswise, a delivery without a journal, and one document.
MCOffered == {Ask(TRUE, x, y, TRUE), Ask(TRUE, y, x, FALSE), Ask(FALSE, None, x, TRUE),
              Ask(TRUE, x, x, FALSE)}
=============================================================================
