------------------------------ MODULE TapeLog -------------------------------
(***************************************************************************)
(* What a Tape promises: an append-only list of events, numbered from zero *)
(* without a gap; an event is acknowledged only if it is in the list; and  *)
(* a sealed list never changes again.  No files, locks, crashes or repair. *)
(***************************************************************************)
EXTENDS Naturals, Sequences

CONSTANTS Events

VARIABLES
  log,      \* the events of the Tape
  sealed,   \* it is finished
  acked     \* the events somebody was told are in it

logVars == <<log, sealed, acked>>

LogInit ==
  /\ log = <<>>
  /\ sealed = FALSE
  /\ acked = {}

Add(e) ==
  /\ ~sealed
  /\ e.sequence = Len(log)
  /\ log' = Append(log, e)
  /\ UNCHANGED <<sealed, acked>>

Acknowledge(e) ==
  /\ \E i \in 1 .. Len(log) : log[i] = e
  /\ acked' = acked \cup {e}
  /\ UNCHANGED <<log, sealed>>

\* Sealing may take in one event that was written and not counted yet.
Seal ==
  /\ ~sealed
  /\ sealed' = TRUE
  /\ \/ UNCHANGED log
     \/ \E e \in Events : e.sequence = Len(log) /\ log' = Append(log, e)
  /\ UNCHANGED acked

LogNext == Seal \/ \E e \in Events : Add(e) \/ Acknowledge(e)

LogSpec == LogInit /\ [][LogNext]_logVars
=============================================================================
