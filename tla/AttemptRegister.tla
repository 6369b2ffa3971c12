-------------------------- MODULE AttemptRegister --------------------------
(***************************************************************************)
(* What the journal of verification attempts promises: a bounded register  *)
(* in which an attempt is entered before it is performed and settled at    *)
(* most once.  A settled attempt that was not performed says so only if    *)
(* that is certain, and one that says a receipt was produced was performed.*)
(***************************************************************************)
EXTENDS Naturals, FiniteSets

CONSTANTS Attempts, Bound

VARIABLES
  entry,      \* of each attempt: absent, open, or how it was settled
  performed   \* was it performed

Settlements == {"receipt_produced", "preparation_failed", "unconfirmed"}

Init ==
  /\ entry = [a \in Attempts |-> "absent"]
  /\ performed = [a \in Attempts |-> FALSE]

Enter(a) ==
  /\ entry[a] = "absent"
  /\ Cardinality({b \in Attempts : entry[b] # "absent"}) < Bound
  /\ entry' = [entry EXCEPT ![a] = "open"]
  /\ UNCHANGED performed

Perform(a) ==
  /\ entry[a] = "open"
  /\ ~performed[a]
  /\ performed' = [performed EXCEPT ![a] = TRUE]
  /\ UNCHANGED entry

Settle(a, how) ==
  /\ entry[a] = "open"
  /\ how = "receipt_produced" => performed[a]
  /\ how = "preparation_failed" => ~performed[a]
  /\ entry' = [entry EXCEPT ![a] = how]
  /\ UNCHANGED performed

Next == \E a \in Attempts : Enter(a) \/ Perform(a) \/ \E how \in Settlements : Settle(a, how)

Spec == Init /\ [][Next]_<<entry, performed>>
=============================================================================
