---------------------------- MODULE BatchPromise ----------------------------
(***************************************************************************)
(* What a verification batch promises its user, without processes, files   *)
(* or a lock: every case has a list of attempts; an attempt is entered     *)
(* before it is performed, is performed at most once, and gets one final   *)
(* outcome or stays in doubt; a case is attempted again only after a known *)
(* failure or cancellation; and while the outcome of any attempt is        *)
(* unknown, no new attempt starts anywhere in the batch.                   *)
(***************************************************************************)
EXTENDS Naturals, Sequences

CONSTANTS Cases, MaxAttempts

VARIABLES
  ledger,      \* ledger[c]: the statuses of the attempts of case c
  performed    \* the attempts <<c, n>> whose work was started

promiseVars == <<ledger, performed>>

Final   == {"succeeded", "failed", "cancelled"}
Doubted == {"running", "unconfirmed"}

Latest(c) == ledger[c][Len(ledger[c])]
InDoubt(c) == ledger[c] # <<>> /\ Latest(c) \in Doubted

PromiseInit ==
  /\ ledger = [c \in Cases |-> <<>>]
  /\ performed = {}

\* A new attempt is entered.
Enter(c) ==
  /\ \A d \in Cases : ~InDoubt(d)
  /\ ledger[c] = <<>> \/ Latest(c) \in {"failed", "cancelled"}
  /\ Len(ledger[c]) < MaxAttempts
  /\ ledger' = [ledger EXCEPT ![c] = Append(@, "running")]
  /\ UNCHANGED performed

\* Its work is started, once.
Perform(c) ==
  /\ ledger[c] # <<>> /\ Latest(c) = "running"
  /\ <<c, Len(ledger[c])>> \notin performed
  /\ performed' = performed \cup {<<c, Len(ledger[c])>>}
  /\ UNCHANGED ledger

\* The outcome of performed work becomes known, now or after an inspection.
Settle(c, status) ==
  /\ InDoubt(c)
  /\ <<c, Len(ledger[c])>> \in performed
  /\ ledger' = [ledger EXCEPT ![c][Len(ledger[c])] = status]
  /\ UNCHANGED performed

\* The outcome is not known.
Question(c) ==
  /\ InDoubt(c)
  /\ ledger' = [ledger EXCEPT ![c][Len(ledger[c])] = "unconfirmed"]
  /\ UNCHANGED performed

PromiseNext ==
  \E c \in Cases : \/ Enter(c) \/ Perform(c) \/ Question(c)
                   \/ \E status \in Final : Settle(c, status)

PromiseSpec == PromiseInit /\ [][PromiseNext]_promiseVars
=============================================================================
