---------------------------- MODULE BatchJournal ----------------------------
(***************************************************************************)
(* The data of a verification batch: what the journal                      *)
(* (.skilltape/batch-state.json) holds, which journals validate, how the   *)
(* evidence files of one attempt are audited against it, and what a review *)
(* reports.  Everything here is an operator without state; the processes   *)
(* that read and write the journal are in module Batch.                    *)
(*                                                                         *)
(* A SHA-256 digest is represented by the value it is a digest of: two     *)
(* digests are equal exactly when the contents are.                        *)
(***************************************************************************)
EXTENDS Naturals, Sequences

CONSTANTS
  NumCases,      \* cases of the plan, run in index order
  MaxAttempts,   \* MAX_BATCH_ATTEMPTS
  Digests,       \* contents a frozen folder (Skill or inputs) can have
  Package,       \* digest of the Skill frozen by batch prepare
  BaseInput,     \* BaseInput[c]: digest of the inputs frozen by batch prepare
  None,          \* an absent optional value or file
  Damaged        \* a file that no longer parses or binds

Cases          == 1 .. NumCases
AttemptNumbers == 1 .. MaxAttempts
Generations    == 0 .. MaxAttempts

\* Names a receipt, a context and a delivery: the id "<case>-a<number>".
AttemptIds == Cases \X AttemptNumbers

ASSUME ConstantsAssumption ==
  /\ NumCases \in Nat \ {0}
  /\ MaxAttempts \in Nat \ {0}
  /\ Package \in Digests
  /\ BaseInput \in [Cases -> Digests]
  /\ None \notin Digests /\ Damaged \notin Digests
  /\ None # Damaged

Known   == {"succeeded", "failed", "cancelled"}   \* outcomes a receipt can state
Unknown == {"running", "unconfirmed"}
Statuses == {"pending"} \cup Known \cup Unknown

\* An absent value is not an outcome.
ASSUME AbsentAssumption == None \notin Known

\* One verification produces a receipt and a context that binds it.  The run id
\* is itself a digest of the Skill, the inputs and the assertions: verifying the
\* same materials again gives the same id, and here the same receipt.
Receipts   == [skill : Digests, input : Digests, status : Known]
Contexts   == [receipt : Receipts, input : Digests]
\* delivery.json binds the receipt; "whole" is false once a delivered artifact
\* differs from what delivery.json declares.
Deliveries == [receipt : Receipts, whole : BOOLEAN]

\* A file of evidence is its contents, absent, or damaged.
File(contents) == contents \cup {None, Damaged}
Readable(file) == file \notin {None, Damaged}

Attempts ==
  [number : AttemptNumbers, status : Statuses, input : Digests, generation : Generations,
   receipt : Receipts \cup {None}, context : Contexts \cup {None}, delivery : Receipts \cup {None}]

CaseStates == [input : Digests, generation : Generations, attempts : Seq(Attempts)]
Journals   == [Cases -> CaseStates]

Count(case)     == Len(case.attempts)
LastOf(case)    == case.attempts[Count(case)]
WithLast(case, attempt) ==
  [case EXCEPT !.attempts = [@ EXCEPT ![Count(case)] = attempt]]

\* The case a retry with new inputs leaves: they are its next generation.
StaleDigest(case, generation, input) == [case EXCEPT !.generation = generation]   \* mutant
WithInput(case, generation, input) == [case EXCEPT !.generation = generation, !.input = input]

\* The status of a case: its latest attempt's, pending before the first.
CaseStatus(case) == IF case.attempts = <<>> THEN "pending" ELSE LastOf(case).status

\* Cases whose latest outcome a review or a reconciliation holds to its evidence.
AnyAttempt(case) == case.attempts # <<>>   \* mutant
Settled(case) == CaseStatus(case) \in Known

-----------------------------------------------------------------------------
\* The journal written by batch prepare.
FreshJournal == [c \in Cases |-> [input |-> BaseInput[c], generation |-> 0, attempts |-> <<>>]]

\* BatchState::validate, one attempt at index i of a case.
ValidAttempt(case, i) ==
  LET attempt == case.attempts[i] IN
  /\ attempt.number = i
  /\ attempt.status # "pending"
  /\ attempt.status = "succeeded" =>
       None \notin {attempt.receipt, attempt.context, attempt.delivery}
  /\ attempt.status \in {"failed", "cancelled"} =>
       None \notin {attempt.receipt, attempt.context}
  /\ i < Count(case) => attempt.status \in {"failed", "cancelled"}

ValidCase(case) ==
  /\ case.generation <= MaxAttempts
  /\ Count(case) <= MaxAttempts
  /\ \A i \in DOMAIN case.attempts : ValidAttempt(case, i)
  /\ case.attempts # <<>> =>
       LastOf(case).input = case.input /\ LastOf(case).generation = case.generation

ValidJournal(journal) == \A c \in Cases : ValidCase(journal[c])

-----------------------------------------------------------------------------
(***************************************************************************)
(* The audit of one attempt against its files.  Found is the attempt with  *)
(* the outcome and the digests the files state, Audits whether the files   *)
(* bind each other, the case and what the journal already recorded.  Only  *)
(* a physical audit opens the delivered artifacts.                         *)
(***************************************************************************)
CancelledAsFailed(receipt) ==   \* mutant
  IF receipt.status = "cancelled" THEN "failed" ELSE receipt.status
StatusOf(receipt) == receipt.status

Found(attempt, receipt, context, delivery) ==
  [attempt EXCEPT
     !.status   = StatusOf(receipt),
     !.receipt  = receipt,
     !.context  = context,
     !.delivery = IF receipt.status = "succeeded" THEN delivery.receipt ELSE @]

Unchanged(recorded, found) == recorded \in {None, found}

Audits(attempt, receipt, context, delivery, physical) ==
  /\ Readable(receipt)
  /\ Readable(context)
  /\ context.receipt = receipt
  /\ receipt.skill = Package
  /\ context.input = attempt.input
  /\ receipt.status = "succeeded" =>
       /\ Readable(delivery)
       /\ delivery.receipt = receipt
       /\ physical => delivery.whole
  /\ LET found == Found(attempt, receipt, context, delivery) IN
       /\ Unchanged(attempt.receipt, found.receipt)
       /\ Unchanged(attempt.context, found.context)
       /\ Unchanged(attempt.delivery, found.delivery)
       /\ attempt.status \in Known => attempt.status = found.status

-----------------------------------------------------------------------------
\* BatchState::review: the status of the batch, from the journal alone.
AllFinished(journal) ==   \* mutant
  IF \A c \in Cases : CaseStatus(journal[c]) \in Known THEN "complete" ELSE "partial"
JournalStatus(journal) ==
  LET some(statuses) == \E c \in Cases : CaseStatus(journal[c]) \in statuses IN
  IF ~some(Statuses \ {"succeeded"}) THEN "complete"
  ELSE IF some(Unknown) THEN "unconfirmed"
  ELSE IF ~some(Statuses \ {"pending"}) THEN "pending"
  ELSE "partial"

\* With the cases whose saved evidence no longer audits, the batch is unconfirmed.
WithoutAudit(journal, changed) == JournalStatus(journal)   \* mutant
ReviewStatus(journal, changed) ==
  IF changed # {} THEN "unconfirmed" ELSE JournalStatus(journal)
=============================================================================
