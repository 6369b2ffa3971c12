------------------------------ MODULE BatchInv ------------------------------
(***************************************************************************)
(* The inductive invariant of Batch: why an attempt runs once and why a    *)
(* recorded outcome is the real one, for any number of processes, cases    *)
(* and attempts, crashes and outside edits.                                *)
(***************************************************************************)
EXTENDS Batch

\* Labels at which the process works on an attempt it has entered.
InAttempt == {"verify", "running", "deliver", "receipt", "context", "record", "doubt"}
\* ... whose verification has ended with a receipt.
HasReceipt == {"deliver", "receipt", "context", "record"}
\* ... and has not written that receipt.
Unwritten == {"verify", "running", "deliver", "receipt"}

\* A process is past load only with the lock, a copy of the journal that differs
\* from it at most by inputs a retry froze, and a position that fits its label.
ControlInv ==
  \A p \in Procs :
    /\ pc[p] # "idle" <=> lock = p
    /\ pc[p] # "idle" => job[p] \in Jobs
    /\ pc[p] \notin {"idle", "load"} =>
         /\ mem[p] \in Journals
         /\ \A c \in Cases : /\ mem[p][c].attempts = journal[c].attempts
                             /\ frozen[<<c, mem[p][c].generation>>] \in Digests
    /\ pc[p] \in {"choose", "snapshot", "execute"} \cup InAttempt => cursor[p] \in Cases
    /\ pc[p] = "choose" => job[p].cmd = "retry"
    /\ pc[p] = "snapshot" =>
         /\ job[p].cmd = "retry"
         /\ job[p].input \in Digests
         /\ Count(Current(p)) < MaxAttempts
    /\ pc[p] \in InAttempt =>
         Current(p).attempts # <<>> /\ LastOf(Current(p)).status = "running"
    /\ pc[p] = "running" => held[p] \in Held
    /\ pc[p] \in HasReceipt => held[p] \in Receipts

\* The journal on disk loads, and the inputs it names were frozen.
JournalInv ==
  /\ ValidJournal(journal)
  /\ \A c \in Cases : frozen[<<c, journal[c].generation>>] \in Digests

\* A run is about to start only for an attempt that never ran.
RunsInv ==
  /\ RunsOnce
  /\ \A p \in Procs : At(p, "verify") => runs[CurrentId(p)] = 0

\* A receipt, in memory or on disk, states how the execution ended; until it is
\* written there is none for the attempt.
OutcomeInv ==
  /\ RecordedIsReal
  /\ \A id \in AttemptIds : Readable(receipts[id]) => receipts[id].status = outcome[id]
  /\ \A p \in Procs :
       /\ pc[p] \in HasReceipt => held[p].status = outcome[CurrentId(p)]
       /\ pc[p] \in Unwritten => receipts[CurrentId(p)] = None

IInv == TypeOK /\ ControlInv /\ CopyIsCurrent /\ JournalInv /\ RunsInv /\ OutcomeInv
-----------------------------------------------------------------------------
(* What follows from IInv and is preserved with it: which cases can be in  *)
(* doubt, what an open inspection still knows, and what the files hold     *)
(* while nobody edits the workspace.                                       *)

InDoubt(c) == CaseStatus(journal[c]) \in Unknown

\* A command that starts attempts has settled every case before; only the case
\* whose attempt it makes is in doubt.  An outcome is known only of work that
\* was started.
DoubtInv ==
  /\ \A p \in Procs :
       /\ pc[p] = "reconcile" => \A c \in Cases : InDoubt(c) => c >= cursor[p]
       /\ pc[p] \in {"next", "choose", "snapshot", "execute"} => \A c \in Cases : ~InDoubt(c)
       /\ pc[p] \in InAttempt => \A c \in Cases : InDoubt(c) => c = cursor[p]
       /\ pc[p] \in {"snapshot", "execute"} => CaseStatus(journal[cursor[p]]) # "succeeded"
       /\ pc[p] \in {"running"} \cup HasReceipt => runs[CurrentId(p)] # 0
       /\ pc[p] = "doubt" => receipts[CurrentId(p)] = None
  /\ \A id \in AttemptIds : outcome[id] \in Known => runs[id] # 0

\* What an inspection read is old, but its known outcomes are still the journal's.
ViewInv ==
  \A r \in Readers : view[r] # None =>
    /\ ValidJournal(view[r].snap)
    /\ \A c \in Cases : \A n \in Entries(view[r].snap, c) :
         /\ n \in Entries(journal, c)
         /\ view[r].snap[c].attempts[n].status \in Known =>
              view[r].snap[c].attempts[n] = journal[c].attempts[n]

\* The inputs of an attempt, a case and a copy are the frozen ones.
FrozenInv ==
  /\ InputsAreFrozen
  /\ tampers = 0 =>
       \A p \in Procs : pc[p] \notin {"idle", "load"} =>
         \A c \in Cases : frozen[<<c, mem[p][c].generation>>] = mem[p][c].input

\* Every recorded outcome passes its audit, no unconfirmed one would.
AuditInv ==
  /\ tampers = 0 =>
       \A c \in Cases : \A n \in Entries(journal, c) :
         journal[c].attempts[n].status \in Known => AuditsNow(c, journal[c].attempts[n], TRUE)
  /\ NothingWrittenOff
  /\ NoFalseAlarm

SafeInv == DoubtInv /\ ViewInv /\ FrozenInv /\ AuditInv
=============================================================================
