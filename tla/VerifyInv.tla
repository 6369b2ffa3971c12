----------------------------- MODULE VerifyInv -----------------------------
(* What verify promises, and the inductive invariant from which it follows. *)
EXTENDS Verify

\* Where the attempt of each command stands in the journal, and whose run the journal covers.
Entries   == [p \in Procs |-> IF finished[p] # None THEN finished[p].outcome
                              ELSE IF started[p] THEN "open" ELSE "absent"]
Performed == [p \in Procs |-> ran[p] /\ request[p].journal]

Register == INSTANCE AttemptRegister WITH
  Attempts <- Procs, Bound <- MaxAttempts, entry <- Entries, performed <- Performed

\* The journal is a register of attempts: an attempt is entered before its run begins, is settled
\* once, and no two commands enter more attempts than the directory may hold.
KeepsRegister == Register!Spec

EvidenceOf(p, kind) == [by |-> p, kind |-> kind, status |-> outcome[p]]

ReceiptIsThere(p) == request[p].receipt # None => saved[request[p].receipt] = EvidenceOf(p, "receipt")
ContextIsThere(p) == request[p].context # None => saved[request[p].context] = EvidenceOf(p, "context")
IsDelivered(p) ==
  request[p].delivery /\ outcome[p] = "succeeded" => target = [by |-> p, members |-> Members]

\* All evidence that p was asked for is in place, and it is its own.
EvidenceIsThere(p) == ReceiptIsThere(p) /\ ContextIsThere(p) /\ IsDelivered(p)

\* A completion in the journal that names a receipt is written after everything the command was
\* asked for is published, also if the command is killed next; one that says the preparation failed
\* is never that of a run that began.
CompletionIsTrue ==
  \A p \in Procs : finished[p] # None =>
    /\ finished[p].outcome = "receipt_produced" =>
         /\ ran[p] /\ finished[p].status = outcome[p]
         /\ EvidenceIsThere(p)
    /\ finished[p].outcome = "preparation_failed" => ~ran[p]

\* The exit codes 0, 3 and 5 say that verification succeeded, failed or was cancelled: the evidence
\* is then published and the attempt settled, whatever other commands do at the same paths.
ExitIsHonest ==
  \A p \in Procs : exit[p] \in {0, 3, 5} =>
    /\ outcome[p] # None /\ exit[p] = ExitCode(None, outcome[p])
    /\ EvidenceIsThere(p)
    /\ request[p].journal => finished[p] = [outcome |-> "receipt_produced", status |-> outcome[p]]

\* The outputs of a successful run are published or stay in the staging directory: no later failure
\* removes them.
KeepsOutputs(p) ==
  request[p].delivery /\ outcome[p] = "succeeded" =>
    \/ stage[p] # None /\ "artifacts" \in stage[p]
    \/ target # None /\ target.by = p
OutputsAreKept == \A p \in Procs : KeepsOutputs(p)

\* No step of any command replaces or removes a published document or delivery.
NothingIsReplaced ==
  [][/\ \A x \in Paths : saved[x] # None => saved'[x] = saved[x]
     /\ \A p \in Procs : started[p] => started'[p]
     /\ \A p \in Procs : finished[p] # None => finished'[p] = finished[p]
     /\ target # None => target' = target]_vars

\* Every command that begins returns or is killed.
EveryVerifyEnds == \A p \in Procs : pc[p] # "idle" ~> pc[p] \in {"exited", "dead"}

-----------------------------------------------------------------------------
(* The inductive invariant: what is known at every place of a command. *)

At(p, d)    == pc[p] \in {"write", "link", "unlink"} /\ doc[p] = d
Entering(p) == pc[p] \in {"write", "link"} /\ doc[p] = "started"
Started     == {p \in Procs : started[p]}

\* How far the run is, and what it was asked for.
ProgressInv(p) ==
  /\ pc[p] \in {"idle", "begin", "preflight", "prepare", "invoke"} \/ At(p, "started") =>
       ~invoked[p] /\ outcome[p] = None /\ failure[p] = None
  /\ pc[p] \in {"submit", "running"} => invoked[p] /\ outcome[p] = None /\ failure[p] = None
  /\ pc[p] = "submit" => ~ran[p]
  /\ pc[p] = "running" => ran[p]
  /\ pc[p] \in {"prepare", "invoke", "submit", "running"} => ~SameEvidence(p)
  /\ outcome[p] # None => ran[p] /\ ~SameEvidence(p)
  /\ ran[p] => invoked[p]
  /\ pc[p] \in {"assemble", "inventory", "publish"} =>
       outcome[p] = "succeeded" /\ request[p].delivery /\ failure[p] = None
  /\ At(p, "receipt") => outcome[p] # None /\ failure[p] = None /\ request[p].receipt # None
  /\ At(p, "context") => outcome[p] # None /\ failure[p] = None /\ request[p].context # None
  /\ pc[p] = "begin" \/ At(p, "started") \/ At(p, "finished") => request[p].journal
  /\ At(p, "finished") /\ failure[p] = None => outcome[p] # None

\* What the private staging directory holds.
StageInv(p) ==
  /\ request[p].delivery /\ pc[p] \in {"invoke", "submit", "running"} => stage[p] = {}
  /\ pc[p] = "assemble" => stage[p] = {"artifacts"}
  /\ pc[p] = "inventory" => stage[p] = {"artifacts", "receipt.json"}
  /\ pc[p] = "publish" => stage[p] = Members
  /\ KeepsOutputs(p)

\* Which of the evidence is in place.
EvidenceInv(p) ==
  /\ At(p, "receipt") => IsDelivered(p) /\ (pc[p] = "unlink" => ReceiptIsThere(p))
  /\ At(p, "context") =>
       IsDelivered(p) /\ ReceiptIsThere(p) /\ (pc[p] = "unlink" => ContextIsThere(p))
  /\ At(p, "finished") /\ failure[p] = None => EvidenceIsThere(p)
  /\ At(p, "finished") /\ pc[p] = "unlink" => finished[p] # None
  /\ finished[p] # None =>
       /\ finished[p] = CompletionOf(p)
       /\ pc[p] \in {"exited", "dead"} \/ (pc[p] = "unlink" /\ doc[p] = "finished")
       /\ failure[p] = None => outcome[p] # None /\ EvidenceIsThere(p)
  /\ exit[p] \in {0, 3, 5} =>
       /\ pc[p] = "exited" /\ failure[p] = None /\ outcome[p] # None
       /\ exit[p] = ExitCode(None, outcome[p]) /\ EvidenceIsThere(p)
       /\ request[p].journal => finished[p] # None

\* An attempt is entered by the command that holds the lock, while there is room for it.
JournalInv(p) ==
  /\ request[p].journal /\ pc[p] \notin {"idle", "begin", "exited", "dead"} =>
       lock = p /\ (Entering(p) \/ started[p])
  /\ finished[p] # None => started[p]
  /\ Entering(p) => Cardinality(Started) < MaxAttempts

LocalInv(p) == ProgressInv(p) /\ StageInv(p) /\ EvidenceInv(p) /\ JournalInv(p)

IInv == TypeOK /\ \A p \in Procs : LocalInv(p)
=============================================================================
