------------------------------- MODULE Verify -------------------------------
(***************************************************************************)
(* skilltape verify: each process is one invocation of the command.  It    *)
(* may record the attempt in a journal directory, stages a delivery, hands *)
(* the Skill to the runner, publishes the delivery, and writes a receipt   *)
(* and its run context.  Every document is written to a private temporary  *)
(* file that is hard-linked to its name and unlinked; the delivery is a    *)
(* directory that is renamed into place.  Nothing replaces what is there.  *)
(* The invocations share the journal, the evidence paths and the delivery  *)
(* destination; each of them can be killed between any two steps.          *)
(***************************************************************************)
EXTENDS Naturals, FiniteSets

CONSTANTS
  Procs,         \* the invocations
  Paths,         \* where receipts and contexts may be asked for
  MaxAttempts,   \* MAX_VERIFY_ATTEMPTS
  Offered,       \* the arguments a command may be started with
  None

ASSUME ProcsAssumption == IsFiniteSet(Procs) /\ None \notin Procs
ASSUME PathsAssumption == None \notin Paths
ASSUME OfferedAssumption ==
  Offered \subseteq [journal : BOOLEAN, receipt : Paths \cup {None}, context : Paths \cup {None},
                     delivery : BOOLEAN]
ASSUME AttemptsAssumption == MaxAttempts \in Nat

VARIABLES
  request,    \* the arguments of each invocation
  pc,         \* where it is
  doc,        \* the document it writes, or wrote last
  temp,       \* its temporary file for that document
  invoked,    \* the flag execute_verify_observed sets before it submits the run
  outcome,    \* the status of the receipt it holds
  failure,    \* the error it holds: of the input or at runtime
  exit,       \* its exit code
  lock,       \* who holds .attempt.lock
  started,    \* whose ID.started.json is there
  finished,   \* the ID.finished.json of each attempt
  saved,      \* the evidence at each path
  stage,      \* the members of each private staging directory
  target,     \* the delivery destination
  ran         \* history: whose run began

journal == <<lock, started, finished>>
run     == <<invoked, outcome, ran>>
vars    == <<request, pc, doc, temp, run, failure, exit, journal, saved, stage, target>>

Documents == {"started", "receipt", "context", "finished"}
Statuses  == {"succeeded", "run_failed", "cancelled", "assertion_failed"}
Outcomes  == {"receipt_produced", "preparation_failed", "unconfirmed"}
Members   == {"artifacts", "receipt.json", "delivery.json"}

Labels == {"idle", "begin", "write", "link", "unlink", "preflight", "prepare", "invoke", "submit",
           "running", "assemble", "inventory", "publish", "exited", "dead"}

Finish   == [outcome : Outcomes, status : Statuses \cup {None}]
Evidence == [by : Procs, kind : {"receipt", "context"}, status : Statuses]
Delivery == [by : Procs, members : SUBSET Members]

\* None is told apart from every value it may stand beside.
ASSUME NoneAssumption ==
  /\ None \notin Statuses /\ None \notin Outcomes
  /\ None \notin {"input", "runtime"} /\ None \notin {0, 2, 3, 4, 5}
  /\ None \notin Finish /\ None \notin Evidence /\ None \notin Delivery
  /\ \A members \in SUBSET Members : members # None

TypeOK ==
  /\ request \in [Procs -> Offered]
  /\ pc \in [Procs -> Labels]
  /\ doc \in [Procs -> Documents]
  /\ temp \in [Procs -> {"none", "private", "linked"}]
  /\ invoked \in [Procs -> BOOLEAN]
  /\ outcome \in [Procs -> Statuses \cup {None}]
  /\ failure \in [Procs -> {"input", "runtime", None}]
  /\ exit \in [Procs -> {0, 2, 3, 4, 5, None}]
  /\ lock \in Procs \cup {None}
  /\ started \in [Procs -> BOOLEAN]
  /\ finished \in [Procs -> Finish \cup {None}]
  /\ saved \in [Paths -> Evidence \cup {None}]
  /\ stage \in [Procs -> (SUBSET Members) \cup {None}]
  /\ target \in Delivery \cup {None}
  /\ ran \in [Procs -> BOOLEAN]

Init ==
  /\ request \in [Procs -> Offered]
  /\ pc = [p \in Procs |-> "idle"]
  /\ doc = [p \in Procs |-> "started"]
  /\ temp = [p \in Procs |-> "none"]
  /\ invoked = [p \in Procs |-> FALSE]
  /\ outcome = [p \in Procs |-> None]
  /\ failure = [p \in Procs |-> None]
  /\ exit = [p \in Procs |-> None]
  /\ lock = None
  /\ started = [p \in Procs |-> FALSE]
  /\ finished = [p \in Procs |-> None]
  /\ saved = [x \in Paths |-> None]
  /\ stage = [p \in Procs |-> None]
  /\ target = None
  /\ ran = [p \in Procs |-> FALSE]

-----------------------------------------------------------------------------
(* Moving on *)

Goto(p, label) ==
  /\ pc' = [pc EXCEPT ![p] = label]
  /\ UNCHANGED <<doc, exit, lock>>

Write(p, d) ==
  /\ pc' = [pc EXCEPT ![p] = "write"]
  /\ doc' = [doc EXCEPT ![p] = d]
  /\ UNCHANGED <<exit, lock>>

\* The process returns; dropping the journal releases its lock.
Exit(p, code) ==
  /\ pc' = [pc EXCEPT ![p] = "exited"]
  /\ exit' = [exit EXCEPT ![p] = code]
  /\ lock' = IF lock = p THEN None ELSE lock
  /\ UNCHANGED doc

\* 2 for an error of the input, 4 for one at runtime; without an error the status decides.
ExitCode(error, status) ==
  IF error = "input" THEN 2
  ELSE IF error = "runtime" THEN 4
  ELSE IF status = "succeeded" THEN 0
  ELSE IF status = "cancelled" THEN 5
  ELSE 3

\* The result is known: a journal is finished before the process returns.
Conclude(p, error, status) ==
  IF request[p].journal THEN Write(p, "finished") ELSE Exit(p, ExitCode(error, status))

Fail(p, error) ==
  /\ failure' = [failure EXCEPT ![p] = error]
  /\ Conclude(p, error, None)

\* What verify does after the run, or after the document d.
After(p, d, status) ==
  IF d = "run" /\ request[p].receipt # None THEN Write(p, "receipt")
  ELSE IF d # "context" /\ request[p].context # None THEN Write(p, "context")
  ELSE Conclude(p, None, status)

-----------------------------------------------------------------------------
(* The attempt journal *)

InJournal(d) == d \in {"started", "finished"}

\* Temporary files in the journal directory, and names whose link count is two because of one.
Leftovers == {p \in Procs : temp[p] # "none" /\ InJournal(doc[p])}

JournalUsableFull ==   \* mutant
  /\ Leftovers = {}
  /\ Cardinality({p \in Procs : started[p]}) <= MaxAttempts
  /\ \A p \in Procs : finished[p] # None => started[p]
JournalUsable ==
  /\ Leftovers = {}
  /\ Cardinality({p \in Procs : started[p]}) < MaxAttempts
  /\ \A p \in Procs : finished[p] # None => started[p]

Start(p) ==
  /\ pc[p] = "idle"
  /\ Goto(p, IF request[p].journal THEN "begin" ELSE "preflight")
  /\ UNCHANGED <<request, temp, run, failure, started, finished, saved, stage, target>>

\* AttemptJournal::begin: the directory is locked and valid, and the start is written next.
Begin(p) ==
  /\ pc[p] = "begin"
  /\ lock = None
  /\ JournalUsable
  /\ lock' = p
  /\ pc' = [pc EXCEPT ![p] = "write"]
  /\ doc' = [doc EXCEPT ![p] = "started"]
  /\ UNCHANGED <<request, temp, run, failure, exit, started, finished, saved, stage, target>>

\* Another command owns it, it is full or holds something else, or a check of the paths fails.
BeginFails(p) ==
  /\ pc[p] = "begin"
  /\ Exit(p, 4)
  /\ UNCHANGED <<request, temp, run, failure, started, finished, saved, stage, target>>

\* AttemptJournal::finish: what the completion says.
CompletionOf(p) ==
  IF failure[p] = None
  THEN [outcome |-> "receipt_produced", status |-> outcome[p]]
  ELSE [outcome |-> IF invoked[p] THEN "unconfirmed" ELSE "preparation_failed", status |-> None]

-----------------------------------------------------------------------------
(* write_receipt, for each of the four documents *)

PathOf(p) == IF doc[p] = "receipt" THEN request[p].receipt ELSE request[p].context

Taken(p) ==
  \/ doc[p] = "started" /\ started[p]
  \/ doc[p] = "finished" /\ finished[p] # None
  \/ ~InJournal(doc[p]) /\ saved[PathOf(p)] # None

\* The name is free, and the document is in a temporary file beside it.
Create(p) ==
  /\ pc[p] = "write"
  /\ ~Taken(p)
  /\ temp' = [temp EXCEPT ![p] = "private"]
  /\ Goto(p, "link")
  /\ UNCHANGED <<request, run, failure, started, finished, saved, stage, target>>

Name(p) ==
  \/ /\ doc[p] = "started"
     /\ started' = [started EXCEPT ![p] = TRUE]
     /\ UNCHANGED <<finished, saved>>
  \/ /\ doc[p] = "finished"
     /\ finished' = [finished EXCEPT ![p] = CompletionOf(p)]
     /\ UNCHANGED <<started, saved>>
  \/ /\ ~InJournal(doc[p])
     /\ saved' = [saved EXCEPT ![PathOf(p)] = [by |-> p, kind |-> doc[p], status |-> outcome[p]]]
     /\ UNCHANGED <<started, finished>>

Rename(p) ==   \* mutant
  /\ pc[p] = "link"
  /\ temp' = [temp EXCEPT ![p] = "linked"]
  /\ Name(p)
  /\ Goto(p, "unlink")
  /\ UNCHANGED <<request, run, failure, stage, target>>
\* hard_link fails if the name was taken in the meantime.
Link(p) ==
  /\ pc[p] = "link"
  /\ ~Taken(p)
  /\ temp' = [temp EXCEPT ![p] = "linked"]
  /\ Name(p)
  /\ Goto(p, "unlink")
  /\ UNCHANGED <<request, run, failure, stage, target>>

\* The temporary file is dropped and the caller goes on.
Unlink(p) ==
  /\ pc[p] = "unlink"
  /\ temp' = [temp EXCEPT ![p] = "none"]
  /\ \/ doc[p] = "started" /\ Goto(p, "preflight")
     \/ doc[p] = "finished" /\ Exit(p, ExitCode(failure[p], outcome[p]))
     \/ ~InJournal(doc[p]) /\ After(p, doc[p], outcome[p])
  /\ UNCHANGED <<request, run, failure, started, finished, saved, stage, target>>

RetryWrite(p) ==   \* mutant
  /\ pc[p] \in {"write", "link"}
  /\ temp' = [temp EXCEPT ![p] = "none"]
  /\ Goto(p, "write")
  /\ UNCHANGED <<request, run, failure, started, finished, saved, stage, target>>
\* The name is taken or the write fails.  A journal that cannot be written ends the command.
WriteFails(p) ==
  /\ pc[p] \in {"write", "link"}
  /\ temp' = [temp EXCEPT ![p] = "none"]
  /\ IF InJournal(doc[p]) THEN Exit(p, 4) /\ UNCHANGED failure ELSE Fail(p, "input")
  /\ UNCHANGED <<request, run, started, finished, saved, stage, target>>

\* The journal document is named, but the directory cannot be synced or was replaced.
SyncFails(p) ==
  /\ pc[p] = "unlink"
  /\ InJournal(doc[p])
  /\ temp' = [temp EXCEPT ![p] = "none"]
  /\ Exit(p, 4)
  /\ UNCHANGED <<request, run, failure, started, finished, saved, stage, target>>

-----------------------------------------------------------------------------
(* Preparation *)

EvidenceTaken(p) == \E x \in {request[p].receipt, request[p].context} \ {None} : saved[x] # None
SameEvidence(p)  == request[p].receipt # None /\ request[p].receipt = request[p].context

Preflight(p) ==
  /\ pc[p] = "preflight"
  /\ ~EvidenceTaken(p) /\ ~SameEvidence(p)
  /\ Goto(p, "prepare")
  /\ UNCHANGED <<request, temp, run, failure, started, finished, saved, stage, target>>

PreflightFails(p) ==
  /\ pc[p] = "preflight"
  /\ Fail(p, "input")
  /\ UNCHANGED <<request, temp, run, started, finished, saved, stage, target>>

\* execute_verify_observed up to before_run: assertions, package, roots, Delivery::prepare.
Prepare(p) ==
  /\ pc[p] = "prepare"
  /\ request[p].delivery => target = None
  /\ stage' = IF request[p].delivery THEN [stage EXCEPT ![p] = {}] ELSE stage
  /\ Goto(p, "invoke")
  /\ UNCHANGED <<request, temp, run, failure, started, finished, saved, target>>

PrepareFails(p) ==
  /\ pc[p] = "prepare"
  /\ \E error \in {"input", "runtime"} : Fail(p, error)
  /\ UNCHANGED <<request, temp, run, started, finished, saved, stage, target>>

-----------------------------------------------------------------------------
(* The run *)

InvokeLate(p) ==   \* mutant
  /\ pc[p] = "invoke"
  /\ Goto(p, "submit")
  /\ UNCHANGED <<request, temp, run, failure, started, finished, saved, stage, target>>
Invoke(p) ==
  /\ pc[p] = "invoke"
  /\ invoked' = [invoked EXCEPT ![p] = TRUE]
  /\ Goto(p, "submit")
  /\ UNCHANGED <<request, temp, outcome, ran, failure, started, finished, saved, stage, target>>

\* verify_run_with_context has checked and digested its input and spawns run_skill.
Submit(p) ==
  /\ pc[p] = "submit"
  /\ ran' = [ran EXCEPT ![p] = TRUE]
  /\ Goto(p, "running")
  /\ UNCHANGED <<request, temp, invoked, outcome, failure, started, finished, saved, stage, target>>

\* receipt::build: the status of a run whose assertions passed or did not.
StatusOf(summary, passed) ==
  IF summary = "Failed" THEN "run_failed"
  ELSE IF summary = "Cancelled" THEN "cancelled"
  ELSE IF passed THEN "succeeded"
  ELSE "assertion_failed"

KeepArtifacts(p, status) ==
  IF request[p].delivery /\ status = "succeeded"
  THEN /\ stage' = [stage EXCEPT ![p] = @ \cup {"artifacts"}]
       /\ Goto(p, "assemble")
  ELSE /\ stage' = [stage EXCEPT ![p] = None]
       /\ After(p, "run", status)

\* The receipt is built.  Without a success the staging directory is removed with its artifacts.
FinishRun(p) ==
  /\ pc[p] = "running"
  /\ \E summary \in {"Succeeded", "Failed", "Cancelled"}, passed \in BOOLEAN :
       LET status == StatusOf(summary, passed) IN
       /\ outcome' = [outcome EXCEPT ![p] = status]
       /\ KeepArtifacts(p, status)
  /\ UNCHANGED <<request, temp, invoked, ran, failure, started, finished, saved, target>>

\* An error instead of a receipt, before or after the run began.
RunFails(p) ==
  /\ pc[p] \in {"submit", "running"}
  /\ \E error \in {"input", "runtime"} : Fail(p, error)
  /\ stage' = [stage EXCEPT ![p] = None]
  /\ UNCHANGED <<request, temp, run, started, finished, saved, target>>

-----------------------------------------------------------------------------
(* The delivery *)

Assemble(p) ==
  /\ pc[p] = "assemble"
  /\ stage' = [stage EXCEPT ![p] = @ \cup {"receipt.json"}]
  /\ Goto(p, "inventory")
  /\ UNCHANGED <<request, temp, run, failure, started, finished, saved, target>>

PublishFirst(p) ==   \* mutant
  /\ pc[p] = "inventory"
  /\ Goto(p, "publish")
  /\ UNCHANGED <<request, temp, run, failure, started, finished, saved, stage, target>>
\* collect has read every artifact, and delivery.json lists them.
Inventory(p) ==
  /\ pc[p] = "inventory"
  /\ stage' = [stage EXCEPT ![p] = @ \cup {"delivery.json"}]
  /\ Goto(p, "publish")
  /\ UNCHANGED <<request, temp, run, failure, started, finished, saved, target>>

\* publish_directory_noreplace: the rename fails if the destination exists.
Publish(p) ==
  /\ pc[p] = "publish"
  /\ target = None
  /\ target' = [by |-> p, members |-> stage[p]]
  /\ stage' = [stage EXCEPT ![p] = None]
  /\ After(p, "run", outcome[p])
  /\ UNCHANGED <<request, temp, run, failure, started, finished, saved>>

DropStage(p) ==   \* mutant
  /\ pc[p] \in {"assemble", "inventory", "publish"}
  /\ Fail(p, "runtime")
  /\ stage' = [stage EXCEPT ![p] = None]
  /\ UNCHANGED <<request, temp, run, started, finished, saved, target>>
\* DeliveryError::Recoverable: the staging directory is kept.
DeliveryFails(p) ==
  /\ pc[p] \in {"assemble", "inventory", "publish"}
  /\ Fail(p, "runtime")
  /\ UNCHANGED <<request, temp, run, started, finished, saved, stage, target>>

-----------------------------------------------------------------------------
Die(p) ==
  /\ pc[p] \notin {"idle", "exited", "dead"}
  /\ pc' = [pc EXCEPT ![p] = "dead"]
  /\ lock' = IF lock = p THEN None ELSE lock
  /\ UNCHANGED <<request, doc, temp, run, failure, exit, started, finished, saved, stage, target>>

Document(p)    == Create(p) \/ Link(p) \/ Unlink(p) \/ WriteFails(p) \/ SyncFails(p)
Preparation(p) == Preflight(p) \/ PreflightFails(p) \/ Prepare(p) \/ PrepareFails(p)
Running(p)     == Invoke(p) \/ Submit(p) \/ FinishRun(p) \/ RunFails(p)
Delivering(p)  == Assemble(p) \/ Inventory(p) \/ Publish(p) \/ DeliveryFails(p)
Command(p)     == Begin(p) \/ BeginFails(p) \/ Document(p) \/ Preparation(p) \/ Running(p)
                  \/ Delivering(p)

Next == \E p \in Procs : Start(p) \/ Command(p) \/ Die(p)

Spec == Init /\ [][Next]_vars

\* A command is scheduled, and a run ends: its steps have timeouts (Runner!RunEnds).
FairSpec == Spec /\ \A p \in Procs : WF_vars(Command(p))

=============================================================================
