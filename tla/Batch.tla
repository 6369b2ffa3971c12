------------------------------- MODULE Batch --------------------------------
(***************************************************************************)
(* skilltape batch: processes that run, retry, reconcile and inspect one   *)
(* prepared batch workspace.  A process is a CLI invocation; between two   *)
(* of its steps it can die, be interrupted (SIGINT), or meet a workspace   *)
(* that somebody edited.  What survives a process is on disk: the journal, *)
(* the frozen materials and the evidence files, each written by one atomic *)
(* rename or link.                                                         *)
(***************************************************************************)
EXTENDS BatchJournal

CONSTANTS
  Procs,         \* CLI invocations that take the batch lock
  Readers,       \* CLI invocations of batch inspect, which takes no lock
  MaxTampers     \* bound: outside edits of the workspace in one behaviour

ASSUME MaxTampersAssumption == MaxTampers \in Nat
ASSUME ProcsAssumption == None \notin Procs

VARIABLES
  \* the workspace on disk
  journal,       \* batch-state.json
  skill,         \* digest of the frozen Skill folder as it is now
  frozen,        \* frozen[c, g]: digest of case c's input snapshot of generation g
  receipts,      \* receipts[c, n], contexts[c, n], deliveries[c, n]:
  contexts,      \*   the evidence files of attempt n of case c
  deliveries,
  lock,          \* the process that holds .skilltape/batch.lock
  \* the processes
  pc,            \* where a process is
  job,           \* the command it executes
  cursor,        \* the case it is at
  mem,           \* its copy of the journal
  held,          \* the verification it started: the receipt, so far
  flag,          \* the process's INTERRUPTED static
  token,         \* the CancellationToken of the verification it started
  exit,          \* exit code of the command that ended last
  view,          \* the progress of a batch inspect
  \* history
  runs,          \* runs[c, n]: how often attempt n of case c was executed
  outcome,       \* outcome[c, n]: how its execution really ended
  taken,         \* a verification of this command was told to cancel
  tampers        \* outside edits so far

disk    == <<journal, skill, frozen, receipts, contexts, deliveries>>
evidence == <<receipts, contexts, deliveries>>
history == <<runs, outcome, taken, tampers>>
vars    == <<disk, lock, pc, job, cursor, mem, held, flag, token, exit, view, history>>

Labels == {"idle", "load", "reconcile", "next", "choose", "snapshot", "execute", "verify",
           "running", "deliver", "receipt", "context", "record", "doubt", "stopped", "review"}

\* A retry names its case and, optionally, the inputs to freeze for it.
Jobs == [cmd : {"run", "reconcile"}, case : {None}, input : {None}]
          \cup [cmd : {"retry"}, case : Cases, input : Digests \cup {None}]

\* The receipt of a verification in flight; its status is None until it ends.
Held == [skill : Digests, input : Digests, status : Known \cup {None}]

Views == [snap : Journals, next : 1 .. NumCases + 1, changed : SUBSET Cases]

TypeOK ==
  /\ journal \in Journals
  /\ skill \in Digests
  /\ frozen \in [Cases \X Generations -> Digests \cup {None}]
  /\ receipts \in [AttemptIds -> File(Receipts)]
  /\ contexts \in [AttemptIds -> File(Contexts)]
  /\ deliveries \in [AttemptIds -> File(Deliveries)]
  /\ lock \in Procs \cup {None}
  /\ pc \in [Procs -> Labels]
  /\ job \in [Procs -> Jobs \cup {None}]
  /\ cursor \in [Procs -> 1 .. NumCases + 1]
  /\ mem \in [Procs -> Journals \cup {None}]
  /\ held \in [Procs -> Held \cup {None}]
  /\ flag \in [Procs -> BOOLEAN]
  /\ token \in [Procs -> BOOLEAN]
  /\ exit \in {None, 0, 2, 3, 5}
  /\ view \in [Readers -> Views \cup {None}]
  /\ runs \in [AttemptIds -> Nat]
  /\ outcome \in [AttemptIds -> Known \cup {None, "lost"}]
  /\ taken \in [Procs -> BOOLEAN]
  /\ tampers \in 0 .. MaxTampers

\* A workspace as batch prepare publishes it.
Init ==
  /\ journal = FreshJournal
  /\ skill = Package
  /\ frozen = [k \in Cases \X Generations |-> IF k[2] = 0 THEN BaseInput[k[1]] ELSE None]
  /\ receipts = [id \in AttemptIds |-> None]
  /\ contexts = [id \in AttemptIds |-> None]
  /\ deliveries = [id \in AttemptIds |-> None]
  /\ lock = None
  /\ pc = [p \in Procs |-> "idle"]
  /\ job = [p \in Procs |-> None]
  /\ cursor = [p \in Procs |-> 1]
  /\ mem = [p \in Procs |-> None]
  /\ held = [p \in Procs |-> None]
  /\ flag = [p \in Procs |-> FALSE]
  /\ token = [p \in Procs |-> FALSE]
  /\ exit = None
  /\ view = [r \in Readers |-> None]
  /\ runs = [id \in AttemptIds |-> 0]
  /\ outcome = [id \in AttemptIds |-> None]
  /\ taken = [p \in Procs |-> FALSE]
  /\ tampers = 0

-----------------------------------------------------------------------------
(* Building blocks *)

At(p, label) == pc[p] = label
Goto(p, label) == pc' = [pc EXCEPT ![p] = label]

\* The case a process is at, in its copy of the journal, and its latest attempt.
Current(p) == mem[p][cursor[p]]
CurrentId(p) == <<cursor[p], Count(Current(p))>>

AuditsNow(c, attempt, physical) ==
  LET id == <<c, attempt.number>> IN
  Audits(attempt, receipts[id], contexts[id], deliveries[id], physical)
FoundNow(c, attempt) ==
  LET id == <<c, attempt.number>> IN
  Found(attempt, receipts[id], contexts[id], deliveries[id])

\* Saved outcomes of a journal that no longer match their evidence.
Changed(state) ==
  {c \in Cases : Settled(state[c]) /\ ~AuditsNow(c, LastOf(state[c]), FALSE)}

\* save: the copy becomes the journal, in one atomic replacement.
SaveInMemory(p, state) ==   \* mutant
  mem' = [mem EXCEPT ![p] = state] /\ UNCHANGED journal
Save(p, state) ==
  /\ ValidJournal(state)
  /\ mem' = [mem EXCEPT ![p] = state]
  /\ journal' = state

SaveLast(p, attempt) ==
  Save(p, [mem[p] EXCEPT ![cursor[p]] = WithLast(@, attempt)])

\* The process ends: its memory is gone and the lock is released.
Return(p, code) ==
  /\ Goto(p, "idle")
  /\ lock' = None
  /\ job' = [job EXCEPT ![p] = None]
  /\ cursor' = [cursor EXCEPT ![p] = 1]
  /\ mem' = [mem EXCEPT ![p] = None]
  /\ held' = [held EXCEPT ![p] = None]
  /\ flag' = [flag EXCEPT ![p] = FALSE]
  /\ token' = [token EXCEPT ![p] = FALSE]
  /\ taken' = [taken EXCEPT ![p] = FALSE]
  /\ exit' = code
  /\ UNCHANGED <<view, runs, outcome, tampers>>

\* The process goes on at a label, perhaps at another case.
Proceed(p, label, case) ==
  /\ Goto(p, label)
  /\ cursor' = [cursor EXCEPT ![p] = case]
  /\ UNCHANGED <<lock, job, exit, view>>

-----------------------------------------------------------------------------
(* Starting a command: install the SIGINT handler, take the lock, read the
   journal and check the frozen materials against it. *)

LockFree == lock = None

Begin(p, j) ==
  /\ At(p, "idle")
  /\ LockFree
  /\ lock' = p
  /\ Goto(p, "load")
  /\ job' = [job EXCEPT ![p] = j]
  /\ exit' = None
  /\ UNCHANGED <<disk, cursor, mem, held, flag, token, view, history>>

\* The lock is not waited for: a second command is refused.
Busy(p) ==
  /\ At(p, "idle")
  /\ lock \notin {None, p}
  /\ exit' = 2
  /\ UNCHANGED <<disk, lock, pc, job, cursor, mem, held, flag, token, view, history>>

MaterialsUnchanged(state) ==
  /\ skill = Package
  /\ \A c \in Cases : frozen[<<c, state[c].generation>>] = state[c].input

Load(p) ==
  /\ At(p, "load")
  /\ IF ValidJournal(journal) /\ MaterialsUnchanged(journal)
     THEN /\ mem' = [mem EXCEPT ![p] = journal]
          /\ Proceed(p, "reconcile", 1)
          /\ UNCHANGED <<held, flag, token, history>>
     ELSE Return(p, 2)
  /\ UNCHANGED disk

-----------------------------------------------------------------------------
(* reconcile: the latest attempt of every case is compared with its files.  *)

\* The latest attempt is marked, and the command ends: nothing runs again by itself.
ForgetAttempt(p) ==   \* mutant
  /\ journal' = [mem[p] EXCEPT ![cursor[p]].attempts = SubSeq(@, 1, Len(@) - 1)]
  /\ Return(p, 2)
  /\ UNCHANGED <<skill, frozen, evidence>>
Unconfirm(p) ==
  LET marked == [mem[p] EXCEPT ![cursor[p]] =
                   WithLast(@, [LastOf(@) EXCEPT !.status = "unconfirmed"])]
  IN /\ ValidJournal(marked)
     /\ journal' = marked
     /\ Return(p, 2)
     /\ UNCHANGED <<skill, frozen, evidence>>

\* A terminal outcome must still be the one its evidence states.
MarkChanged(p) ==   \* mutant
  /\ Settled(Current(p))
  /\ IF AuditsNow(cursor[p], LastOf(Current(p)), TRUE)
     THEN Proceed(p, "reconcile", cursor[p] + 1) /\ UNCHANGED <<disk, mem, held, flag, token, history>>
     ELSE Unconfirm(p)
CheckOutcome(p) ==
  /\ Settled(Current(p))
  /\ IF AuditsNow(cursor[p], LastOf(Current(p)), TRUE)
     THEN /\ Proceed(p, "reconcile", cursor[p] + 1)
          /\ UNCHANGED <<mem, held, flag, token, history>>
     ELSE Return(p, 2)
  /\ UNCHANGED disk

\* An unknown outcome whose evidence is complete is recovered from it.
Recover(p) ==
  /\ CaseStatus(Current(p)) \in Unknown
  /\ AuditsNow(cursor[p], LastOf(Current(p)), TRUE)
  /\ SaveLast(p, FoundNow(cursor[p], LastOf(Current(p))))
  /\ Proceed(p, "reconcile", cursor[p] + 1)
  /\ UNCHANGED <<skill, frozen, evidence, held, flag, token, history>>

\* One whose evidence is incomplete or inconsistent is given up.
GiveUpTooEarly(p) ==   \* mutant
  CaseStatus(Current(p)) \in Unknown /\ Unconfirm(p)
GiveUpAndGoOn(p) ==    \* mutant
  /\ CaseStatus(Current(p)) \in Unknown
  /\ ~AuditsNow(cursor[p], LastOf(Current(p)), TRUE)
  /\ SaveLast(p, [LastOf(Current(p)) EXCEPT !.status = "unconfirmed"])
  /\ Proceed(p, "reconcile", cursor[p] + 1)
  /\ UNCHANGED <<skill, frozen, evidence, held, flag, token, history>>
GiveUp(p) ==
  /\ CaseStatus(Current(p)) \in Unknown
  /\ ~AuditsNow(cursor[p], LastOf(Current(p)), TRUE)
  /\ Unconfirm(p)

SkipInPlace(p) ==   \* mutant
  /\ Current(p).attempts = <<>>
  /\ Proceed(p, "reconcile", cursor[p])
  /\ UNCHANGED <<disk, mem, held, flag, token, history>>
SkipPending(p) ==
  /\ Current(p).attempts = <<>>
  /\ Proceed(p, "reconcile", cursor[p] + 1)
  /\ UNCHANGED <<disk, mem, held, flag, token, history>>

Reconcile(p) ==
  /\ At(p, "reconcile")
  /\ cursor[p] \in Cases
  /\ CheckOutcome(p) \/ Recover(p) \/ GiveUp(p) \/ SkipPending(p)

Reconciled(p) ==
  /\ At(p, "reconcile")
  /\ cursor[p] = NumCases + 1
  /\ CASE job[p].cmd = "run"       -> Proceed(p, "next", 1)
       [] job[p].cmd = "retry"     -> Proceed(p, "choose", job[p].case)
       [] job[p].cmd = "reconcile" -> Proceed(p, "review", 1)
  /\ UNCHANGED <<disk, mem, held, flag, token, history>>

-----------------------------------------------------------------------------
(* Choosing what to execute *)

\* batch run: the cases in order; a pending interrupt ends the loop.
NextCase(p) ==
  /\ At(p, "next")
  /\ IF cursor[p] = NumCases + 1 THEN Proceed(p, "review", 1)
     ELSE IF flag[p] THEN Proceed(p, "stopped", 1)
     ELSE IF Current(p).attempts = <<>> THEN Proceed(p, "execute", cursor[p])
     ELSE Proceed(p, "next", cursor[p] + 1)
  /\ UNCHANGED <<disk, mem, held, flag, token, history>>

\* batch retry: only a known failed or cancelled case with attempts left.
Choose(p) ==
  /\ At(p, "choose")
  /\ IF /\ CaseStatus(Current(p)) \in {"failed", "cancelled"}
        /\ Count(Current(p)) < MaxAttempts
     THEN /\ Proceed(p, IF job[p].input = None THEN "execute" ELSE "snapshot", cursor[p])
          /\ UNCHANGED <<mem, held, flag, token, history>>
     ELSE Return(p, 2)
  /\ UNCHANGED disk

\* retry_input: freeze the given inputs under the number of the next attempt,
\* or reuse a snapshot an earlier, unfinished retry left there.
Reusable(existing, input) == existing \in {None, input}

Snapshot(p) ==
  LET c == cursor[p]
      number == Count(Current(p)) + 1
      input  == job[p].input
  IN
  /\ At(p, "snapshot")
  /\ IF Reusable(frozen[<<c, number>>], input)
     THEN /\ frozen' = [frozen EXCEPT ![<<c, number>>] = input]
          /\ mem' = [mem EXCEPT ![p][c] = WithInput(@, number, input)]
          /\ Proceed(p, "execute", c)
          /\ UNCHANGED <<held, flag, token, history>>
     ELSE Return(p, 2) /\ UNCHANGED frozen
  /\ UNCHANGED <<journal, skill, evidence>>

-----------------------------------------------------------------------------
(* execute: one attempt, from its journal entry to its recorded outcome *)

NewAttempt(case) ==
  [number |-> Count(case) + 1, status |-> "running", input |-> case.input,
   generation |-> case.generation, receipt |-> None, context |-> None, delivery |-> None]

\* The attempt is in the journal before anything runs.
Execute(p) ==
  LET case == Current(p)
      id   == <<cursor[p], Count(case) + 1>>
  IN
  /\ At(p, "execute")
  /\ IF Count(case) < MaxAttempts /\ {receipts[id], contexts[id], deliveries[id]} = {None}
     THEN /\ Save(p, [mem[p] EXCEPT ![cursor[p]].attempts = Append(@, NewAttempt(case))])
          /\ Proceed(p, "verify", cursor[p])
          /\ UNCHANGED <<held, flag, token, history>>
     ELSE Return(p, 2) /\ UNCHANGED journal
  /\ UNCHANGED <<skill, frozen, evidence>>

\* The verifier digests the materials and starts the Skill's steps.
StartVerification(p) ==
  LET id == CurrentId(p) IN
  /\ At(p, "verify")
  /\ runs' = [runs EXCEPT ![id] = @ + 1]
  /\ held' = [held EXCEPT ![p] =
                [skill |-> skill, input |-> frozen[<<cursor[p], Current(p).generation>>],
                 status |-> None]]
  /\ token' = [token EXCEPT ![p] = FALSE]
  /\ Proceed(p, "running", cursor[p])
  /\ UNCHANGED <<disk, mem, flag, outcome, taken, tampers>>

\* wait_for_interrupt: the pending interrupt is consumed and the run cancelled.
TakeInterrupt(p) ==
  /\ At(p, "running")
  /\ flag[p] /\ ~token[p]
  /\ flag' = [flag EXCEPT ![p] = FALSE]
  /\ token' = [token EXCEPT ![p] = TRUE]
  /\ taken' = [taken EXCEPT ![p] = TRUE]
  /\ UNCHANGED <<disk, lock, pc, job, cursor, mem, held, exit, view, runs, outcome, tampers>>

\* The run ends.  A cancelled token is looked at between steps only, so a run
\* that is past its last look still succeeds or fails.
FinishVerification(p) ==
  /\ At(p, "running")
  /\ \E status \in {"succeeded", "failed"} \cup (IF token[p] THEN {"cancelled"} ELSE {}) :
       /\ held' = [held EXCEPT ![p].status = status]
       /\ outcome' = [outcome EXCEPT ![CurrentId(p)] = status]
       /\ Proceed(p, IF status = "succeeded" THEN "deliver" ELSE "receipt", cursor[p])
  /\ UNCHANGED <<disk, mem, flag, token, runs, taken, tampers>>

\* execute_verify fails: before the run, in it, or while assembling a delivery.
LoseAsFailure(p) ==   \* mutant
  /\ pc[p] \in {"running", "deliver"}
  /\ outcome' = [outcome EXCEPT ![CurrentId(p)] = "lost"]
  /\ held' = [held EXCEPT ![p].status = "failed"]
  /\ Proceed(p, "receipt", cursor[p])
  /\ UNCHANGED <<disk, mem, flag, token, runs, taken, tampers>>
LoseVerification(p) ==
  /\ pc[p] \in {"verify", "running", "deliver"}
  /\ outcome' = [outcome EXCEPT ![CurrentId(p)] = "lost"]
  /\ Proceed(p, "doubt", cursor[p])
  /\ UNCHANGED <<disk, mem, held, flag, token, runs, taken, tampers>>

\* Delivery::finish publishes the assembled directory without replacing one.
Deliver(p) ==
  LET id == CurrentId(p) IN
  /\ At(p, "deliver")
  /\ deliveries[id] = None
  /\ deliveries' = [deliveries EXCEPT ![id] = [receipt |-> held[p], whole |-> TRUE]]
  /\ Proceed(p, "receipt", cursor[p])
  /\ UNCHANGED <<journal, skill, frozen, receipts, contexts, mem, held, flag, token, history>>

\* write_receipt: linked into place, never over an existing file.
WriteReceipt(p) ==
  LET id == CurrentId(p) IN
  /\ At(p, "receipt")
  /\ IF receipts[id] = None
     THEN /\ receipts' = [receipts EXCEPT ![id] = held[p]]
          /\ Proceed(p, "context", cursor[p])
          /\ UNCHANGED <<mem, held, flag, token, history>>
     ELSE Return(p, 2) /\ UNCHANGED receipts
  /\ UNCHANGED <<journal, skill, frozen, contexts, deliveries>>

WriteContext(p) ==
  LET id == CurrentId(p) IN
  /\ At(p, "context")
  /\ IF contexts[id] = None
     THEN /\ contexts' = [contexts EXCEPT ![id] = [receipt |-> held[p], input |-> held[p].input]]
          /\ Proceed(p, "record", cursor[p])
          /\ UNCHANGED <<mem, held, flag, token, history>>
     ELSE Return(p, 2) /\ UNCHANGED contexts
  /\ UNCHANGED <<journal, skill, frozen, receipts, deliveries>>

\* The outcome is recorded only if the files just written audit.  A cancelled
\* attempt ends the command; otherwise a run goes on with the next case.
Record(p) ==
  LET attempt == LastOf(Current(p)) IN
  /\ At(p, "record")
  /\ IF AuditsNow(cursor[p], attempt, TRUE)
     THEN /\ SaveLast(p, FoundNow(cursor[p], attempt))
          /\ held' = [held EXCEPT ![p] = None]
          /\ IF held[p].status = "cancelled" THEN Proceed(p, "stopped", 1)
             ELSE IF job[p].cmd = "run" THEN Proceed(p, "next", cursor[p] + 1)
             ELSE Proceed(p, "review", 1)
          /\ UNCHANGED <<flag, token, history>>
     ELSE Return(p, 2) /\ UNCHANGED journal
  /\ UNCHANGED <<skill, frozen, evidence>>

\* The verification returned an error: its outcome is unknown.
Doubt(p) ==
  /\ At(p, "doubt")
  /\ Unconfirm(p)

-----------------------------------------------------------------------------
(* Ending a command *)

\* The final review and the exit code derived from it.
Review(p) ==
  /\ pc[p] \in {"review", "stopped"}
  /\ Return(p, IF At(p, "stopped") THEN 5
               ELSE IF job[p].cmd = "reconcile" THEN 0
               ELSE IF ReviewStatus(journal, Changed(journal)) = "complete" THEN 0
               ELSE 3)
  /\ UNCHANGED disk

\* The process is killed (no exit code), or a check or an I/O call it makes
\* between two writes fails: BatchLock::check, output_admission, a full disk.
Stop(p) ==
  /\ ~At(p, "idle")
  /\ \E code \in {None, 2} : Return(p, code)
  /\ UNCHANGED disk

\* SIGINT reaches a process whose handler is installed.
Interrupt(p) ==
  /\ ~At(p, "idle")
  /\ ~flag[p]
  /\ flag' = [flag EXCEPT ![p] = TRUE]
  /\ UNCHANGED <<disk, lock, pc, job, cursor, mem, held, token, exit, view, history>>

-----------------------------------------------------------------------------
(* batch inspect: reads the journal once, then the evidence of one case after
   the other, without the lock. *)

LooksOn == <<disk, lock, pc, job, cursor, mem, held, flag, token, exit, history>>

InspectOpen(r) ==
  /\ view[r] = None
  /\ ValidJournal(journal)
  /\ view' = [view EXCEPT ![r] = [snap |-> journal, next |-> 1, changed |-> {}]]
  /\ UNCHANGED LooksOn

InspectCase(r) ==
  /\ view[r] # None
  /\ view[r].next \in Cases
  /\ LET c    == view[r].next
         case == view[r].snap[c]
         lost == Settled(case) /\ ~AuditsNow(c, LastOf(case), FALSE)
     IN view' = [view EXCEPT ![r] =
                   [snap |-> @.snap, next |-> c + 1,
                    changed |-> IF lost THEN @.changed \cup {c} ELSE @.changed]]
  /\ UNCHANGED LooksOn

InspectReport(r) ==
  /\ view[r] # None
  /\ view[r].next = NumCases + 1
  /\ view' = [view EXCEPT ![r] = None]
  /\ UNCHANGED LooksOn

-----------------------------------------------------------------------------
(* Somebody edits the workspace: frozen materials or saved evidence change,
   are damaged or disappear. *)

Edited(file) == {None, Damaged} \ {file}

Tamper ==
  /\ tampers < MaxTampers
  /\ tampers' = tampers + 1
  /\ \/ /\ \E d \in Digests \ {skill} : skill' = d
        /\ UNCHANGED <<frozen, evidence>>
     \/ /\ \E k \in Cases \X Generations : \E d \in Digests \ {frozen[k]} :
             frozen[k] # None /\ frozen' = [frozen EXCEPT ![k] = d]
        /\ UNCHANGED <<skill, evidence>>
     \/ \E id \in AttemptIds :
        /\ UNCHANGED <<skill, frozen>>
        /\ \/ /\ receipts[id] # None
              /\ \E f \in Edited(receipts[id]) : receipts' = [receipts EXCEPT ![id] = f]
              /\ UNCHANGED <<contexts, deliveries>>
           \/ /\ contexts[id] # None
              /\ \E f \in Edited(contexts[id]) : contexts' = [contexts EXCEPT ![id] = f]
              /\ UNCHANGED <<receipts, deliveries>>
           \/ /\ deliveries[id] # None
              /\ \E f \in Edited(deliveries[id]) : deliveries' = [deliveries EXCEPT ![id] = f]
              /\ UNCHANGED <<receipts, contexts>>
           \/ /\ Readable(deliveries[id])
              /\ deliveries' = [deliveries EXCEPT ![id].whole = FALSE]
              /\ UNCHANGED <<receipts, contexts>>
  /\ UNCHANGED <<journal, lock, pc, job, cursor, mem, held, flag, token, exit, view,
                 runs, outcome, taken>>

-----------------------------------------------------------------------------
Advance(p) ==
  \/ Load(p) \/ Reconcile(p) \/ Reconciled(p) \/ NextCase(p) \/ Choose(p) \/ Snapshot(p)
  \/ Execute(p) \/ StartVerification(p) \/ TakeInterrupt(p) \/ FinishVerification(p)
  \/ LoseVerification(p) \/ Deliver(p) \/ WriteReceipt(p) \/ WriteContext(p) \/ Record(p)
  \/ Doubt(p) \/ Review(p)

Inspect(r) == InspectOpen(r) \/ InspectCase(r) \/ InspectReport(r)

Next ==
  \/ \E p \in Procs : \/ \E j \in Jobs : Begin(p, j)
                      \/ Busy(p)
                      \/ Advance(p)
                      \/ Stop(p)
                      \/ Interrupt(p)
  \/ \E r \in Readers : Inspect(r)
  \/ Tamper

Spec == Init /\ [][Next]_vars

\* A process the operating system schedules, whose verification is bounded by
\* its step timeouts, takes its next step.
FairSpec == Spec /\ \A p \in Procs : WF_vars(Advance(p))

-----------------------------------------------------------------------------
(* Properties *)

Entries(state, c) == DOMAIN state[c].attempts

\* A process past load has the lock to itself, and its copy of the journal is
\* the journal, but for the inputs a retry froze and has not yet saved.
CopyIsCurrent ==
  \A p \in Procs : pc[p] \notin {"idle", "load"} =>
    /\ lock = p
    /\ mem[p] # journal =>
         /\ At(p, "execute") /\ job[p].cmd = "retry" /\ job[p].input # None
         /\ \A c \in Cases \ {cursor[p]} : mem[p][c] = journal[c]
         /\ Current(p).attempts = journal[cursor[p]].attempts

\* Whatever crashes, restarts and concurrent commands happen, an attempt is
\* executed at most once, and only after the journal says that it is running.
RunsOnce ==
  \A id \in AttemptIds : runs[id] # 0 => runs[id] = 1 /\ id[2] \in Entries(journal, id[1])

\* A case is attempted again only if the execution before really failed or was
\* cancelled: never after a success, never after an outcome nobody knows.
RetriesOnlyFailures ==
  \A c \in Cases : \A n \in Entries(journal, c) :
    n > 1 => outcome[<<c, n - 1>>] \in {"failed", "cancelled"}

\* An outcome in the journal is the one the execution had, even when somebody
\* edits the workspace meanwhile.
RecordedIsReal ==
  \A c \in Cases : \A n \in Entries(journal, c) :
    journal[c].attempts[n].status \in Known => journal[c].attempts[n].status = outcome[<<c, n>>]

\* A batch is reported complete only if every case's latest execution
\* succeeded and its delivery is there, bound to the receipt in the journal.
CompleteIsEarned ==
  ReviewStatus(journal, Changed(journal)) = "complete" =>
    \A c \in Cases :
      LET last == LastOf(journal[c])
          id   == <<c, last.number>>
      IN /\ outcome[id] = "succeeded"
         /\ Readable(deliveries[id])
         /\ deliveries[id].receipt = last.receipt
         /\ receipts[id] = last.receipt

\* An attempt stays unconfirmed only if its evidence is incomplete: a run whose
\* receipt, context and delivery were all saved is never written off.
NothingWrittenOff ==
  tampers = 0 =>
    \A c \in Cases : CaseStatus(journal[c]) = "unconfirmed" =>
      ~AuditsNow(c, LastOf(journal[c]), TRUE)

\* The snapshots on disk are the inputs the journal names, for the case and
\* for each of its attempts, also after a crash between freezing the inputs of
\* a retry and saving the journal.
InputsAreFrozen ==
  tampers = 0 =>
    /\ MaterialsUnchanged(journal)
    /\ \A c \in Cases : \A n \in Entries(journal, c) :
         LET attempt == journal[c].attempts[n] IN
         attempt.input = frozen[<<c, attempt.generation>>]

\* An inspection, which races with the commands that write, calls evidence
\* changed only if somebody did change something.
NoFalseAlarm ==
  tampers = 0 => \A r \in Readers : view[r] # None => view[r].changed = {}

\* An inspection's "complete" is true even if the journal it read is old.
InspectionIsTrue ==
  \A r \in Readers :
    view[r] # None /\ view[r].next = NumCases + 1
      /\ ReviewStatus(view[r].snap, view[r].changed) = "complete" =>
      \A c \in Cases : outcome[<<c, LastOf(view[r].snap[c]).number>>] = "succeeded"

\* What was saved is final.  No step of the program replaces or removes evidence or a frozen
\* snapshot; and whatever is done to them from outside, no attempt disappears from the journal,
\* and a known outcome and the digests of its evidence are never rewritten.
SavedIsFinal ==
  [][/\ tampers' = tampers =>
          /\ \A id \in AttemptIds :
               /\ receipts[id] # None => receipts'[id] = receipts[id]
               /\ contexts[id] # None => contexts'[id] = contexts[id]
               /\ deliveries[id] # None => deliveries'[id] = deliveries[id]
          /\ \A k \in Cases \X Generations : frozen[k] # None => frozen'[k] = frozen[k]
     /\ \A c \in Cases : \A n \in Entries(journal, c) :
          /\ n \in Entries(journal', c)
          /\ journal[c].attempts[n].status \in Known =>
               journal'[c].attempts[n] = journal[c].attempts[n]]_vars

\* While the outcome of any case is unknown, no attempt starts in the batch.
UnknownBlocksTheBatch ==
  [][(\E c \in Cases : CaseStatus(journal[c]) \in Unknown) =>
       \A c \in Cases : Count(journal'[c]) = Count(journal[c])]_vars

\* A command whose process keeps running ends and gives the lock back: no
\* validation of the journal and no audit can leave it stuck.
EveryCommandEnds == \A p \in Procs : ~At(p, "idle") ~> At(p, "idle")

\* The batch keeps the promise of BatchPromise.
Promise == INSTANCE BatchPromise WITH
  ledger    <- [c \in Cases |-> [n \in Entries(journal, c) |-> journal[c].attempts[n].status]],
  performed <- {id \in AttemptIds : runs[id] # 0}
KeepsPromise == Promise!PromiseSpec

\* What a test of the repository says of batch run: an interrupt that a
\* verification was told about does not start the next case.
InterruptStopsTheRun ==
  [][\A p \in Procs : taken[p] /\ pc'[p] = "verify" => pc[p] = "verify"]_vars
=============================================================================
