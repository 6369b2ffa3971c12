# SkillTape in TLA+

SkillTape records a terminal session as a *Tape*, compiles the Tape into a *Skill* package, replays
the Skill in an isolated workspace under a permission policy, and keeps *Receipts* and *Deliveries* as
local evidence of what happened. This directory models the parts of that program whose correctness
depends on order, failure and concurrency, checks them with TLC on small instances, and proves the
most important properties with TLAPS for every instance.

## 1. The system

| Component | State it keeps | Operations | Interacts with |
| --- | --- | --- | --- |
| Batch (`skilltape-cli/batch_command.rs`, `skilltape-core/batch.rs`) | the journal `.skilltape/batch-state.json`, a frozen Skill and input snapshots, one receipt, context and delivery per attempt, `batch.lock` | prepare, run, retry, reconcile, inspect | runs the verifier once per attempt; Console reads its review |
| Interrupt (`skilltape-cli/interrupt.rs`) | one static flag, one cancellation token per run | SIGINT handler, `wait_for_interrupt`, `cancellable` | Batch, Verify, Capture, Replay |
| Tape store (`skilltape-tape`) | `manifest.json` (event count, finished time), `events.jsonl`, `.store.lock` | create, append, finish, read | written by Capture, read by Compile and Console |
| Capture (`skilltape-capture`, `capture_command.rs`) | staging tape, PTY child, watcher snapshot, change channel, budgets | start, observe, cancel, time out, merge, publish | Tape store, Interrupt, directory publication |
| Runner (`skilltape-runner`) | isolated workspace, step results, event channel, child process group | prepare, run steps, cancel, time out, materialise outputs | Policy, Verify |
| Verify (`skilltape-verify`) | assertions, receipt, run context | digest inputs, run, evaluate, build and bind evidence | Runner; CLI writes its result |
| Verify attempts (`verify_attempt.rs`, `verify/attempt.rs`) | a directory of start and finish documents | begin, finish, capacity check | `verify`; Console lists them |
| Delivery (`delivery.rs`, `publication.rs`) | a staging directory, the published directory | prepare, assemble, publish | Verify, Batch, Console |
| Policy (`skilltape-policy`) | none | allow or deny a step | Runner, preflight |
| Compiler (`skilltape-compiler`) | none | tape to workflow, permissions, parameters | Tape store, core |
| Core (`skilltape-core`) | none | load, lint, template and fingerprint a package | everything |
| Export (`skilltape-export`) | a snapshot of stamps, a private copy, the output tree | select, snapshot, copy, validate, compare, publish | core, Verify (Receipts) |
| Console API (`apps/skilltape-console-api`) | none on disk | bounded reads of tapes, receipts, deliveries, batches | everything it shows |
| Console UI (`apps/skilltape-console`) | browser state | fetch, render | Console API |
| Scripts, installers, benchmarks | none | build, install, release, measure | - |

The commands are separate processes; they meet on disk. Correctness therefore rests on what each one
writes atomically (a rename or a hard link), in which order, under which lock, and on what the next
process concludes from a half-finished predecessor. The behaviours that are hard to test are:

* a process that dies, or whose write fails, between two of its durable writes;
* two commands on one workspace, and readers that take no lock;
* a SIGINT that races with the end of the work it is meant to stop;
* files that somebody edits between two commands;
* a child process that outlives its timeout, or a reader that outlives the child;
* queues, journals and byte budgets at their limit.

What makes each component correct:

* **Batch** - an attempt runs at most once and only after the journal names it; a recorded outcome is
  the real one and never changes; only known failures are retried; an unknown outcome holds the batch;
  complete means complete; every command ends.
* **Tape store** - the events are numbered without gaps, an accepted event is never lost or repeated,
  a finished Tape never changes and reads back completely, a successful read is a true prefix.
* **Capture** - what is published is complete or says that it is not; no change of a file gets lost
  unnoticed; the tape tells the files; a recording ends whatever its child does.
* **Runner** - what is staged, copied out or reviewed is one state of the directory it was read from; no step starts after a denial, a failure or an observed cancellation; outputs are
  materialised only by a successful run; no child survives its run; the final event is the last.
* **Verify, receipts, attempts** - evidence is never overwritten; a completion and an exit code are true
  of what is on disk; the outputs of a success are never lost; the journal stays within its capacity.
* **Delivery** - a published directory is complete and replaces nothing.
* **Export** - what is published is the package as it was at one moment, the package a Receipt vouches for,
  complete, and nothing that was published is replaced.
* **Policy, compiler, core** - what the linter accepts the policy allows; every observation has its step; a
  compiled recording can be replayed and yields the recorded outputs; a proposal stays inside the package.
* **Console API** - what a page says of an attempt or a delivery was true, though it is read without a lock.

## 2. Modules

| Module | Models | Kind |
| --- | --- | --- |
| `BatchJournal` | the journal's data, `BatchState::validate`, `audit`, `review` as operators | operators |
| `Batch` | the commands run, retry, reconcile and inspect, crashes, SIGINT, outside edits | state machine |
| `BatchPromise` | what a batch promises: a ledger of attempts, entered, performed once, settled or questioned | abstract specification |
| `BatchInv`, `BatchProofs`, `MCBatch` | the two inductive invariants of `Batch`, the proofs and the refinement of `BatchPromise`, instances for TLC | |
| `TapeStore` | appending to, finishing and reading one Tape, crashes and power losses | state machine |
| `TapeLog` | what a Tape promises: an append-only log that is sealed once | abstract specification |
| `TapeInv`, `TapeProofs`, `MCTapeStore` | the inductive invariant of `TapeStore`, the proofs, instances for TLC | |
| `Runner` | one run of a Skill: steps, events, cancellation, timeout, processes, outputs | state machine |
| `RunPromise` | what a run promises: steps in order, outputs at once, an honest outcome | abstract specification |
| `RunnerInv`, `RunnerProofs`, `MCRunner` | the inductive invariant of `Runner`, the proofs, instances for TLC | |
| `Verify` | `skilltape verify`: preparation, run, delivery, receipt, context and attempt journal of several commands, killed anywhere | state machine |
| `AttemptRegister` | what the journal of attempts promises: a bounded register, entered before performed, settled once | abstract specification |
| `VerifyInv` | the properties of `Verify` and its inductive invariant | |
| `VerifyConsole` | Console's list of attempts, read without the lock, composed with `Verify` | state machine |
| `VerifyProofs`, `MCVerify` | the proofs for both, instances for TLC | |
| `Changes` | how raw file events become changes, and how the timeline of a recording is merged | operators |
| `ChangesProofs` | lemmas about `Changes`: what a scan finds, what a batch names, what a merge does | |
| `Capture` | a recording: terminal, poller, watcher, collector, limits and publication | state machine |
| `CaptureInv`, `CaptureProofs`, `MCCapture` | the properties of `Capture` and its inductive invariants, the proofs, an instance for TLC | |
| `TreeReads` | directories that are read while others write: staged inputs, copied outputs, reviewed deliveries | state machine |
| `TreeReadsInv` | the properties of `TreeReads` and its inductive invariant | |
| `Export` | `skilltape export`: several exports to one place while the package is edited | state machine |
| `ExportInv` | the properties of `Export` and its inductive invariant | |
| `ReadingProofs`, `MCTreeReads` | the proofs for `TreeReads` and `Export`, an instance of the two for TLC | |
| `Policy` | the linter and the policy engine, which decide on the same package separately | operators |
| `Compiler` | events to operations, steps, scopes, outputs and provenance | operators |
| `Proposal` | `apply_proposal`: a provider's steps inside a compiled package | operators |
| `Pipeline` | a recording that is compiled, linted and replayed | state machine |
| `PipelineInv`, `PipelineProofs`, `MCPipeline` | the properties of `Pipeline` and its inductive invariant, the proofs, an instance for TLC | |

How they fit together. `Batch` sees the verifier as one execution that ends in an outcome
(`StartVerification` to `FinishVerification`); `Verify` is that command as a process of its own, and
sees the run as one step (`FinishRun`); `Runner` is the inside of that step. `Capture` produces the two
streams that `Changes!Merge` orders, `TapeStore` is what they are written to, and `Pipeline` composes
`Changes`, `Compiler`, `Policy` and the effect of the steps on the files. `TreeReads` is the reading of
directories that `Runner` (inputs and outputs) and Console (deliveries) each treat as one step.

A definition marked `\* mutant` is no part of the specification: it is the definition after it with a
plausible mistake (a dropped guard, a forgotten sync). Substituting it must make TLC report the
property listed with it in `PROJECT.json`, which shows that the property depends on that code.

### Batch

One process (`Procs`) is one CLI invocation. Its `pc` names the place in the code:

| `pc` | code (`batch_command.rs`) | action |
| --- | --- | --- |
| `idle` | before `lock_named` | `Begin` (lock taken), `Busy` (refused, exit 2) |
| `load` | `load`, `materials` | `Load` |
| `reconcile` | the loop of `reconcile` | `CheckOutcome`, `Recover`, `GiveUp`, `SkipPending`, `Reconciled` |
| `next` | the loop of `run`, Run arm | `NextCase` |
| `choose`, `snapshot` | Retry arm, `retry_input` | `Choose`, `Snapshot` |
| `execute` | `execute` up to its first `save` | `Execute` |
| `verify`, `running` | `execute_verify`, `cancellable` | `StartVerification`, `TakeInterrupt`, `FinishVerification`, `LoseVerification` |
| `deliver`, `receipt`, `context`, `record` | `Delivery::finish`, `write_receipt` twice, `audit` and `save` | `Deliver`, `WriteReceipt`, `WriteContext`, `Record` |
| `doubt` | the error branch of `execute` | `Doubt` |
| `stopped`, `review` | the final `review` and the exit code | `Review` |

`Stop` ends a process at any place: it is killed, or a check or a write of its own fails (exit 2).
`Interrupt` sets the static flag. `InspectOpen`, `InspectCase` and `InspectReport` are `batch inspect`,
one case per step because it takes no lock. `Tamper` is somebody who changes the frozen Skill, an input
snapshot or a file of evidence while no rule stops them.

The disk is `journal`, `skill`, `frozen`, `receipts`, `contexts`, `deliveries` and `lock`; everything
else of a process is lost when it ends. `runs`, `outcome` and `taken` are history: how often an attempt
was executed, how that execution really ended, and whether a run of this command consumed an interrupt.

Abstractions. A SHA-256 digest is the value it digests. A receipt keeps the Skill and the inputs it was
made from (its run id is a digest of them) and its status; `run_failed` and `assertion_failed` are both
`failed`, as `audit` maps them. `delivery.json` and the digest of the delivered artifacts are one value,
`whole` says whether the artifacts still match. Byte budgets, path checks and the replacement of the
whole workspace are refusals (`Stop`). The revision counter of the journal is left out: nothing reads
it but the report.

Bounds: `NumCases` (code: 16), `MaxAttempts` (code: 3), `MaxTampers`, and the number of processes. Two
cases are enough for one case to hold back another; three attempts are the code's own limit; one edit
is enough to change any one file between any two steps, and the proofs hold for any number.

### Tape store

A writer is one call of `append` or `finish` in one process (`store.rs`):

| `pc` | code | actions |
| --- | --- | --- |
| `idle` | before `lock_exclusive` | `Lock` |
| `locked` | the checks of `append` (112-146) or `finish` (156-179) | `Refuse`, `Repair`, `StartLine`, `SealTape` |
| `line`, `newline` | inside `to_writer` (148), before `write_all(b"\n")` (149) | `EndObject`, `EndLine` |
| `sync` | before `sync_all` (150) | `Sync` |
| `manifest` | before `write_manifest` (151) | `CountEvent` |
| `counted`, `repaired` | before the return | `Return` |

`Stop` ends a call anywhere: the process dies or a write fails; the operating system releases the lock.
`PowerLoss` keeps a prefix of the file that has at least what was synced and may cut one event anywhere.
A reader (`Open`, `ReadEvent`, `ReadEnd`, `ReadError`) is an `EventIter`: it takes no lock, reads the
manifest once when it is opened and then the file line by line.

Abstractions. A line is a piece: an event or a proper prefix of one (`Fragment`), with or without its
newline; two pieces without a newline between them are one line that does not parse (`ParsesAt`).
Creation is the initial state. Writing and renaming the manifest and syncing its directory are one
durable step. A refused call changes nothing. The byte budgets of a line and of the file are refusals.
`written`, `recovered` and `losses` are history: what callers were told, and how often power was lost.

Bounds: `MaxEvents` (code: no limit), `MaxLosses`, the writers and readers. Two events are enough for
one that is acknowledged and one that is torn or repaired; the lock leaves one writer at a time, so a second one matters to the lock only; two bodies tell a retry of the same event from
a different one with the same number.

### Runner

One behaviour is one call of `run_skill` with the process that made it. `package` chooses which steps
spawn a process, which ones the policy denies, whether outputs are declared, and in `contained` the
platform.

| `pc` | code (`skilltape-runner`) | actions |
| --- | --- | --- |
| `setup` | `lib.rs` 252-284 | `Setup`, `SetupFails` |
| `loop` | 286-302 | `StartStep`, `SeeCancellation`, `NoMoreSteps` |
| `check` | 304-341, `execution.rs` | `Deny`, `WorkLocally`, `Spawn`, `SpawnFails` |
| `wait` | the `select!` of `process.rs` 114-129 | `ChildExited`, `TimesOut`, `IsCancelled` |
| `term` | `terminate_child` | `KillGroup` |
| `join` | `join_readers` | `JoinReaders`, `GiveUpReaders` |
| `after`, `publish` | `lib.rs` 387-425, `workspace.rs` 141-217 | `PublishNothing`, `Stage`, `Publish`, `PublishFails` |
| `return`, `error` | 407, 427 | `Return` |
| `ended`, `crashed` | the result is known; the command was killed | |

Every `emit_event` is an await of its own: `Emit` puts the event in `outbox`, `run_skill` takes no other
step while it is there (`At`), and `Send` or `SendFails` ends the wait. `Receive` is the loop of
`run_package` and of `verify_run_with_context`. `Interrupt` is the SIGINT handler, `TakeInterrupt` the
moment `cancellable` notices the flag and sets the token.

The child is `running`, `zero` or `nonzero` (exited and not yet reaped) or `none`. Any process it leaves
behind is a record in `background`: its step, whether it is in the process group, whether it holds the
pipes. `package.contained` is the platform: with bwrap the command runs in a session and a process namespace of
its own, so nothing but the sandbox is in the group and everything ends with it (`NamespaceEnds`,
`DieWithParent`); with sandbox-exec neither is so. Windows is not modelled.

Abstractions. The contents of files and outputs, their budgets and the policy records are left out; a
budget that is exceeded is `SetupFails`, `WorkLocally` with `Failed` or `PublishFails`. `WorkLocally`,
staging and the rename are single steps of this task: none awaits, and only the rename touches what
others see. `late` counts steps begun after the token was set; it is history.

Bounds: `NumSteps` (code: no limit), `Capacity` (code: 64), `MaxBackground` (no limit). With capacity 1
the channel is full after any event that is not received; two steps put one before and one after
the one that fails; two background processes are enough for one to be in the group and one outside it.
The proofs hold for any values.

### Verify, attempts and delivery

One process of `Verify` is one invocation of `skilltape verify`. Its arguments (`request`) say whether it
has a journal, where it writes receipt and context, and whether it makes a delivery.

| `pc` | code (`run_command.rs`, `verify_attempt.rs`, `delivery.rs`) | actions |
| --- | --- | --- |
| `idle`, `begin` | `verify`, `AttemptJournal::begin` | `Start`, `Begin`, `BeginFails` |
| `write`, `link`, `unlink` | `write_receipt` for the document `doc` | `Create`, `Link`, `Unlink`, `WriteFails`, `SyncFails` |
| `preflight` | `preflight_receipt_paths` | `Preflight`, `PreflightFails` |
| `prepare` | `execute_verify_observed` up to `before_run`, `Delivery::prepare` | `Prepare`, `PrepareFails` |
| `invoke`, `submit`, `running` | `before_run`, `verify_run_with_context` | `Invoke`, `Submit`, `FinishRun`, `RunFails` |
| `assemble`, `inventory`, `publish` | `Delivery::finish` | `Assemble`, `Inventory`, `Publish`, `DeliveryFails` |
| `exited`, `dead` | the process is over; dropping the journal releases the lock | `Exit`, `Die` |

`Die` is possible at every place: SIGKILL or a power failure of the process. The journal's documents, the
receipt and the context all go through the same three steps: a private temporary file beside the name,
a hard link to the name, which fails if the name is taken, and the unlinking of the temporary file.
`temp` is what of it is left. `Name` is what the link makes visible. A delivery is a set of members in a
private directory (`stage`) until one rename that fails if the destination exists. `Conclude` is the way
out: with a journal the finish document comes first. `ran` is history.

`VerifyConsole` adds readers: `OpenList` and `CloseList` are the enumeration of the journal, which may or
may not find what appears meanwhile, `ReadStart` and `ReadCompletion` the two documents of each attempt.
A document with two links is refused (`Readable`), and so is the whole list.

Abstractions. The run is one step: that it comes to an end is `RunEnds` of `Runner`. Whether the
assertions hold is a choice. Receipt and context are their author, kind and status; the digests that
bind them are that equality. Byte limits and path checks are refusals. A power loss that takes a link
back is not modelled: the documents' directories are synced by the journal and not by `write_receipt`.

Bounds: two commands, two evidence paths (crosswise, and both at one path), a journal that holds one
attempt, so that the second command meets a full, a busy or a half-written directory; one reader. The
proofs hold for any number.

### Capture

One behaviour is one `skilltape capture`, as five parties that share queues and flags:

| Party | state | code | actions |
| --- | --- | --- | --- |
| the command in the terminal | `child`, `held`, `disk` | external | `Edit`, `ChildExits`, `HolderExits` |
| the session | `session`, `tape` | `session.rs`, `capture_terminal` | `Open`, `Notice`, `Interrupt`, `Kill`, `TerminalFails`, `FinishCapture`, `FinishError`, `StoreFails` |
| poller and watcher | `seen`, `raw`, `overflow`; `watcher`, `batch`, `out`, `known`, `recent` | `filesystem.rs` | `Poll`; `Take`, `CloseBatch`, `Send`, `WatcherFails`, `WatcherStops` |
| the collector | `channel`, `collected` | `collect_changes` | `Collect`, `CloseCollector` |
| the command itself | `main`, `late`, `target`, `exit` | `capture` | `Cancel`, `StopWatcher`, `GiveUp`, `Publish` |

The poller compares snapshots and puts what differs in the raw queue; what does not fit raises a flag.
The watcher adapts a batch to the files *as they are when the batch closes* (`Adapt`, with its renames
inferred from one creation and one deletion), reconciles it with the paths it knows and drops what it
sent in the last 250 ms (`recent`; the time is a choice). The collector cancels everything when the
budget is spent. `late` is `capture_cancelled`: the token read when the session returns. `dropped` and
`initial` are history.

Abstractions. Terminal output is one event; the staging tape is the number of its events and its last
one. Redaction, terminal size and input, and the directory publication's checks are left out.

Bounds: two files, so that a creation and a deletion meet in one batch and a raw queue of two
(code: 64) overflows once two edits are two polls apart; a channel of one (code: 1024) so that the
watcher waits for the collector; `MaxEvents` 5 (code: 10000) so that three changes exceed the budget
and two do not.

### Reading trees

`TreeReads` is one reader and the programs that write to the directory it reads. `kind` chooses between
three protocols of the code that have the same shape:

* `inputs`: `inventory` of the tree, every file opened and compared with it and read, the inventory
  once more (`skilltape-verify`, `workspace.rs`);
* `outputs`: `copy_entry`, each file looked at, read and looked at again, the directory's stamp before and
  after (`workspace.rs`);
* `review`: Console's `deliveries.rs`, the files against `delivery.json`, then every file, the names and
  the manifest a second time.

`at` names the comparisons in their order. A read of a file that changed meanwhile yields anything of the
same length. `seen` is history: what the directory held while it was read.

Assumption: every change of a file gives it a stamp (device, inode, size, times) it never had before.
Two writes of the same size within the clock's granularity break it; the code relies on it as well.

Bounds: two files, so that one changes while the other is read; two contents; three changes, so that a
change can be made, undone and the directory moved away in between.

### Export

One process of `Export` is one `skilltape export`; `request` says whether it names a Receipt and whether
the target puts the package into a directory of its own (`codex` and its siblings). Either adds an outer
layer with a private directory and a publication of its own (`Layered`); the inner publication then goes
to that private directory, where nobody else is.

| `pc` | code (`generic.rs`, `snapshot.rs`, `receipt.rs`) | actions |
| --- | --- | --- |
| `idle`, `parse` | `SkillPackage::load`, `parse` of the Receipt | `Load`, `Parse` |
| `reserve` | `ensure_output_absent` and the private directory; with a layer first, without one after the snapshot | `Reserve` |
| `select`, `select again` | `export_files`, before and after | `SelectFiles`, `SelectAgain` |
| `capture`, `copy`, `check` | `Snapshot::capture`, `copy_to` with its check | `Capture`, `Copy`, `Check` |
| `validate`, `check again` | load, lint and digest of the copy; `snapshot.check()` | `Validate`, `Check` |
| `compare`, `last look`, `publish` | the digest against the Receipt, `ensure_output_absent`, the rename | `Compare`, `LastLook`, `Publish` |

`Stop` ends a command anywhere: a comparison that fails, an error or a kill. `Edit` changes, makes or
removes any one file of the package. `basis` is history: the package at the moment of `Validate`.

Abstractions. `workflow.yaml` and `skilltape.lock`, which the linter compares, are one document; the
other required files behave like fixtures that are always there. A digest is what it digests. Opening,
reading and looking again at one file are one step: the second look decides, as in `TreeReads`, with the
same assumption on stamps. A Receipt is whatever the caller supplies, as nothing authenticates it
(`receipt.rs:125`): of the package it names only a workflow is asked. Its digest covers the whole tree, as
`digest_tree` does. Limits and unsafe paths are refusals; modes and layouts are left out.

Bounds: two commands for one destination, one file of each kind, two contents of which one runs the
script, one edit, which can fall between any two steps; the proofs hold for any number.

### From a recording to a replay

`Pipeline` composes the operators. `Start`, `Edit`, `MoveByHand`, `Poll`, `Output` and `Finish` record a
tape; `Compile` is the compiler with the linter and the publication of the package; `ReplayStep`,
`ReplayDenied`, `ReplayFails` and `Deliver` are the run of the compiled package on a copy of the inputs.

* `Changes` is `adapt_events`, `infer_single_poll_rename`, `reconcile_kind` and
  `compare_timeline_events`.
* `Compiler` is `compile_steps` (the changes of a path within one command are merged into the last one)
  and `build_compilation` (steps, scopes, outputs, lock file, provenance).
* `Policy` has the linter's and the policy engine's own reading of paths and scopes: the code has two
  copies of `path_matches_scope` and two definitions of a safe path, and `LintMeansAllowed` compares them.
* `Proposal` is `apply_proposal`; it has a third reading of both.

A path is its components. What the readings look at in a name is told by sets of names: `Drives` and
`Prefixed` (`C:`, `C:x`), `Colons`, `Backslashed`, `Controlled`, and `Placeholders` with the inputs that a
name refers to. The empty sequence stands for a path that is left out: the schema lets an assertion have
none, the linter and `apply_proposal` then check nothing, and the policy engine checks the empty string.
`Written` is the path the compiler makes of a name with a backslash.

`Output` chooses how a command ends; `failed` collects those that did not exit with 0, which the compiler
passes over (`validate_capture_completion`). The replay of such a command is the outcome `failed`, as is a
move or an assertion that does not pass. A command that does not start, or does not end in time, is
`stopped`, which may happen to any. `misread` is history: a change was compiled as something else than it
was, because a creation and a deletion of a command were taken for a move or a backslash for a slash.

Assumptions, each named in the module: a command does again what it did when it was recorded, and fails
again if it failed; the writer
of the tape sees all changes of a command before the next one starts; a person moves at most one file
between two commands, and only what the poller has seen; each poll is a new millisecond and what the
terminal records after it falls in that same one, which is the tie the merge has to break.

Abstractions. A hash is the content, a scope a base and how far it reaches. Globs other than `/*` and `/**`
at the end are left out, as are templates, skill text, environment and network rules. Of the arguments of
a proposal nothing is checked: what `validate_arguments` refuses (networks, secrets, paths out of the
workspace) the model accepts, so it accepts more proposals than the code. The linter is the one of Unix;
on Windows it refuses `C:x` as well. Scripts are steps of edited packages and of proposals; the compiler
makes none.

Bounds: one input, one output, one file that is delivered to the same place as the output, and one whose
name has a backslash and is compiled as the output; two contents; two commands and two edits.
`CommandLines` gives what the first and the second command may be: one that names an input, one with an
undeclared placeholder, one that the built-in rules deny. `Works` says what each may do to the files, and
`HandMoves` which moves a person makes: the input becomes an output, the output goes to the other file or
back to the input, and the odd name, which so comes up as a change and as the source of a move, becomes a
plain one. `MayFail` lets the second command fail, which
has steps before it and files of its own; a first one that fails ends the replay at once. `AddedSteps`, `Wider` and
`NewSteps` give the edits of a package and the proposals that are tried: every kind of step, with and without a
path, on the names that the readings tell apart. The theorems take any package and any proposal.

## 3. What the runs check

| Run | Instance | Properties | Shows |
| --- | --- | --- | --- |
| `batch_queue` | 2 cases, 2 attempts, 1 process | `RunsOnce`, `UnknownBlocksTheBatch`, `KeepsPromise` | the batch refines `BatchPromise` through any sequence of commands, crashes and interrupts |
| `batch_tamper` | 1 case, 3 attempts, 2 contents, 1 edit | `RetriesOnlyFailures`, `RecordedIsReal`, `CompleteIsEarned`, `NothingWrittenOff`, `InputsAreFrozen`, `SavedIsFinal` | no crash between two writes loses, replaces or writes off evidence, and the journal stays true when somebody edits the workspace |
| `batch_concurrent` | 1 case, 2 attempts, 2 processes, 1 inspection | `NoFalseAlarm`, `InspectionIsTrue`, `EveryCommandEnds` | an unlocked inspection is never wrong, and no state an earlier crash leaves makes a command hang |
| `batch_interrupt` | 2 cases, 1 attempt | `InterruptStopsTheRun` | expected violation, see section 6 |
| `tape` | 2 writers, 1 reader, 2 bodies, 2 events, 1 power loss | `AcceptedIsKept`, `FinishedIsComplete`, `ReadIsComplete`, `KeepsLog` | acknowledged events survive crashes and a power loss, a read without a lock is complete or fails, and until power is lost the store is an append-only log |
| `tape_join` | 1 writer, 2 events | `AcceptedIsReadable` | expected violation, see section 6 |
| `runner` | 2 steps, capacity 1, 2 background processes, both platforms | `EventsTellTheRun`, `OneStepAfterCancel`, `NothingLeftRunning`, `KeepsPromise`, `RunEnds` | a run refines `RunPromise`, its events tell the same story, cancellation is prompt, termination leaves nothing of the group, and nothing the child does keeps the run from ending |
| `verify_command` | 2 commands, 1 reader, 2 paths, 1 attempt | `CompletionIsTrue`, `ExitIsHonest`, `OutputsAreKept`, `ViewIsTrue`, `KeepsRegister`, `EveryVerifyEnds` | the journal is a bounded register, its completions, the exit codes and the displayed rows are true of the disk, outputs are never lost, and every command ends |
| `attempt_inspect` | 1 command, 1 reader | `InterruptedIsInspectable` | expected violation, see section 6 |
| `capture` | 2 files, queues of 2 and 1, 5 events, 2 edits | `PublishedIsWhole`, `EveryChangeIsNamed`, `CaptureEnds` | what is published is whole or says that it is not, no change gets lost unnoticed, and a recording ends |
| `tree_reads` | readers: 2 files, 2 contents, 3 edits; exports: 2 commands, 3 files, 2 contents, 2 Receipts, 1 edit | `CopiesHoldStill`, `ReviewIsOneMoment`, `ExportIsCurrent`, `ReceiptVouches` | what was staged, copied or reviewed without an error held still; what is exported was the package at one moment and is what its Receipt vouches for |
| `pipeline` | 4 paths, 2 contents, 2 commands of which one may fail, 2 edits | `TapeTellsTheFiles`, `EveryEventIsCited`, `OnlyTheseFail`, `OutputsAreTheRecorded`, `LintMeansAllowed`, `ProposalsStayInside` | the tape tells the files, every observation has its step, a replay fails only for named reasons and delivers what was recorded, and linter, policy engine and proposals differ in the named cases only |

A run that checks a liveness property explores the fair specification; its safety properties do not
depend on that, as fairness removes no reachable state. The writers of `tape` and the exports of
`tree_reads` are symmetric (`SYMMETRY`); these runs have no liveness property, for which symmetry would
not be sound.

A behaviour of `tree_reads` is either one reader of `TreeReads` or two exports; they never meet, and the
variables of the other component stay `None`. `CopiesHoldStill` asks less of copied outputs than of inputs:
the copy looks at each file before and after it is read and at the directory before and after all of it,
so names are fixed, but two files may be of different moments.

`OnlyTheseFail` names the ways in which a step of a package that compiled fails: it is a command that failed
when it was recorded, or a change was misread. `LintMeansAllowed` and `ProposalsStayInside` say what the
policy engine can still refuse of what the linter or `apply_proposal` accepted: `Foreseen` lists it, and section
6 names the code.

Deadlock is checked for `Batch`, `TapeStore` and `Verify` with its readers: an idle process can begin, a
page can be reloaded. A run of `Runner`, a recording, a tree read, an export and a pipeline end, and then
nothing more happens (`CHECK_DEADLOCK FALSE`); that the first two do not stop earlier is `RunEnds` and
`CaptureEnds`.

Fairness. A process or task the operating system and tokio schedule takes its next step: weak fairness
of `Advance(p)` in `batch_concurrent`, of `RunSkill` and `Receive` in `runner`, of `Command(p)` in
`verify_command`, and in `capture` of the session, the collector and the command together. The end of a
verification in `Batch` and of a run in `Verify` is the one step that is not their own; it is bounded by
the step timeouts, which is what `RunEnds` shows. `Expire` is fair because tokio's timer fires. The child
of a run is not fair: it may run for ever. In `Capture` the watcher is trusted only to notice that it is
stopped, and the time limit comes; a process that was left behind and holds the terminal is assumed to
end (`HolderExits`), because the code waits for it without a limit. Nothing is assumed of `Begin`,
`Start`, `Lock`, `Open`, `Stop`, `Die`, `Interrupt`, `Crash`, `HangUp`, `Tamper`, `Edit` or `PowerLoss`.

## 4. What is proved

All theorems hold for every value of the constants under the named assumptions of the modules (the
numbers are natural, the capacity is positive, the special values are not members of the sets they must
be told apart from). Each component has an inductive invariant, or two where properties rest on different
parts of the state; TLC checked each before it was proved. One lemma per part of it goes through the
actions, and a theorem per property follows.

**Batch** (`BatchInv`, `BatchProofs`). `RunsOnce` and `RecordedIsReal` are not inductive: that a run is
about to start only for an attempt that never ran follows from the order journal, run, evidence, and
needs `ControlInv` (only the holder of the lock is past `load`, and its copy of the journal is the one
on disk), `JournalInv` (the journal loads) and `OutcomeInv` (the receipt in memory or on disk states how
the execution ended, and there is none before). From `Invariance` follow `CopiesAreCurrent`,
`AttemptsRunOnce`, `RecordedOutcomesAreReal`, `OnlyFailuresAreRetried`, `CompletionIsEarned`.

What remains true when somebody edits the workspace rests on a second invariant, `SafeInv`: which files of
an attempt exist at each place of its execution and agree with the inputs it was frozen with, as long as
nobody has touched them, and what an inspection has read so far. `SafeInvariance` proves the two together,
and from them follow `EvidenceIsUsed` (an attempt whose evidence is complete and untouched is not written
off), `InputsStayFrozen`, `InspectionRaisesNoFalseAlarm` and `InspectionTellsTheTruth` (the inspection reads
one case per step without a lock, so its claims are about what was there when it read, which a growing
journal can only extend), `SavedStaysFinal`, `UnknownBlocks`, and the refinement `BatchKeepsPromise`: saving
the journal with a new attempt is `Enter`, `StartVerification` is `Perform`, saving what the evidence says is
`Settle`, saving that there is none is `Question`, whichever command does it, and everything else stutters.
`AbsentAssumption` says that the place holder of a file that is not there is not the digest of one.

**Tape store** (`TapeInv`, `TapeProofs`). The argument is the order file, sync, manifest: `WriterInv` says
at every place of an append what of it is in the file and synced, `Numbered` that a text carries its
place, `AckInv` where an acknowledged event is, and that a power loss can only cut a recovered event off
together with everything behind it. `RepairIsEnough` and `FinishedIsComplete` are conjuncts. From
`TapeInvariance` follow `AcceptedEventsStay`, `OneRepairSuffices`, `FinishedTapesAreComplete`,
`CompletedReadsAreComplete`, `FinishedTapesAreFinal` and the refinement `StoreKeepsLog`: until the first
power loss every step of the store is a step of `TapeLog` or none.

**Runner** (`RunnerInv`, `RunnerProofs`). `SummaryInv` says what the summary is at every place of
`run_skill`, `OutputInv` and `ResultInv` tie the output directory and the result to it, `LateInv` that
the one late step is the one between two looks at the token, `ProcessInv` that after `KillGroup` the
group of the step is empty, `EventsInv` how many events were sent at every place and what they say;
`Send` and `Receive` only move an event along `received \o channel \o outbox`. From `RunnerInvariance`
follow `CancellationIsPrompt`, `TerminationIsComplete`, `EventsAreComplete` and the refinement
`RunnerKeepsPromise`: the end of a step is `Perform`, the rename is `Publish`, the three ways to return
are `Report`, and everything else stutters.

**Verify** (`VerifyInv`, `VerifyProofs`). What a command knows at each place is local (`LocalInv`): how far
its run is, what its staging directory holds, which of its evidence is in place, where its attempt
stands. The proof has two halves. Another command's step keeps all of it, because it changes only what
is its own (`OthersKeep`), because nothing that is published is ever replaced (`StepReplacesNothing`, from
the check that the name is free in `Link` and `Publish`), and because only the holder of the lock makes a
start document. The command's own step keeps it action by action (`ProgressStep`, `StageStep`,
`EvidenceStep`, `JournalStep`). `CompletionIsTrue` and `ExitIsHonest` are not inductive: they need to know
that a command which is about to write its receipt has delivered, and so on back to the run. The bound of
`AttemptRegister` rests on `Entering(p) => Cardinality(Started) < MaxAttempts`, which holds from the check in
`Begin` to the link because the lock keeps every other command from linking a start. From `VerifyInvariant`
follow `VerifyCompletions`, `VerifyExits`, `VerifyKeepsOutputs`, `VerifyReplacesNothing` and the refinement
`VerifyKeepsRegister`: the link of a start is `Enter`, `Submit` is `Perform`, the link of a completion is
`Settle`, and everything else stutters. For Console, `ViewInv` says that a row repeats the completion it
was read from; since completions are final and true, so is the row (`ConsoleShowsTheTruth`).

**Export** (`ExportInv`, `ReadingProofs`). `CopyInv` says that the copy of a file is what the file holds for as
long as it still has the stamp of the snapshot; an edit gives a stamp of the future (`StatInv`), so it can
only end that. `BasisInv` carries it over to the package at the moment of the validation: a file that the
second check still finds unchanged was the same at that moment, so when all are checked the copy is the
package of one moment. `VouchedInv` keeps the comparison with the Receipt until the rename. From
`ExportInvariance` follow `ExportsAreCurrent` and `ReceiptsVouch`. That nothing is replaced is the guard of the
rename and needs no proof.

**Reading trees** (`TreeReadsInv`, `ReadingProofs`). The argument is the stamps again: `BytesInv` says that what
was read of a file is what it holds as long as it has the stamp it was looked at with. When the last round
of comparisons begins there is one state of the directory that agrees with what was read of every file that
will still pass (`Agrees`): a file that fails ends the reader, and one that passes was unchanged since. For
copied outputs only the names are of one moment (`NamesInv`), by the directory's own stamp. From
`ReadsInvariance` follow `CopiesAreWhole` and `ReviewsAreOfOneMoment`.

**Capture** (`CaptureInv`, `CaptureProofs`). Two invariants about different halves of the state. `IInv` is about
the session: what the staging tape holds at each place (`SessionInv`), and that the command publishes it
last and unchanged (`MainInv`); `RecordingsAreWhole` follows. `NamesInv` follows a change from the poller to the
collector: a file that differs is named by a change that was sent, or an event about it is queued
(`NothingLost`), unless a queue was full or something was dropped; and a change that counts as repeated was
sent. The step that needs work is `CloseBatch`, where a batch of events becomes changes: `AdaptNames` proves
that notification order, moves that are inferred and modifications that are left out lose no path, and
`FreshSends`, by induction over the batch, that neither reconciliation nor the removal of repetitions does.
`ChangesAreNamed` follows.

**Changes** (`ChangesProofs`). `Induction` is induction over the numbers of a set, in the place of the library's
theorems, which take an operator. `Ranks` and `Listed` are the theory of listing a finite set in a strict
order: the rank of an element is how many are before it, every rank below the size occurs once, so
`InOrder` is a bijection that respects the order. On them rest `ScanFinds` (a scan reports the files that
differ and no others), `AdaptNames`, and `MergeReorders`: a merged timeline has the entries of both sources,
each once, in the order of `TimelineBefore`, ties left as they came. `ReplayedTells` reads a tape back: a path
holds in the end what the last change that mentions it says, and what it held before if there is none;
`MergeKeepsTheLast` says that merging leaves the last change of a path the last one.

**From a recording to a replay** (`PipelineInv`, `PipelineProofs`). `TapeInv` types the recording and the tape.
`ToldInv` says that changes are collected in the order of the timeline, and that the last one of every path
tells what the poller saw of it; a poll keeps it because a batch has an entry for every path that differs
(`BatchTells`) and is not earlier than what was collected before. `TapeTells` follows when the tape is written.
`PackageInv` says that a package that is replayed is what its tape compiles to and passes the linter.
`EventsAreCited` is proved by induction over the events the compiler has read (`Scanned`): the sources of the
operations are disjoint, in order, and together are the events read so far (`Ledger`); a refusal stays one.
`LintedIsAllowed` compares the linter with the policy engine, for any package whose paths are sequences of
names. If the linter accepts a path in a scope, the base of that scope is a beginning of the path, so what
the engine would refuse in the base it refuses in the path: it accepts both, or the path is `Peculiar` (there
is none, it is or begins like a drive, or a name has a backslash or a control character). A scope that the
linter accepts and the engine ignores can thus never make the difference. `ProposalsAreInside` does the same
for `apply_proposal`, for any proposal, and adds that its steps cite events of the package. The packages and
the proposals of the run are shown to be instances. Assumptions: the names of `NamesAssumption` are strings
and those of drives have a colon; `inputs` and `workspace`, which the compiler uses, have no
placeholders; two paths have different components; `Written` changes a path only for its backslashes, leaves
none and keeps what can be recorded (`WrittenAssumption`); programs and contents are of their types.

That a replay repeats the recording is a simulation (`ReplayInv`, proved on top of `IInv` in
`ReplayInvariance`). `Story` is its relation: `files[n]` is the workspace after the first n operations the
recording has compiled to so far, and `count[n]` how many commands are among them. While a command runs its
operations are in question: its changes may still be merged, and what they say is what the poller saw last,
not what is on disk. So `Unmoved` asks only that everything before the last command is as it was recorded,
that the last command's edits give the present files, and that its changes tell what was seen (`Shows`); each
of them is the one `index` points to, so a later change of the path can replace it. The next command, which
starts when the poller has seen everything, makes the rest final (`StartFollows`). A move by hand stands for
itself (`MoveRecounts`), which holds because the poll after it reports that one move and nothing else
(`MovesAreInferred`). `ScanInv` and `ClockInv` connect this to the tape: every new event comes last in the
merged timeline (`TapeGrows`), so the compiler has read the same events before it (`ScanGoesOn`), and a scan
that is refused has a reason on the tape (`Excused`). At the end `StepPasses` and `StepApplied` show that a
step does to the files of the replay what its operation did to those of the recording, unless it is a
command that failed, `CompiledLints` that
the linter accepts what the compiler derives, and `OnlyProgramsAreDenied` that the policy engine can then
deny a program only. `OnlyTheseReasons` and `RecordedIsDelivered` follow. `StoryInv` has quantifiers over
functions that TLC cannot enumerate, so the run checks the two properties and not the relation.

Some definitions were written so that they can be reasoned about, with the same meaning: sorting is
`InOrder` instead of `SortSeq`, what runs over a sequence is a recursive function instead of `FoldLeft`, and
the guards of a `CASE` exclude one another, because `CASE` is not first-match in TLA+.

Only model-checked: all liveness properties (`EveryCommandEnds`, `RunEnds`, `EveryVerifyEnds`, `CaptureEnds`),
because fairness is out of the prover's reach.
`InterruptedIsInspectable` and the other expected violations are what the code does, and nothing is proved
about them.

## 5. What is not modelled

* In the modelled components: file contents and hashing, byte budgets, path and symlink checks (they are
  refusals), the policy records of a run, errors of `waitpid`, reuse of process ids, Windows.
* Batch: the workspace can be replaced between `BatchLock::check` and the write that follows it
  (`batch_command.rs:253`); the model takes the workspace to stay the same directory.
* Tape store: creation, and the removal of the directory when it fails (`store.rs:88`); it happens before
  anybody else can know the Tape.
* Capture: redaction and the secret store, terminal input and size. They change what an event says, not
  which events there are.
* Two polls whose changes are collected in the same millisecond are ordered by kind, a creation before a
  deletion; and a clock that is set back reorders the timeline. `Pipeline` assumes neither happens.
* Policy: network, environment and risk rules; Core: loading, templates and fingerprints. They are parsing
  and table look-ups without state.
* Verify: the evaluation of assertions and the schema of receipts.
* Console API: routes, coverage, comparison and the library of receipts, which read one file each.
* Export: plugins and the registry of targets.
* Schema, Console UI, scripts, installers and benchmarks: documents, rendering and build tooling.

A next step would be power losses in `Verify`.

## 6. Findings

| Run | Disagreement |
| --- | --- |
| `batch_interrupt` | The running verification consumes the interrupt flag. If that run no longer looks at its token, the case ends as if nothing had happened and `batch run` starts the next one; the test `interrupt_retains_cancelled_evidence_and_does_not_start_the_next_case` says it does not. |
| `tape_join` | An append that dies between an event and its newline leaves an event that is counted by the repair; the next append writes to the same line, both calls return Ok, and the Tape can no longer be read. `tape-format.md` says a single already-written event is repaired. |
| `attempt_inspect` | A command killed between linking a journal document and unlinking its temporary file leaves a document with two links. Console refuses the attempt and the whole list, and every later attempt in that directory is refused. The README says interrupted attempts can be inspected in Console. |

Met while modelling; the models allow these behaviours and no run is devoted to them:

* `finish` counts an event that a dead writer never synced (`store.rs:174`); after a power loss a finished
  Tape has fewer events than its manifest counts (`tape-format.md:33`).
* Ctrl+C during a file or assert step, or after the last look at the token, does not cancel the run
  (`skilltape-runner/src/lib.rs:387`): it succeeds and publishes (`configuration.md:67`).
* On macOS a process that a step leaves behind without the pipes outlives a run that succeeded
  (`process.rs:115`).
* `infer_single_poll_rename` (`filesystem.rs:561`) compares no contents: a command that deletes one file and
  creates another is recorded as a move, and its replay fails at that step (`misread` in `OnlyTheseFail`).
* The compiler does not look at the exit code of a recording (`skilltape-compiler/src/lib.rs:150`): a command
  that failed becomes a step that must exit with 0 (`execution.rs:124`), and its replay fails there.
* An assertion without a path, which the schema allows (`workflow/v1.json`), passes the linter (`package.rs:303`)
  and `apply_proposal` (`proposal.rs:357`); the policy engine checks the empty string in its place and denies the step
  with PKG007 (`policy_checks.rs:77`).
* The three readings of a path differ (`Peculiar` in `PipelineInv`). The linter accepts a backslash and a control
  character inside a name and a path that begins with `C:` and no slash (`package.rs:788`); `apply_proposal`
  takes a backslash for a slash (`proposal.rs:406`). The policy engine denies each with PKG007
  (`skilltape-policy/src/lib.rs:307`).
* On Unix a file whose name has a backslash is compiled under another path (`steps.rs:515`): its assertion or its
  move is of a file that may not be there.
* An interrupted recording is published although the watcher failed or its queue overflowed
  (`capture_command.rs:223`), without a sign that changes are missing; `EveryChangeIsNamed` excludes it.
* An export takes the scripts of the workflow that was loaded first and the `workflow.yaml` that is there
  later (`generic.rs:55` and `80`). If it is replaced in between, both selections agree, the linter asks no
  file to exist, and the export lacks a script its own workflow runs (`export-evidence.md:15`: changes in the
  selected inventory stop publication). A Receipt does not rule this out: it is not authenticated, and can be of a
  package without that script.
* A proposal that changes a step under its old id keeps that step's provenance (`preserve_provenance`).
