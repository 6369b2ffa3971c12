------------------------------- MODULE Runner -------------------------------
(***************************************************************************)
(* One run of a Skill: run_skill performs the steps of the workflow, each  *)
(* in a child process or in the workspace, sends an event before and after *)
(* each over a bounded channel to the caller, looks at the cancellation    *)
(* token at a few places only, and publishes the outputs at the end.  The  *)
(* child may leave processes behind that outlive it; a timer and the token *)
(* race with its exit.  The command (run_package, verify_run_with_context) *)
(* receives the events and turns SIGINT into a cancellation.               *)
(***************************************************************************)
EXTENDS Naturals, Sequences, FiniteSets

CONSTANTS
  NumSteps,       \* steps of the workflow
  Capacity,       \* of the event channel
  Platforms,      \* TRUE: Linux, bwrap with its own process namespace; FALSE: macOS, sandbox-exec
  MaxBackground   \* bound: processes of the steps that are alive besides the child

ASSUME StepsAssumption == NumSteps \in Nat
ASSUME CapacityAssumption == Capacity \in Nat \ {0}
ASSUME PlatformsAssumption == Platforms \subseteq BOOLEAN
ASSUME BackgroundAssumption == MaxBackground \in Nat

VARIABLES
  package,      \* input: which steps spawn, which the policy denies, whether outputs are declared,
                \* and whether the machine contains the processes of a step
  pc,           \* where run_skill is
  step,         \* the step it is at
  status,       \* summary.status
  steps,        \* summary.steps
  outbox,       \* the event it is sending, if any
  sequence,     \* the number of the next event
  result,       \* what run_skill returned: a RunStatus or an error
  how,          \* the ProcessStatus of the child of this step
  child,        \* the child process
  expired,      \* its timeout has passed
  background,   \* other live processes of the steps
  output,       \* the output directory
  channel,      \* events sent and not received
  received,     \* events the caller has received
  open,         \* the caller still holds the receiver
  interrupt,    \* the static flag the SIGINT handler sets
  cancelled,    \* the cancellation token
  late          \* history: steps begun after the token was set

summary == <<package, status, steps>>
process == <<how, child, expired, background>>
caller  == <<received, open, interrupt, cancelled>>
vars    == <<summary, pc, step, outbox, sequence, result, process, output, channel, caller, late>>

Steps == 1 .. NumSteps

RunStatus  == {"Succeeded", "Failed", "Cancelled"}
StepStatus == {"Succeeded", "Failed", "Denied", "TimedOut", "Cancelled", "SpawnFailed"}
Outcomes   == RunStatus \cup {"setup", "materialization", "closed"}

\* Step 0 is RUN_STEP_ID.
Event == [sequence : Nat, step : 0 .. NumSteps,
          status : StepStatus \cup {"Started", "RunStarted", "RunSucceeded", "RunFailed", "RunCancelled"}]

\* A process of a step: is it in the process group of the child, does it hold its output pipes.
Processes == [step : Steps, group : BOOLEAN, pipes : BOOLEAN]

Labels == {"setup", "loop", "check", "wait", "term", "join", "after", "publish", "return", "error",
           "ended", "crashed"}

Packages == [spawns : SUBSET Steps, denied : SUBSET Steps, outputs : BOOLEAN, contained : Platforms]

TypeOK ==
  /\ package \in Packages
  /\ pc \in Labels
  /\ step \in 1 .. NumSteps + 1
  /\ status \in RunStatus
  /\ steps \in Seq(StepStatus)
  /\ outbox \in Seq(Event) /\ Len(outbox) <= 1
  /\ sequence \in Nat
  /\ result \in Outcomes \cup {"none"}
  /\ how \in {"Exited", "TimedOut", "Cancelled"}
  /\ child \in {"none", "running", "zero", "nonzero"}
  /\ expired \in BOOLEAN
  /\ background \in SUBSET Processes
  /\ output \in {"absent", "foreign", "published"}
  /\ channel \in Seq(Event)
  /\ received \in Seq(Event)
  /\ open \in BOOLEAN
  /\ interrupt \in BOOLEAN
  /\ cancelled \in BOOLEAN
  /\ late \in Nat

Init ==
  /\ package \in Packages
  /\ pc = "setup"
  /\ step = 1
  /\ status = "Succeeded"
  /\ steps = <<>>
  /\ outbox = <<>>
  /\ sequence = 0
  /\ result = "none"
  /\ how = "Exited"
  /\ child = "none"
  /\ expired = FALSE
  /\ background = {}
  /\ output \in {"absent", "foreign"}
  /\ channel = <<>>
  /\ received = <<>>
  /\ open = TRUE
  /\ interrupt = FALSE
  /\ cancelled = FALSE
  /\ late = 0

-----------------------------------------------------------------------------
(* Events *)

\* run_skill goes on only when the event it is sending is in the channel.
At(label) == pc = label /\ outbox = <<>>

Emit(id, what) ==
  /\ outbox' = <<[sequence |-> sequence, step |-> id, status |-> what]>>
  /\ sequence' = sequence + 1

Quiet == UNCHANGED <<outbox, sequence>>

SendNow ==   \* mutant
  /\ outbox # <<>>
  /\ open
  /\ channel' = IF Len(channel) < Capacity THEN channel \o outbox ELSE channel
  /\ outbox' = <<>>
  /\ UNCHANGED <<summary, pc, step, sequence, result, process, output, caller, late>>
Send ==
  /\ outbox # <<>>
  /\ open
  /\ Len(channel) < Capacity
  /\ channel' = channel \o outbox
  /\ outbox' = <<>>
  /\ UNCHANGED <<summary, pc, step, sequence, result, process, output, caller, late>>

\* Returns with an error.
Abort(error) == pc' = "ended" /\ result' = error

SendFails ==
  /\ outbox # <<>>
  /\ ~open
  /\ outbox' = <<>>
  /\ Abort("closed")
  /\ UNCHANGED <<summary, step, sequence, process, output, channel, caller, late>>

-----------------------------------------------------------------------------
(* run_skill *)

Setup ==
  /\ At("setup")
  /\ pc' = "loop"
  /\ status' = IF cancelled THEN "Cancelled" ELSE "Succeeded"
  /\ Emit(0, "RunStarted")
  /\ UNCHANGED <<package, steps, step, result, process, output, channel, caller, late>>

\* Invalid limits or roots, input capacity, the workspace cannot be prepared.
SetupFails ==
  /\ At("setup")
  /\ Abort("setup")
  /\ Quiet
  /\ UNCHANGED <<summary, step, process, output, channel, caller, late>>

StartUnasked ==   \* mutant
  /\ At("loop")
  /\ step \in Steps
  /\ pc' = "check"
  /\ Emit(step, "Started")
  /\ UNCHANGED <<summary, step, result, process, output, channel, caller, late>>
StartStep ==
  /\ At("loop")
  /\ step \in Steps
  /\ ~cancelled
  /\ pc' = "check"
  /\ Emit(step, "Started")
  /\ UNCHANGED <<summary, step, result, process, output, channel, caller, late>>

SeeCancellation ==
  /\ At("loop")
  /\ step \in Steps
  /\ cancelled
  /\ pc' = "after"
  /\ status' = "Cancelled"
  /\ Quiet
  /\ UNCHANGED <<package, steps, step, result, process, output, channel, caller, late>>

NoMoreSteps ==
  /\ At("loop")
  /\ step \notin Steps
  /\ pc' = "after"
  /\ Quiet
  /\ UNCHANGED <<summary, step, result, process, output, channel, caller, late>>

\* The step is over: its summary, its event, and whether the run goes on.
Settle(ending) ==
  /\ steps' = Append(steps, ending)
  /\ Emit(step, ending)
  /\ IF ending = "Succeeded"
       THEN pc' = "loop" /\ step' = step + 1 /\ UNCHANGED status
       ELSE /\ pc' = "after"
            /\ status' = IF ending = "Cancelled" THEN "Cancelled" ELSE "Failed"
            /\ UNCHANGED step
  /\ UNCHANGED <<package, result>>

Deny ==
  /\ At("check")
  /\ step \in package.denied
  /\ Settle("Denied")
  /\ UNCHANGED <<process, output, channel, caller, late>>

Allowed == step \notin package.denied
Begun == late' = IF cancelled THEN late + 1 ELSE late

\* execute_file and execute_assert.
WorkLocally ==
  /\ At("check")
  /\ Allowed
  /\ step \notin package.spawns
  /\ \E ending \in {"Succeeded", "Failed"} : Settle(ending)
  /\ Begun
  /\ UNCHANGED <<process, output, channel, caller>>

Spawn ==
  /\ At("check")
  /\ Allowed
  /\ step \in package.spawns
  /\ pc' = "wait"
  /\ child' = "running"
  /\ expired' = FALSE
  /\ Begun
  /\ Quiet
  /\ UNCHANGED <<summary, step, result, how, background, output, channel, caller>>

\* A script path that cannot be resolved, no sandbox, or no process.
SpawnFails ==
  /\ At("check")
  /\ Allowed
  /\ step \in package.spawns
  /\ \E ending \in {"Failed", "SpawnFailed"} : Settle(ending)
  /\ Begun
  /\ UNCHANGED <<process, output, channel, caller>>

-----------------------------------------------------------------------------
(* run_process: the three branches of its select *)

ChildExited ==
  /\ At("wait")
  /\ child # "running"
  /\ pc' = "join"
  /\ how' = "Exited"
  /\ Quiet
  /\ UNCHANGED <<summary, step, result, child, expired, background, output, channel, caller, late>>

\* SIGTERM to the group; the processes may obey or not.
Terminate(why) ==
  /\ pc' = "term"
  /\ how' = why
  /\ Quiet
  /\ UNCHANGED <<summary, step, result, child, expired, background, output, channel, caller, late>>

TimesOut == At("wait") /\ expired /\ Terminate("TimedOut")
IsCancelled == At("wait") /\ cancelled /\ Terminate("Cancelled")

InGroup(b) == b.step = step /\ b.group

\* SIGKILL to the group after 50 ms, whatever has exited until then, and the child is reaped.
KillChildOnly ==   \* mutant
  /\ At("term")
  /\ child' = "nonzero"
  /\ background' = IF child = "running" THEN {b \in background : ~InGroup(b)} ELSE background
  /\ pc' = "join"
  /\ Quiet
  /\ UNCHANGED <<summary, step, result, how, expired, output, channel, caller, late>>
KillGroup ==
  /\ At("term")
  /\ child' = "nonzero"
  /\ background' = {b \in background : ~InGroup(b)}
  /\ pc' = "join"
  /\ Quiet
  /\ UNCHANGED <<summary, step, result, how, expired, output, channel, caller, late>>

PipesHeld == \E b \in background : b.step = step /\ b.pipes

Ending == IF how = "Exited"
            THEN IF child = "zero" THEN "Succeeded" ELSE "Failed"
            ELSE how

JoinReaders ==
  /\ At("join")
  /\ ~PipesHeld
  /\ Settle(Ending)
  /\ child' = "none"
  /\ UNCHANGED <<how, expired, background, output, channel, caller, late>>

\* The readers do not end within 500 ms, or fail.
WaitForReaders ==   \* mutant
  /\ At("join")
  /\ ~PipesHeld
  /\ Settle(IF how = "Exited" THEN "SpawnFailed" ELSE how)
  /\ child' = "none"
  /\ UNCHANGED <<how, expired, background, output, channel, caller, late>>
GiveUpReaders ==
  /\ At("join")
  /\ Settle(IF how = "Exited" THEN "SpawnFailed" ELSE how)
  /\ child' = "none"
  /\ UNCHANGED <<how, expired, background, output, channel, caller, late>>

-----------------------------------------------------------------------------
(* The end of run_skill *)

FinalEvent ==
  CASE status = "Succeeded" -> "RunSucceeded"
    [] status = "Failed"    -> "RunFailed"
    [] status = "Cancelled" -> "RunCancelled"

\* No outputs are declared, or the run did not succeed.
PublishNothing ==
  /\ At("after")
  /\ status # "Succeeded" \/ ~package.outputs
  /\ pc' = "return"
  /\ Emit(0, FinalEvent)
  /\ UNCHANGED <<summary, step, result, process, output, channel, caller, late>>

StageAlways ==   \* mutant
  /\ At("after")
  /\ package.outputs
  /\ output = "absent"
  /\ pc' = "publish"
  /\ Quiet
  /\ UNCHANGED <<summary, step, result, process, output, channel, caller, late>>
\* The declared outputs are copied to a staging directory.
Stage ==
  /\ At("after")
  /\ status = "Succeeded"
  /\ package.outputs
  /\ output = "absent"
  /\ pc' = "publish"
  /\ Quiet
  /\ UNCHANGED <<summary, step, result, process, output, channel, caller, late>>

\* rename that replaces nothing.
Publish ==
  /\ At("publish")
  /\ output = "absent"
  /\ output' = "published"
  /\ pc' = "return"
  /\ Emit(0, FinalEvent)
  /\ UNCHANGED <<summary, step, result, process, channel, caller, late>>

\* The output directory exists, an output is missing or too large, or a write fails.
PublishFails ==
  /\ \/ At("after") /\ status = "Succeeded" /\ package.outputs
     \/ At("publish")
  /\ status' = "Failed"
  /\ pc' = "error"
  /\ Emit(0, "RunFailed")
  /\ UNCHANGED <<package, steps, step, result, process, output, channel, caller, late>>

Return ==
  /\ pc \in {"return", "error"} /\ outbox = <<>>
  /\ Abort(IF pc = "error" THEN "materialization" ELSE status)
  /\ UNCHANGED <<summary, step, outbox, sequence, process, output, channel, caller, late>>

-----------------------------------------------------------------------------
(* The caller *)

Over == pc \in {"ended", "crashed"}

Receive ==
  /\ open
  /\ channel # <<>>
  /\ received' = Append(received, Head(channel))
  /\ channel' = Tail(channel)
  /\ UNCHANGED <<summary, pc, step, outbox, sequence, result, process, output, open, interrupt,
                 cancelled, late>>

\* A caller of the library drops the receiver; the commands keep it until the run is over.
HangUp ==
  /\ open
  /\ ~Over
  /\ open' = FALSE
  /\ channel' = <<>>
  /\ UNCHANGED <<summary, pc, step, outbox, sequence, result, process, output, received, interrupt,
                 cancelled, late>>

\* SIGINT.
Interrupt ==
  /\ ~Over
  /\ ~interrupt
  /\ interrupt' = TRUE
  /\ UNCHANGED <<summary, pc, step, outbox, sequence, result, process, output, channel, received,
                 open, cancelled, late>>

\* cancellable notices the flag, once.
TakeInterrupt ==
  /\ ~Over
  /\ interrupt
  /\ ~cancelled
  /\ interrupt' = FALSE
  /\ cancelled' = TRUE
  /\ UNCHANGED <<summary, pc, step, outbox, sequence, result, process, output, channel, received,
                 open, late>>

\* The command is killed.
Crash ==
  /\ ~Over
  /\ pc' = "crashed"
  /\ outbox' = <<>>
  /\ channel' = <<>>
  /\ open' = FALSE
  /\ UNCHANGED <<summary, step, sequence, result, process, output, received, interrupt, cancelled, late>>

-----------------------------------------------------------------------------
(* The child process, its descendants, the timer, other programs *)

World == <<summary, pc, step, outbox, sequence, result, how, channel, caller, late>>

\* It exits by itself, or because of a signal.
Exit ==
  /\ child = "running"
  /\ child' \in {"zero", "nonzero"}
  /\ UNCHANGED <<World, expired, background, output>>

\* The child or one of its descendants leaves a process behind.  In the sandbox of Linux the
\* command is in a session of its own, so the group of the child is the sandbox alone.
Fork(b) ==
  /\ b \notin background
  /\ Cardinality(background) < MaxBackground
  /\ \/ child = "running" /\ b.step = step
     \/ \E a \in background :
          a.step = b.step /\ (b.group => a.group) /\ (b.pipes => a.pipes)
  /\ package.contained => ~b.group
  /\ background' = background \cup {b}
  /\ UNCHANGED <<World, child, expired, output>>

BackgroundExit(b) ==
  /\ b \in background
  /\ background' = background \ {b}
  /\ UNCHANGED <<World, child, expired, output>>

Expire ==
  /\ pc = "wait"
  /\ ~expired
  /\ expired' = TRUE
  /\ UNCHANGED <<World, child, background, output>>

\* bwrap --die-with-parent
DieWithParent ==
  /\ package.contained
  /\ pc = "crashed"
  /\ child = "running"
  /\ child' = "nonzero"
  /\ UNCHANGED <<World, expired, background, output>>

\* bwrap --unshare-all: a process namespace ends with its first process.
NamespaceEnds(i) ==
  /\ package.contained
  /\ i # step \/ child # "running"
  /\ \E b \in background : b.step = i
  /\ background' = {b \in background : b.step # i}
  /\ UNCHANGED <<World, child, expired, output>>

Occupy ==
  /\ output = "absent"
  /\ output' = "foreign"
  /\ UNCHANGED <<World, child, expired, background>>

-----------------------------------------------------------------------------
RunSkill ==
  \/ Send \/ SendFails \/ Setup \/ SetupFails \/ StartStep \/ SeeCancellation \/ NoMoreSteps
  \/ Deny \/ WorkLocally \/ Spawn \/ SpawnFails
  \/ ChildExited \/ TimesOut \/ IsCancelled \/ KillGroup \/ JoinReaders \/ GiveUpReaders
  \/ PublishNothing \/ Stage \/ Publish \/ PublishFails \/ Return

Caller == Receive \/ HangUp \/ Interrupt \/ TakeInterrupt \/ Crash

Kernel == DieWithParent \/ \E i \in Steps : NamespaceEnds(i)

Environment ==
  \/ Exit
  \/ \E b \in Processes : Fork(b) \/ BackgroundExit(b)
  \/ Expire
  \/ Occupy

Next == RunSkill \/ Caller \/ Kernel \/ Environment

Spec == Init /\ [][Next]_vars

\* The task is polled when it can go on, the caller receives and the timer fires.  Nothing is
\* assumed of the child or of what it left behind.
FairSpec ==
  /\ Spec
  /\ WF_vars(RunSkill)
  /\ WF_vars(Receive)
  /\ WF_vars(Expire)

-----------------------------------------------------------------------------
(* Properties *)

\* The run keeps the promise of RunPromise: steps in order and only while all succeed, a denied
\* step never, outputs at once and only after full success, an honest outcome; whatever is
\* cancelled, times out, crashes, hangs up or is left behind.
Promise == INSTANCE RunPromise WITH outcome <- result
KeepsPromise == Promise!PromiseSpec

\* The caller of a run that returned a summary receives its whole story: numbered without a
\* gap, each step started and ended as the summary says, the final event last.
Story == received \o channel
EventsTellTheRun ==
  pc = "ended" /\ result \in RunStatus /\ open =>
    /\ Len(Story) = 2 * Len(steps) + 2
    /\ \A i \in 1 .. Len(Story) : Story[i].sequence = i - 1
    /\ Story[1].status = "RunStarted"
    /\ \A i \in 1 .. Len(steps) :
         /\ Story[2 * i].step = i /\ Story[2 * i].status = "Started"
         /\ Story[2 * i + 1].step = i /\ Story[2 * i + 1].status = steps[i]
    /\ Story[Len(Story)].step = 0
    /\ Story[Len(Story)].status = FinalEvent

\* The token is looked at only before a step and while a child runs; still at most one step
\* begins after it was set (run_skill, run_process).
OneStepAfterCancel == late <= 1

\* At most one child at a time, reaped before the run goes on; and nothing in the process group
\* of a step that timed out or was cancelled survives it (terminate_child).
NothingLeftRunning ==
  /\ child = "running" => pc \in {"wait", "term", "crashed"}
  /\ \A b \in background :
       b.group /\ b.step <= Len(steps) => steps[b.step] \notin {"TimedOut", "Cancelled"}

\* Every run ends: a child that never exits, one that ignores SIGTERM, a process that keeps the
\* pipes open, and a channel that is full do not keep it.
RunEnds == <>Over
=============================================================================
