----------------------------- MODULE RunPromise -----------------------------
(***************************************************************************)
(* What a run of a Skill promises: its steps are performed in order, each  *)
(* at most once and only after all before it succeeded; a denied step is   *)
(* never performed; the outputs appear at once, only after every step      *)
(* succeeded, and never in the place of something else; and the reported   *)
(* outcome says what happened.  No processes, events or cancellation.      *)
(***************************************************************************)
EXTENDS Naturals, Sequences

CONSTANTS NumSteps

VARIABLES
  package,   \* which steps the policy denies, whether outputs are declared
  steps,     \* how the steps performed so far ended
  output,    \* the output directory: absent, foreign, published
  outcome    \* what the caller was told

promiseVars == <<package, steps, output, outcome>>

AllSucceeded == Len(steps) = NumSteps /\ \A i \in 1 .. Len(steps) : steps[i] = "Succeeded"

PromiseInit ==
  /\ steps = <<>>
  /\ output \in {"absent", "foreign"}
  /\ outcome = "none"

Perform(status) ==
  /\ outcome = "none"
  /\ output # "published"
  /\ Len(steps) < NumSteps
  /\ \A i \in 1 .. Len(steps) : steps[i] = "Succeeded"
  /\ (Len(steps) + 1 \in package.denied) = (status = "Denied")
  /\ steps' = Append(steps, status)
  /\ UNCHANGED <<package, output, outcome>>

Publish ==
  /\ outcome = "none"
  /\ AllSucceeded
  /\ package.outputs
  /\ output = "absent"
  /\ output' = "published"
  /\ UNCHANGED <<package, steps, outcome>>

Occupy ==
  /\ output = "absent"
  /\ output' = "foreign"
  /\ UNCHANGED <<package, steps, outcome>>

\* The caller of a run that lost its listener ("closed") is told nothing about the outputs.
Report(o) ==
  /\ outcome = "none"
  /\ o = "Succeeded" => AllSucceeded /\ (package.outputs => output = "published")
  /\ o = "Failed" => \E i \in 1 .. Len(steps) : steps[i] \notin {"Succeeded", "Cancelled"}
  /\ o = "Cancelled" => \A i \in 1 .. Len(steps) : steps[i] \in {"Succeeded", "Cancelled"}
  /\ o = "setup" => steps = <<>>
  /\ o = "materialization" => AllSucceeded
  /\ o \notin {"Succeeded", "closed"} => output # "published"
  /\ outcome' = o
  /\ UNCHANGED <<package, steps, output>>

StepStatus == {"Succeeded", "Failed", "Denied", "TimedOut", "Cancelled", "SpawnFailed"}
Outcomes   == {"Succeeded", "Failed", "Cancelled", "setup", "materialization", "closed"}

PromiseNext ==
  \/ \E status \in StepStatus : Perform(status)
  \/ Publish
  \/ Occupy
  \/ \E o \in Outcomes : Report(o)

PromiseSpec == PromiseInit /\ [][PromiseNext]_promiseVars
=============================================================================
