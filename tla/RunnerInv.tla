----------------------------- MODULE RunnerInv ------------------------------
(* The inductive invariant of Runner. *)
EXTENDS Runner

AllSucceeded == \A i \in 1 .. Len(steps) : steps[i] = "Succeeded"

AtStep == {"check", "wait", "term", "join"}
AtEnd  == {"after", "publish", "return"}

\* What the summary says at every place of run_skill.
SummaryInv ==
  /\ pc = "setup" => steps = <<>> /\ step = 1 /\ status = "Succeeded"
  /\ pc \in {"loop"} \cup AtStep => Len(steps) = step - 1 /\ AllSucceeded
  /\ pc = "loop" => status = "Succeeded" \/ (status = "Cancelled" /\ cancelled)
  /\ pc \in AtStep => status = "Succeeded" /\ step \in Steps
  /\ pc \in AtStep \ {"check"} => Allowed
  /\ pc \in AtEnd =>
       /\ status = "Succeeded" => AllSucceeded /\ Len(steps) = NumSteps
       /\ status = "Failed" => \E i \in 1 .. Len(steps) : steps[i] \notin {"Succeeded", "Cancelled"}
       /\ status = "Cancelled" => \A i \in 1 .. Len(steps) : steps[i] \in {"Succeeded", "Cancelled"}
  /\ pc = "publish" => status = "Succeeded" /\ package.outputs
  /\ pc = "error" => AllSucceeded /\ Len(steps) = NumSteps /\ status = "Failed"

OutputInv ==
  /\ output = "published" =>
       pc \in {"return", "ended", "crashed"} /\ (pc = "return" => status = "Succeeded")
  /\ pc = "return" /\ status = "Succeeded" /\ package.outputs => output = "published"

ResultInv ==
  /\ result = "none" <=> pc # "ended"
  /\ result \in RunStatus => status = result

\* Between the token and the next look at it there is room for one step.
LateInv ==
  /\ late <= 1
  /\ ~cancelled => late = 0
  /\ pc = "check" => late = 0

ProcessInv ==
  /\ child = "running" => pc \in {"wait", "term", "crashed"} /\ Len(steps) < step
  /\ \A b \in background :
       /\ b.step <= step
       /\ b.group /\ b.step <= Len(steps) => steps[b.step] \notin {"TimedOut", "Cancelled"}
       /\ pc = "join" /\ how # "Exited" /\ b.group => b.step # step

Sent == Story \o outbox

\* How many events run_skill has sent, or is sending, at each place.
EventCount ==
  IF pc = "setup" THEN 0
  ELSE IF pc \in {"loop", "after", "publish"} THEN 2 * Len(steps) + 1
  ELSE 2 * Len(steps) + 2

EventsInv ==
  /\ pc \in {"setup", "wait", "term", "join", "ended", "crashed"} => outbox = <<>>
  /\ open /\ (pc # "ended" \/ result \in RunStatus) =>
       /\ Len(Sent) = sequence
       /\ Len(Sent) = EventCount
       /\ \A i \in 1 .. Len(Sent) : Sent[i].sequence = i - 1
       /\ pc # "setup" => Sent[1].status = "RunStarted"
       /\ \A i \in 1 .. Len(steps) :
            /\ Sent[2 * i].step = i /\ Sent[2 * i].status = "Started"
            /\ Sent[2 * i + 1].step = i /\ Sent[2 * i + 1].status = steps[i]
       /\ pc \in AtStep =>
            Sent[Len(Sent)].step = step /\ Sent[Len(Sent)].status = "Started"
       /\ pc \in {"return", "error", "ended"} =>
            Sent[Len(Sent)].step = 0 /\ Sent[Len(Sent)].status = FinalEvent

IInv ==
  /\ TypeOK
  /\ SummaryInv
  /\ OutputInv
  /\ ResultInv
  /\ LateInv
  /\ ProcessInv
  /\ EventsInv
=============================================================================
