---------------------------- MODULE RunnerProofs ----------------------------
(***************************************************************************)
(* Proofs about Runner, for every workflow, channel capacity, platform and *)
(* number of background processes: the inductive invariant, the safety     *)
(* properties that follow from it, and that Runner implements RunPromise.  *)
(***************************************************************************)
EXTENDS RunnerInv, SequenceTheorems, TLAPS

USE StepsAssumption, CapacityAssumption, PlatformsAssumption, BackgroundAssumption

-----------------------------------------------------------------------------
(* Types *)

LEMMA InitTypes == Init => TypeOK
<1> SUFFICES ASSUME Init PROVE TypeOK
  OBVIOUS
<1>1. steps \in Seq(StepStatus) /\ outbox \in Seq(Event) /\ Len(outbox) <= 1
  BY DEF Init
<1>2. channel \in Seq(Event) /\ received \in Seq(Event)
  BY DEF Init
<1>3. step \in 1 .. NumSteps + 1 /\ sequence \in Nat /\ late \in Nat
  BY DEF Init
<1> QED BY <1>1, <1>2, <1>3 DEF Init, TypeOK, Labels, RunStatus

\* Sending one event keeps the types of what sends it.
LEMMA EmitTypes ==
  ASSUME TypeOK, NEW id \in 0 .. NumSteps,
         NEW what \in StepStatus \cup {"Started", "RunStarted", "RunSucceeded", "RunFailed", "RunCancelled"},
         Emit(id, what)
  PROVE  outbox' \in Seq(Event) /\ Len(outbox') <= 1 /\ sequence' \in Nat
<1> DEFINE e == [sequence |-> sequence, step |-> id, status |-> what]
<1>1. e \in Event
  BY DEF TypeOK, Event
<1>2. outbox' = <<e>> /\ sequence' \in Nat
  BY DEF Emit, TypeOK
<1> HIDE DEF e
<1> QED BY <1>1, <1>2

\* The same for the whole of a step's end.
LEMMA SettleTypes ==
  ASSUME TypeOK, step \in Steps, NEW ending \in StepStatus, Settle(ending)
  PROVE  /\ outbox' \in Seq(Event) /\ Len(outbox') <= 1 /\ sequence' \in Nat
         /\ steps' \in Seq(StepStatus) /\ pc' \in Labels /\ step' \in 1 .. NumSteps + 1
         /\ status' \in RunStatus /\ package' = package /\ result' = result
<1>1. Emit(step, ending) /\ step \in 0 .. NumSteps
  BY DEF Settle, Steps
<1>2. outbox' \in Seq(Event) /\ Len(outbox') <= 1 /\ sequence' \in Nat
  BY <1>1, EmitTypes
<1>3. steps' \in Seq(StepStatus)
  BY DEF Settle, TypeOK
<1>4. pc' \in Labels /\ step' \in 1 .. NumSteps + 1 /\ status' \in RunStatus
  BY DEF Settle, TypeOK, Labels, RunStatus, Steps
<1> QED BY <1>2, <1>3, <1>4 DEF Settle

LEMMA TypeStep ==
  ASSUME IInv, [Next]_vars
  PROVE  TypeOK'
<1> USE DEF At, Quiet, Abort, Over
<1>0. TypeOK /\ (pc \in AtStep => step \in Steps)
  BY DEF IInv, SummaryInv
<1>1. CASE Send
  BY <1>0, <1>1 DEF Send, TypeOK, summary, process, caller
<1>2. CASE SendFails
  BY <1>0, <1>2 DEF SendFails, TypeOK, summary, process, caller, Labels, Outcomes
<1>3. CASE Setup
  BY <1>0, <1>3, EmitTypes DEF Setup, TypeOK, process, caller, Labels, RunStatus
<1>4. CASE SetupFails
  BY <1>0, <1>4 DEF SetupFails, TypeOK, summary, process, caller, Labels, Outcomes
<1>5. CASE StartStep
  <2>1. Emit(step, "Started") /\ step \in 0 .. NumSteps
    BY <1>5 DEF StartStep, Steps
  <2> QED BY <1>0, <1>5, <2>1, EmitTypes DEF StartStep, TypeOK, summary, process, caller, Labels
<1>6. CASE SeeCancellation
  BY <1>0, <1>6 DEF SeeCancellation, TypeOK, process, caller, Labels, RunStatus
<1>7. CASE NoMoreSteps
  BY <1>0, <1>7 DEF NoMoreSteps, TypeOK, summary, process, caller, Labels
<1>8. CASE Deny
  <2>1. Settle("Denied") /\ "Denied" \in StepStatus /\ step \in Steps
    BY <1>0, <1>8 DEF Deny, StepStatus, AtStep
  <2> QED BY <1>0, <1>8, <2>1, SettleTypes DEF Deny, TypeOK, process, caller
<1>9. CASE WorkLocally
  <2>1. PICK ending \in {"Succeeded", "Failed"} : Settle(ending)
    BY <1>9 DEF WorkLocally
  <2>2. ending \in StepStatus /\ step \in Steps
    BY <1>0, <1>9, <2>1 DEF WorkLocally, StepStatus, AtStep
  <2>3. late' \in Nat
    BY <1>0, <1>9 DEF WorkLocally, Begun, TypeOK
  <2> QED BY <1>0, <1>9, <2>1, <2>2, <2>3, SettleTypes DEF WorkLocally, TypeOK, process, caller
<1>10. CASE Spawn
  <2>1. late' \in Nat
    BY <1>0, <1>10 DEF Spawn, Begun, TypeOK
  <2> QED BY <1>0, <1>10, <2>1 DEF Spawn, TypeOK, summary, caller, Labels
<1>11. CASE SpawnFails
  <2>1. PICK ending \in {"Failed", "SpawnFailed"} : Settle(ending)
    BY <1>11 DEF SpawnFails
  <2>2. ending \in StepStatus /\ step \in Steps
    BY <1>0, <1>11, <2>1 DEF SpawnFails, StepStatus, AtStep
  <2>3. late' \in Nat
    BY <1>0, <1>11 DEF SpawnFails, Begun, TypeOK
  <2> QED BY <1>0, <1>11, <2>1, <2>2, <2>3, SettleTypes DEF SpawnFails, TypeOK, process, caller
<1>12. CASE ChildExited
  BY <1>0, <1>12 DEF ChildExited, TypeOK, summary, caller, Labels
<1>13. CASE TimesOut \/ IsCancelled
  BY <1>0, <1>13 DEF TimesOut, IsCancelled, Terminate, TypeOK, summary, caller, Labels
<1>14. CASE KillGroup
  BY <1>0, <1>14 DEF KillGroup, TypeOK, summary, caller, Labels
<1>15. CASE JoinReaders
  <2>1. Settle(Ending) /\ Ending \in StepStatus /\ step \in Steps
    BY <1>0, <1>15 DEF JoinReaders, Ending, StepStatus, AtStep, TypeOK
  <2> QED BY <1>0, <1>15, <2>1, SettleTypes DEF JoinReaders, TypeOK, caller
<1>16. CASE GiveUpReaders
  <2> DEFINE ending == IF how = "Exited" THEN "SpawnFailed" ELSE how
  <2>1. Settle(ending) /\ ending \in StepStatus /\ step \in Steps
    BY <1>0, <1>16 DEF GiveUpReaders, StepStatus, AtStep, TypeOK
  <2> HIDE DEF ending
  <2> QED BY <1>0, <1>16, <2>1, SettleTypes DEF GiveUpReaders, TypeOK, caller
<1>17. CASE PublishNothing \/ Publish
  <2>1. Emit(0, FinalEvent) /\ FinalEvent \in {"RunSucceeded", "RunFailed", "RunCancelled"}
    BY <1>0, <1>17 DEF PublishNothing, Publish, FinalEvent, TypeOK, RunStatus
  <2> QED BY <1>0, <1>17, <2>1, EmitTypes
          DEF PublishNothing, Publish, TypeOK, summary, process, caller, Labels
<1>18. CASE Stage
  BY <1>0, <1>18 DEF Stage, TypeOK, summary, process, caller, Labels
<1>19. CASE PublishFails
  BY <1>0, <1>19, EmitTypes DEF PublishFails, TypeOK, process, caller, Labels, RunStatus
<1>20. CASE Return
  BY <1>0, <1>20 DEF Return, TypeOK, summary, process, caller, Labels, Outcomes
<1>21. CASE Receive
  <2>1. Head(channel) \in Event /\ Tail(channel) \in Seq(Event)
    BY <1>0, <1>21 DEF Receive, TypeOK
  <2> QED BY <1>0, <1>21, <2>1 DEF Receive, TypeOK, summary, process
<1>22. CASE HangUp \/ Interrupt \/ TakeInterrupt \/ Crash
  <2> DEFINE empty == <<>>
  <2>0. empty \in Seq(Event) /\ Len(empty) <= 1
    OBVIOUS
  <2>1. CASE HangUp
    <3>1. channel' = empty
      BY <2>1 DEF HangUp
    <3> HIDE DEF empty
    <3> QED BY <1>0, <2>0, <2>1, <3>1 DEF HangUp, TypeOK, summary, process
  <2>2. CASE Interrupt
    BY <1>0, <2>2 DEF Interrupt, TypeOK, summary, process
  <2>3. CASE TakeInterrupt
    BY <1>0, <2>3 DEF TakeInterrupt, TypeOK, summary, process
  <2>4. CASE Crash
    <3>1. channel' = empty /\ outbox' = empty
      BY <2>4 DEF Crash
    <3> HIDE DEF empty
    <3> QED BY <1>0, <2>0, <2>4, <3>1 DEF Crash, TypeOK, summary, process, Labels
  <2> QED BY <1>22, <2>1, <2>2, <2>3, <2>4
<1>23. CASE Kernel \/ Environment
  <2>1. CASE DieWithParent \/ Exit \/ Expire \/ Occupy
    <3>1. UNCHANGED <<World, background>>
      BY <2>1 DEF DieWithParent, Exit, Expire, Occupy
    <3>2. /\ child' \in {"none", "running", "zero", "nonzero"} /\ expired' \in BOOLEAN
          /\ output' \in {"absent", "foreign", "published"}
      BY <1>0, <2>1 DEF DieWithParent, Exit, Expire, Occupy, TypeOK
    <3> QED BY <1>0, <3>1, <3>2 DEF World, TypeOK, summary, caller
  <2>2. CASE \E i \in Steps : NamespaceEnds(i)
    BY <1>0, <2>2 DEF NamespaceEnds, World, TypeOK, summary, caller
  <2>3. CASE \E b \in Processes : Fork(b) \/ BackgroundExit(b)
    BY <1>0, <2>3 DEF Fork, BackgroundExit, World, TypeOK, summary, caller
  <2> QED BY <1>23, <2>1, <2>2, <2>3 DEF Kernel, Environment
<1>24. CASE UNCHANGED vars
  BY <1>0, <1>24 DEF vars, TypeOK, summary, process, caller
<1> QED
  BY <1>1, <1>2, <1>3, <1>4, <1>5, <1>6, <1>7, <1>8, <1>9, <1>10, <1>11, <1>12, <1>13, <1>14,
     <1>15, <1>16, <1>17, <1>18, <1>19, <1>20, <1>21, <1>22, <1>23, <1>24
     DEF Next, RunSkill, Caller

-----------------------------------------------------------------------------
(* The summary *)

LEMMA SummarySame ==
  ASSUME IInv, UNCHANGED <<summary, pc, step>>, cancelled => cancelled'
  PROVE  SummaryInv'
BY DEF IInv, SummaryInv, AllSucceeded, summary, Allowed, AtStep, AtEnd

LEMMA SummaryOver ==
  ASSUME pc' \in {"ended", "crashed"}
  PROVE  SummaryInv'
BY DEF SummaryInv, AtStep, AtEnd

\* What the end of a step adds to the summary.
LEMMA Settled ==
  ASSUME IInv, pc \in AtStep, NEW ending \in StepStatus, Settle(ending)
  PROVE  /\ Len(steps) = step - 1 /\ Len(steps') = step /\ step \in Steps
         /\ \A i \in 1 .. Len(steps) : steps'[i] = steps[i] /\ steps[i] = "Succeeded"
         /\ steps'[step] = ending
         /\ status = "Succeeded"
<1>1. steps \in Seq(StepStatus) /\ step \in Nat
  BY DEF IInv, TypeOK
<1>2. Len(steps) = step - 1 /\ AllSucceeded /\ step \in Steps /\ status = "Succeeded"
  BY DEF IInv, SummaryInv
<1>3. steps' = Append(steps, ending)
  BY DEF Settle
<1> QED BY <1>1, <1>2, <1>3 DEF AllSucceeded

LEMMA SettleSummary ==
  ASSUME IInv, pc \in AtStep, NEW ending \in StepStatus, Settle(ending)
  PROVE  SummaryInv'
<1>1. /\ Len(steps) = step - 1 /\ Len(steps') = step /\ step \in Steps /\ step \in Nat
      /\ \A i \in 1 .. Len(steps) : steps'[i] = "Succeeded"
      /\ steps'[step] = ending
      /\ status = "Succeeded"
  BY Settled DEF Steps
<1>2. CASE ending = "Succeeded"
  <2>1. pc' = "loop" /\ step' = step + 1 /\ status' = "Succeeded"
    BY <1>1, <1>2 DEF Settle
  <2>2. AllSucceeded'
    BY <1>1, <1>2 DEF AllSucceeded
  <2> QED BY <1>1, <2>1, <2>2 DEF SummaryInv, AtStep, AtEnd
<1>3. CASE ending # "Succeeded"
  <2>1. pc' = "after" /\ status' = IF ending = "Cancelled" THEN "Cancelled" ELSE "Failed"
    BY <1>3 DEF Settle
  <2>2. step \in 1 .. Len(steps')
    BY <1>1
  <2>3. status' = "Failed" => \E i \in 1 .. Len(steps') : steps'[i] \notin {"Succeeded", "Cancelled"}
    BY <1>1, <1>3, <2>1, <2>2
  <2>4. status' = "Cancelled" => \A i \in 1 .. Len(steps') : steps'[i] \in {"Succeeded", "Cancelled"}
    BY <1>1, <1>3, <2>1
  <2> QED BY <2>1, <2>3, <2>4 DEF SummaryInv, AtStep, AtEnd
<1> QED BY <1>2, <1>3

LEMMA SummaryStep ==
  ASSUME IInv, [Next]_vars
  PROVE  SummaryInv'
<1> USE DEF At
<1>0. TypeOK /\ SummaryInv
  BY DEF IInv
<1>1. CASE Send \/ Receive \/ HangUp \/ Interrupt \/ TakeInterrupt \/ UNCHANGED vars
  BY <1>0, <1>1, SummarySame DEF Send, Receive, HangUp, Interrupt, TakeInterrupt, vars, caller
<1>2. CASE Kernel \/ Environment
  <2>1. UNCHANGED World
    BY <1>2 DEF Kernel, DieWithParent, NamespaceEnds, Environment, Exit, Fork, BackgroundExit,
                Expire, Occupy
  <2> QED BY <2>1, SummarySame DEF World, caller
<1>3. CASE SendFails \/ SetupFails \/ Return \/ Crash
  BY <1>3, SummaryOver DEF SendFails, SetupFails, Return, Crash, Abort
<1>4. CASE Deny
  BY <1>4, SettleSummary DEF Deny, AtStep, StepStatus
<1>5. CASE WorkLocally \/ SpawnFails
  BY <1>5, SettleSummary DEF WorkLocally, SpawnFails, AtStep, StepStatus
<1>6. CASE JoinReaders \/ GiveUpReaders
  <2>1. PICK ending \in StepStatus : Settle(ending)
    BY <1>0, <1>6 DEF JoinReaders, GiveUpReaders, Ending, StepStatus, TypeOK
  <2> QED BY <1>6, <2>1, SettleSummary DEF JoinReaders, GiveUpReaders, AtStep
<1>7. CASE Setup
  <2>1. steps = <<>> /\ step = 1
    BY <1>0, <1>7 DEF Setup, SummaryInv
  <2>2. pc' = "loop" /\ steps' = <<>> /\ step' = 1
    BY <1>7, <2>1 DEF Setup
  <2>3. Len(steps') = 0
    BY <2>2
  <2>4. status' = "Succeeded" \/ (status' = "Cancelled" /\ cancelled')
    BY <1>7 DEF Setup, caller
  <2> QED BY <2>2, <2>3, <2>4 DEF SummaryInv, AllSucceeded, AtStep, AtEnd
<1>8. CASE StartStep
  <2>1. status = "Succeeded" /\ Len(steps) = step - 1 /\ AllSucceeded /\ step \in Steps
    BY <1>0, <1>8 DEF StartStep, SummaryInv
  <2>2. pc' = "check" /\ UNCHANGED <<summary, step>>
    BY <1>8 DEF StartStep
  <2> QED BY <2>1, <2>2 DEF SummaryInv, AllSucceeded, AtStep, AtEnd, summary
<1>9. CASE SeeCancellation \/ NoMoreSteps
  <2>1. /\ pc = "loop" /\ pc' = "after" /\ UNCHANGED <<package, steps, step>>
        /\ Len(steps) = step - 1 /\ AllSucceeded
    BY <1>0, <1>9 DEF SeeCancellation, NoMoreSteps, SummaryInv, summary
  <2>2. status' = "Succeeded" => Len(steps) = NumSteps
    BY <1>0, <1>9, <2>1 DEF SeeCancellation, NoMoreSteps, TypeOK, Steps, summary
  <2>3. status' # "Failed"
    BY <1>0, <1>9, <2>1 DEF SeeCancellation, NoMoreSteps, SummaryInv, summary
  <2> QED BY <2>1, <2>2, <2>3 DEF SummaryInv, AllSucceeded, AtStep, AtEnd
<1>10. CASE Spawn \/ ChildExited \/ TimesOut \/ IsCancelled \/ KillGroup
  <2>1. /\ pc \in AtStep /\ pc' \in {"wait", "term", "join"} /\ UNCHANGED <<summary, step>> /\ Allowed
    BY <1>0, <1>10 DEF Spawn, ChildExited, TimesOut, IsCancelled, KillGroup, Terminate, AtStep,
                       SummaryInv
  <2>2. status = "Succeeded" /\ step \in Steps /\ Len(steps) = step - 1 /\ AllSucceeded
    BY <1>0, <2>1 DEF SummaryInv
  <2> QED BY <2>1, <2>2 DEF SummaryInv, AllSucceeded, Allowed, AtStep, AtEnd, summary
<1>11. CASE PublishNothing \/ Stage \/ Publish
  <2>1. pc \in {"after", "publish"} /\ pc' \in {"return", "publish"} /\ UNCHANGED <<summary, step>>
    BY <1>11 DEF PublishNothing, Stage, Publish
  <2>2. pc' = "publish" => status = "Succeeded" /\ package.outputs
    BY <1>11 DEF PublishNothing, Stage, Publish
  <2> QED BY <1>0, <2>1, <2>2 DEF SummaryInv, AllSucceeded, AtStep, AtEnd, summary
<1>12. CASE PublishFails
  <2>1. status = "Succeeded" /\ pc \in AtEnd /\ pc' = "error" /\ UNCHANGED steps /\ status' = "Failed"
    BY <1>0, <1>12 DEF PublishFails, SummaryInv, AtEnd
  <2> QED BY <1>0, <2>1 DEF SummaryInv, AllSucceeded, AtStep, AtEnd
<1> QED
  BY <1>1, <1>2, <1>3, <1>4, <1>5, <1>6, <1>7, <1>8, <1>9, <1>10, <1>11, <1>12
     DEF Next, RunSkill, Caller

-----------------------------------------------------------------------------
(* The outputs, the result and the token *)

LEMMA OutcomeSame ==
  ASSUME IInv, UNCHANGED <<package, status, pc, result, output, late>>, cancelled => cancelled'
  PROVE  OutputInv' /\ ResultInv' /\ LateInv'
BY DEF IInv, OutputInv, ResultInv, LateInv

LEMMA OutcomeStep ==
  ASSUME IInv, [Next]_vars
  PROVE  OutputInv' /\ ResultInv' /\ LateInv'
<1> USE DEF At, Abort
<1>0. TypeOK /\ SummaryInv /\ OutputInv /\ ResultInv /\ LateInv
  BY DEF IInv
<1>1. CASE Send \/ Receive \/ HangUp \/ Interrupt \/ UNCHANGED vars
  BY <1>1, OutcomeSame DEF Send, Receive, HangUp, Interrupt, vars, summary, caller
<1>2. CASE TakeInterrupt
  BY <1>0, <1>2 DEF TakeInterrupt, summary, Over, OutputInv, ResultInv, LateInv
<1>3. CASE Kernel \/ Environment
  <2>1. UNCHANGED World /\ (output' = output \/ (output = "absent" /\ output' = "foreign"))
    BY <1>3 DEF Kernel, DieWithParent, NamespaceEnds, Environment, Exit, Fork, BackgroundExit,
                Expire, Occupy
  <2>2. CASE output' = output
    BY <2>1, <2>2, OutcomeSame DEF World, summary, caller
  <2>3. CASE output = "absent" /\ output' = "foreign"
    BY <1>0, <2>1, <2>3 DEF World, summary, caller, OutputInv, ResultInv, LateInv
  <2> QED BY <2>1, <2>2, <2>3
<1>4. CASE SendFails \/ SetupFails \/ Crash
  <2>1. /\ pc' \in {"ended", "crashed"} /\ UNCHANGED <<output, late, cancelled>>
        /\ pc' = "ended" => result' \in {"closed", "setup"}
        /\ pc' = "crashed" => result' = result /\ pc # "ended"
    BY <1>4 DEF SendFails, SetupFails, Crash, caller, Over
  <2> QED BY <1>0, <2>1 DEF OutputInv, ResultInv, LateInv, RunStatus
<1>5. CASE Return
  <2>1. /\ pc \in {"return", "error"} /\ pc' = "ended" /\ UNCHANGED <<output, late, cancelled, status>>
        /\ result' = IF pc = "error" THEN "materialization" ELSE status
    BY <1>5 DEF Return, caller, summary
  <2>2. status \in RunStatus /\ "none" \notin RunStatus /\ "materialization" \notin RunStatus
    BY <1>0 DEF TypeOK, RunStatus
  <2> QED BY <1>0, <2>1, <2>2 DEF OutputInv, ResultInv, LateInv
<1>6. CASE Deny \/ JoinReaders \/ GiveUpReaders
  <2>1. /\ pc \in AtStep /\ pc' \in {"loop", "after"}
        /\ UNCHANGED <<result, output, late, cancelled>>
    BY <1>6 DEF Deny, JoinReaders, GiveUpReaders, Settle, AtStep, caller
  <2> QED BY <1>0, <2>1 DEF OutputInv, ResultInv, LateInv, AtStep, RunStatus
<1>7. CASE WorkLocally \/ SpawnFails \/ Spawn
  <2>1. /\ pc = "check" /\ pc' \in {"loop", "after", "wait"}
        /\ UNCHANGED <<result, output, cancelled>> /\ Begun
    BY <1>7 DEF WorkLocally, SpawnFails, Spawn, Settle, caller
  <2> QED BY <1>0, <2>1 DEF OutputInv, ResultInv, LateInv, Begun, RunStatus
<1>8. CASE \/ Setup \/ StartStep \/ SeeCancellation \/ NoMoreSteps
           \/ ChildExited \/ TimesOut \/ IsCancelled \/ KillGroup \/ Stage \/ PublishFails
  <2>1. /\ pc \in {"setup", "loop", "wait", "term", "after", "publish"}
        /\ pc' \notin {"setup", "return", "ended", "crashed"}
        /\ pc' = "check" => ~cancelled
        /\ UNCHANGED <<result, output, late, cancelled>>
    BY <1>8 DEF Setup, StartStep, SeeCancellation, NoMoreSteps, ChildExited, TimesOut, IsCancelled,
                Terminate, KillGroup, Stage, PublishFails, caller
  <2> QED BY <1>0, <2>1 DEF OutputInv, ResultInv, LateInv, RunStatus
<1>9. CASE PublishNothing
  BY <1>0, <1>9 DEF PublishNothing, summary, caller, OutputInv, ResultInv, LateInv
<1>10. CASE Publish
  BY <1>0, <1>10 DEF Publish, summary, caller, OutputInv, ResultInv, LateInv, SummaryInv
<1> QED
  BY <1>1, <1>2, <1>3, <1>4, <1>5, <1>6, <1>7, <1>8, <1>9, <1>10 DEF Next, RunSkill, Caller

-----------------------------------------------------------------------------
(* The processes *)

LEMMA ProcessSame ==
  ASSUME IInv, UNCHANGED <<steps, step, child, background>>,
         pc' \in {"wait", "term", "crashed"} \/ child # "running",
         pc' # "join" \/ (pc = "join" /\ how' = how)
  PROVE  ProcessInv'
BY DEF IInv, ProcessInv

\* The end of a step that left no process of the group behind, when that matters.
LEMMA SettleProcesses ==
  ASSUME IInv, pc \in AtStep, NEW ending \in StepStatus, Settle(ending), background' = background,
         child' # "running",
         \A b \in background : b.group /\ b.step = step => ending \notin {"TimedOut", "Cancelled"}
  PROVE  ProcessInv'
<1>1. TypeOK /\ ProcessInv
  BY DEF IInv
<1>2. /\ Len(steps) = step - 1 /\ Len(steps') = step /\ step \in Nat
      /\ \A i \in 1 .. Len(steps) : steps'[i] = "Succeeded"
      /\ steps'[step] = ending
  BY Settled DEF Steps
<1>3. step' \in {step, step + 1} /\ pc' \in {"loop", "after"}
  BY DEF Settle
<1>4. ASSUME NEW b \in background
      PROVE  /\ b.step <= step'
             /\ b.group /\ b.step <= Len(steps') => steps'[b.step] \notin {"TimedOut", "Cancelled"}
  <2>1. b.step \in 1 .. step
    BY <1>1 DEF TypeOK, Processes, ProcessInv, Steps
  <2>2. b.step = step \/ b.step \in 1 .. Len(steps)
    BY <1>2, <2>1
  <2> QED BY <1>2, <1>3, <2>1, <2>2
<1> QED BY <1>3, <1>4 DEF ProcessInv

LEMMA ProcessStep ==
  ASSUME IInv, [Next]_vars
  PROVE  ProcessInv'
<1> USE DEF At, Abort
<1>0. TypeOK /\ SummaryInv /\ ProcessInv /\ EventsInv
  BY DEF IInv
<1>1. CASE \/ Send \/ Receive \/ HangUp \/ Interrupt \/ TakeInterrupt \/ UNCHANGED vars
  <2>1. UNCHANGED <<summary, pc, step, process>>
    BY <1>1 DEF Send, Receive, HangUp, Interrupt, TakeInterrupt, vars
  <2> QED BY <1>0, <2>1 DEF ProcessInv, summary, process
<1>2. CASE Crash
  BY <1>2, ProcessSame DEF Crash, summary, process
<1>3. CASE SendFails \/ SetupFails \/ Return
  <2>1. pc \notin {"wait", "term", "join", "crashed"} /\ pc' = "ended"
    BY <1>0, <1>3 DEF SendFails, SetupFails, Return, EventsInv
  <2>2. child # "running" /\ UNCHANGED <<steps, step, child, background>>
    BY <1>0, <1>3, <2>1 DEF SendFails, SetupFails, Return, ProcessInv, summary, process
  <2> QED BY <2>1, <2>2, ProcessSame
<1>4. CASE Setup \/ StartStep \/ SeeCancellation \/ NoMoreSteps \/ PublishNothing \/ Stage
           \/ Publish \/ PublishFails
  <2>1. /\ pc \notin {"wait", "term", "join", "crashed"} /\ pc' # "join"
        /\ UNCHANGED <<steps, step, child, background>>
    BY <1>4 DEF Setup, StartStep, SeeCancellation, NoMoreSteps, PublishNothing, Stage, Publish,
                PublishFails, summary, process
  <2>2. child # "running"
    BY <1>0, <2>1 DEF ProcessInv
  <2> QED BY <2>1, <2>2, ProcessSame
<1>5. CASE Deny \/ WorkLocally \/ SpawnFails
  <2>1. PICK ending \in StepStatus \ {"TimedOut", "Cancelled"} : Settle(ending)
    BY <1>5 DEF Deny, WorkLocally, SpawnFails, StepStatus
  <2>2. pc = "check" /\ background' = background /\ child' = child
    BY <1>5 DEF Deny, WorkLocally, SpawnFails, process
  <2>3. child' # "running"
    BY <1>0, <2>2 DEF ProcessInv
  <2> QED BY <2>1, <2>2, <2>3, SettleProcesses DEF AtStep
<1>6. CASE JoinReaders \/ GiveUpReaders
  <2>1. PICK ending \in StepStatus :
          Settle(ending) /\ (ending \in {"TimedOut", "Cancelled"} => how # "Exited")
    BY <1>0, <1>6 DEF JoinReaders, GiveUpReaders, Ending, StepStatus, TypeOK
  <2>2. pc = "join" /\ background' = background /\ child' = "none"
    BY <1>6 DEF JoinReaders, GiveUpReaders
  <2>3. \A b \in background : b.group /\ b.step = step => ending \notin {"TimedOut", "Cancelled"}
    BY <1>0, <2>1, <2>2 DEF ProcessInv
  <2> QED BY <2>1, <2>2, <2>3, SettleProcesses DEF AtStep
<1>7. CASE Spawn
  <2>1. /\ pc = "check" /\ pc' = "wait" /\ UNCHANGED <<steps, step, background>>
        /\ Len(steps) = step - 1 /\ step \in Nat
    BY <1>0, <1>7 DEF Spawn, summary, SummaryInv, AtStep, Steps
  <2>2. Len(steps') < step'
    BY <2>1
  <2> QED BY <1>0, <2>1, <2>2 DEF ProcessInv
<1>8. CASE ChildExited
  BY <1>0, <1>8 DEF ChildExited, ProcessInv, summary
<1>9. CASE TimesOut \/ IsCancelled
  BY <1>0, <1>9 DEF TimesOut, IsCancelled, Terminate, ProcessInv, summary
<1>10. CASE KillGroup
  BY <1>0, <1>10 DEF KillGroup, InGroup, ProcessInv, summary
<1>11. CASE Kernel \/ Environment
  <2>1. UNCHANGED <<steps, step, pc, how>>
    BY <1>11 DEF Kernel, DieWithParent, NamespaceEnds, Environment, Exit, Fork, BackgroundExit,
                 Expire, Occupy, World, summary
  <2>2. CASE DieWithParent \/ Exit
    BY <1>0, <2>1, <2>2 DEF DieWithParent, Exit, ProcessInv
  <2>3. CASE Expire \/ Occupy
    BY <1>0, <2>1, <2>3 DEF Expire, Occupy, ProcessInv
  <2>4. CASE \E i \in Steps : NamespaceEnds(i)
    BY <1>0, <2>1, <2>4 DEF NamespaceEnds, ProcessInv
  <2>5. CASE \E b \in Processes : BackgroundExit(b)
    BY <1>0, <2>1, <2>5 DEF BackgroundExit, ProcessInv
  <2>6. ASSUME NEW b \in Processes, Fork(b)
        PROVE  ProcessInv'
    <3>1. background' = background \cup {b} /\ child' = child
      BY <2>6 DEF Fork
    <3>2. /\ b.step <= step
          /\ b.group /\ b.step <= Len(steps) => steps[b.step] \notin {"TimedOut", "Cancelled"}
          /\ pc = "join" /\ how # "Exited" /\ b.group => b.step # step
      <4>1. CASE child = "running" /\ b.step = step
        <5>1. pc # "join" /\ Len(steps) < step
          BY <1>0, <4>1 DEF ProcessInv
        <5>2. step \in Nat /\ Len(steps) \in Nat
          BY <1>0 DEF TypeOK
        <5> QED BY <4>1, <5>1, <5>2
      <4>2. CASE \E a \in background : a.step = b.step /\ (b.group => a.group)
        BY <1>0, <4>2 DEF ProcessInv
      <4> QED BY <2>6, <4>1, <4>2 DEF Fork
    <3> QED BY <1>0, <2>1, <3>1, <3>2 DEF ProcessInv
  <2> QED BY <1>11, <2>2, <2>3, <2>4, <2>5, <2>6 DEF Kernel, Environment
<1> QED
  BY <1>1, <1>2, <1>3, <1>4, <1>5, <1>6, <1>7, <1>8, <1>9, <1>10, <1>11 DEF Next, RunSkill, Caller

-----------------------------------------------------------------------------
(* The events *)

\* What was sent is a sequence of events.
LEMMA SentIsSeq ==
  ASSUME TypeOK
  PROVE  Story \in Seq(Event) /\ Sent \in Seq(Event)
<1>1. received \in Seq(Event) /\ channel \in Seq(Event) /\ outbox \in Seq(Event)
  BY DEF TypeOK
<1>2. Story \in Seq(Event)
  BY <1>1, ConcatProperties DEF Story
<1> QED BY <1>1, <1>2, ConcatProperties DEF Sent

\* Entering the channel moves an event, and so does leaving it.
LEMMA SendKeeps ==
  ASSUME TypeOK, Send
  PROVE  Sent' = Sent
<1>1. received \in Seq(Event) /\ channel \in Seq(Event) /\ outbox \in Seq(Event)
  BY DEF TypeOK
<1>2. received' = received /\ channel' = channel \o outbox /\ outbox' = <<>>
  BY DEF Send, caller
<1>3. Sent' = received \o (channel \o outbox)
  <2>1. channel \o outbox \in Seq(Event)
    BY <1>1, ConcatProperties
  <2>2. received \o (channel \o outbox) \in Seq(Event)
    BY <1>1, <2>1, ConcatProperties
  <2> QED BY <1>2, <2>2, ConcatEmptySeq DEF Sent, Story
<1> QED BY <1>1, <1>3, ConcatAssociative DEF Sent, Story

LEMMA MoveHead ==
  ASSUME NEW S, NEW r \in Seq(S), NEW c \in Seq(S), c # <<>>
  PROVE  Append(r, Head(c)) \o Tail(c) = r \o c
<1>1. Head(c) \in S /\ Head(c) = c[1]
  BY HeadTailProperties
<1>2. /\ Tail(c) \in Seq(S) /\ Len(Tail(c)) = Len(c) - 1
      /\ \A i \in 1 .. Len(Tail(c)) : Tail(c)[i] = c[i + 1]
  BY HeadTailProperties
<1> DEFINE longer == Append(r, Head(c))
           rest == Tail(c)
<1>3. /\ longer \in Seq(S) /\ Len(longer) = Len(r) + 1
      /\ \A i \in 1 .. Len(r) : longer[i] = r[i]
      /\ longer[Len(r) + 1] = c[1]
  BY <1>1, AppendProperties
<1>4. rest \in Seq(S) /\ Len(rest) = Len(c) - 1 /\ \A i \in 1 .. Len(rest) : rest[i] = c[i + 1]
  BY <1>2
<1>5. Len(r) \in Nat /\ Len(c) \in Nat \ {0}
  BY EmptySeq
<1> HIDE DEF longer, rest
<1>6. longer \o rest \in Seq(S) /\ r \o c \in Seq(S) /\ Len(longer \o rest) = Len(r \o c)
      /\ Len(r \o c) = Len(r) + Len(c)
  <2>1. longer \in Seq(S) /\ rest \in Seq(S)
    BY <1>3, <1>4
  <2>2. longer \o rest \in Seq(S) /\ Len(longer \o rest) = Len(longer) + Len(rest)
    BY <2>1, ConcatProperties
  <2>3. r \o c \in Seq(S) /\ Len(r \o c) = Len(r) + Len(c)
    BY ConcatProperties
  <2> QED BY <1>3, <1>4, <1>5, <2>2, <2>3
<1>7. ASSUME NEW i \in 1 .. Len(r) + Len(c)
      PROVE  (longer \o rest)[i] = (r \o c)[i]
  <2>1. (longer \o rest)[i] = IF i <= Len(longer) THEN longer[i] ELSE rest[i - Len(longer)]
    BY <1>3, <1>4, <1>5, ConcatProperties
  <2>2. (r \o c)[i] = IF i <= Len(r) THEN r[i] ELSE c[i - Len(r)]
    BY <1>5, ConcatProperties
  <2>3. CASE i <= Len(r)
    BY <1>3, <1>5, <2>1, <2>2, <2>3
  <2>4. CASE i = Len(r) + 1
    BY <1>3, <1>5, <2>1, <2>2, <2>4
  <2>5. CASE i > Len(r) + 1
    <3>1. i - Len(longer) \in 1 .. Len(rest) /\ i - Len(longer) + 1 = i - Len(r)
      BY <1>3, <1>4, <1>5, <2>5
    <3>2. rest[i - Len(longer)] = c[i - Len(r)]
      BY <1>4, <3>1
    <3> QED BY <1>3, <1>5, <2>1, <2>2, <2>5, <3>2
  <2>6. i <= Len(r) \/ i = Len(r) + 1 \/ i > Len(r) + 1
    BY <1>5
  <2> QED BY <2>3, <2>4, <2>5, <2>6
<1>8. longer \o rest = r \o c
  BY <1>6, <1>7, SeqEqual
<1> QED BY <1>8 DEF longer, rest

LEMMA ReceiveKeeps ==
  ASSUME TypeOK, Receive
  PROVE  Sent' = Sent
<1>1. received \in Seq(Event) /\ channel \in Seq(Event) /\ channel # <<>>
  BY DEF TypeOK, Receive
<1>2. received' = Append(received, Head(channel)) /\ channel' = Tail(channel) /\ outbox' = outbox
  BY DEF Receive
<1> QED BY <1>1, <1>2, MoveHead DEF Sent, Story

\* A new event goes to the end.
LEMMA EmitAppends ==
  ASSUME TypeOK, outbox = <<>>, NEW id \in 0 .. NumSteps,
         NEW what \in StepStatus \cup {"Started", "RunStarted", "RunSucceeded", "RunFailed", "RunCancelled"},
         Emit(id, what), UNCHANGED <<channel, received>>
  PROVE  /\ Len(Sent) \in Nat
         /\ Len(Sent') = Len(Sent) + 1
         /\ \A i \in 1 .. Len(Sent) : Sent'[i] = Sent[i]
         /\ Sent'[Len(Sent) + 1].sequence = sequence
         /\ Sent'[Len(Sent) + 1].step = id
         /\ Sent'[Len(Sent) + 1].status = what
<1> DEFINE e == [sequence |-> sequence, step |-> id, status |-> what]
<1>1. Story \in Seq(Event) /\ Len(Story) \in Nat
  BY SentIsSeq
<1>2. e \in Event /\ outbox' = <<e>>
  BY DEF TypeOK, Event, Emit
<1>3. e.sequence = sequence /\ e.step = id /\ e.status = what
  OBVIOUS
<1>4. Sent = Story /\ Story' = Story
  BY <1>1, ConcatEmptySeq DEF Sent, Story
<1> HIDE DEF e
<1>5. Sent' = Append(Story, e)
  BY <1>1, <1>2, <1>4, AppendIsConcat DEF Sent
<1> QED BY <1>1, <1>2, <1>3, <1>4, <1>5, AppendProperties

\* What was sent about the steps that are over.
StepsTold == \A i \in 1 .. Len(steps) :
  /\ Sent[2 * i].step = i /\ Sent[2 * i].status = "Started"
  /\ Sent[2 * i + 1].step = i /\ Sent[2 * i + 1].status = steps[i]

\* What the events say stays true while none is added and no count is due.
LEMMA EventsSame ==
  ASSUME IInv, Sent' = Sent, UNCHANGED <<sequence, steps, step>>, open' => open,
         EventCount' = EventCount,
         pc = "ended" => pc' = "ended" /\ result' = result,
         pc = "setup" => pc' = "setup",
         pc' \in AtStep => pc \in AtStep,
         pc' \in {"return", "error", "ended"} => pc \in {"return", "error", "ended"} /\ status' = status,
         pc' \in {"setup", "wait", "term", "join", "ended", "crashed"} => outbox' = <<>>
  PROVE  EventsInv'
<1>1. FinalEvent' = FinalEvent \/ pc' \notin {"return", "error", "ended"}
  BY DEF FinalEvent
<1>2. EventsInv
  BY DEF IInv
<1> QED BY <1>1, <1>2 DEF EventsInv

\* One more event.
LEMMA EventsMore ==
  ASSUME IInv, pc # "ended", open, outbox = <<>>, NEW id \in 0 .. NumSteps,
         NEW what \in StepStatus \cup {"Started", "RunStarted", "RunSucceeded", "RunFailed", "RunCancelled"},
         Emit(id, what), UNCHANGED <<channel, received>>
  PROVE  /\ Len(Sent') = EventCount + 1 /\ EventCount \in Nat
         /\ sequence' = EventCount + 1
         /\ \A i \in 1 .. Len(Sent') : Sent'[i].sequence = i - 1
         /\ pc # "setup" => Sent'[1].status = "RunStarted"
         /\ pc = "setup" => Sent'[1].status = what
         /\ \A i \in 1 .. Len(steps) :
              /\ Sent'[2 * i].step = i /\ Sent'[2 * i].status = "Started"
              /\ Sent'[2 * i + 1].step = i /\ Sent'[2 * i + 1].status = steps[i]
         /\ pc \in AtStep =>
              Sent'[EventCount].step = step /\ Sent'[EventCount].status = "Started"
         /\ Sent'[EventCount + 1].step = id
         /\ Sent'[EventCount + 1].status = what
<1>1. TypeOK /\ SummaryInv /\ EventsInv
  BY DEF IInv
<1>2. /\ Len(Sent) \in Nat
      /\ Len(Sent') = Len(Sent) + 1
      /\ \A i \in 1 .. Len(Sent) : Sent'[i] = Sent[i]
      /\ Sent'[Len(Sent) + 1].sequence = sequence
      /\ Sent'[Len(Sent) + 1].step = id
      /\ Sent'[Len(Sent) + 1].status = what
  BY <1>1, EmitAppends
<1>3. /\ Len(Sent) = sequence
      /\ Len(Sent) = EventCount
      /\ \A i \in 1 .. Len(Sent) : Sent[i].sequence = i - 1
      /\ pc # "setup" => Sent[1].status = "RunStarted"
      /\ StepsTold
      /\ pc \in AtStep => Sent[Len(Sent)].step = step /\ Sent[Len(Sent)].status = "Started"
  BY <1>1 DEF EventsInv, StepsTold
<1>4. sequence' = EventCount + 1
  BY <1>3 DEF Emit
<1>5. Len(steps) \in Nat /\ (pc = "setup" => Len(steps) = 0)
  <2>1. pc = "setup" => steps = <<>>
    BY <1>1 DEF SummaryInv
  <2> QED BY <1>1, <2>1 DEF TypeOK
<1>6. pc # "setup" => 2 * Len(steps) + 1 <= EventCount
  BY <1>5 DEF EventCount
<1>7. pc = "setup" => EventCount = 0
  BY DEF EventCount
<1>8. pc \in AtStep => EventCount \in 1 .. Len(Sent)
  BY <1>2, <1>3, <1>5, <1>6 DEF AtStep
<1>9. ASSUME NEW i \in 1 .. Len(steps)
      PROVE  /\ Sent'[2 * i].step = i /\ Sent'[2 * i].status = "Started"
             /\ Sent'[2 * i + 1].step = i /\ Sent'[2 * i + 1].status = steps[i]
  <2>1. 2 * i \in 1 .. Len(Sent) /\ 2 * i + 1 \in 1 .. Len(Sent)
    BY <1>2, <1>3, <1>5, <1>6
  <2>2. Sent'[2 * i] = Sent[2 * i] /\ Sent'[2 * i + 1] = Sent[2 * i + 1]
    BY <1>2, <2>1
  <2> QED BY <1>3, <2>2 DEF StepsTold
<1>10. \A i \in 1 .. Len(Sent') : Sent'[i].sequence = i - 1
  BY <1>2, <1>3
<1>11. pc # "setup" => Sent'[1].status = "RunStarted"
  BY <1>2, <1>3, <1>5, <1>6
<1>12. pc \in AtStep => Sent'[EventCount].step = step /\ Sent'[EventCount].status = "Started"
  BY <1>2, <1>3, <1>8
<1> QED BY <1>2, <1>3, <1>4, <1>7, <1>9, <1>10, <1>11, <1>12

\* The event at the end of a step.
LEMMA SettleEvents ==
  ASSUME IInv, pc \in AtStep, outbox = <<>>, NEW ending \in StepStatus, Settle(ending),
         UNCHANGED <<channel, received, open>>
  PROVE  EventsInv'
<1>1. SUFFICES ASSUME open'
               PROVE  EventsInv'
  <2>1. pc' \in {"loop", "after"}
    BY DEF Settle
  <2> QED BY <2>1, <1>1 DEF EventsInv
<1>2. open /\ pc \notin {"ended", "setup"} /\ step \in 0 .. NumSteps /\ Emit(step, ending)
      /\ pc' \in {"loop", "after"}
  BY <1>1, Settled DEF Settle, AtStep, Steps
<1>3. /\ Len(steps) = step - 1 /\ Len(steps') = step /\ step \in Nat \ {0}
      /\ \A i \in 1 .. Len(steps) : steps'[i] = steps[i]
      /\ steps'[step] = ending
  BY Settled DEF Steps
<1>4. EventCount = 2 * step /\ EventCount' = 2 * step + 1
  BY <1>2, <1>3 DEF EventCount, AtStep
<1>5. /\ Len(Sent') = EventCount + 1
      /\ sequence' = EventCount + 1
      /\ \A i \in 1 .. Len(Sent') : Sent'[i].sequence = i - 1
      /\ Sent'[1].status = "RunStarted"
      /\ \A i \in 1 .. Len(steps) :
           /\ Sent'[2 * i].step = i /\ Sent'[2 * i].status = "Started"
           /\ Sent'[2 * i + 1].step = i /\ Sent'[2 * i + 1].status = steps[i]
      /\ Sent'[EventCount].step = step /\ Sent'[EventCount].status = "Started"
      /\ Sent'[EventCount + 1].step = step
      /\ Sent'[EventCount + 1].status = ending
  BY <1>2, EventsMore
<1>6. ASSUME NEW i \in 1 .. Len(steps')
      PROVE  /\ Sent'[2 * i].step = i /\ Sent'[2 * i].status = "Started"
             /\ Sent'[2 * i + 1].step = i /\ Sent'[2 * i + 1].status = steps'[i]
  <2>1. CASE i = step
    BY <1>3, <1>4, <1>5, <2>1
  <2>2. CASE i # step
    <3>1. i \in 1 .. Len(steps) /\ steps'[i] = steps[i]
      BY <1>3, <2>2
    <3> QED BY <1>5, <3>1
  <2> QED BY <2>1, <2>2
<1> QED BY <1>2, <1>4, <1>5, <1>6 DEF EventsInv, AtStep

\* An event that is no end of a step.
LEMMA EventsGrow ==
  ASSUME IInv, pc # "ended", outbox = <<>>, NEW id \in 0 .. NumSteps,
         NEW what \in StepStatus \cup {"Started", "RunStarted", "RunSucceeded", "RunFailed", "RunCancelled"},
         Emit(id, what), UNCHANGED <<steps, channel, received, open>>,
         EventCount' = EventCount + 1,
         pc' \in {"loop", "check", "return", "error"},
         pc = "setup" => what = "RunStarted",
         pc' = "check" => id = step' /\ what = "Started",
         pc' \in {"return", "error"} => id = 0 /\ what = FinalEvent'
  PROVE  EventsInv'
<1>1. SUFFICES ASSUME open'
               PROVE  EventsInv'
  BY <1>1 DEF EventsInv
<1>2. /\ Len(Sent') = EventCount + 1
      /\ sequence' = EventCount + 1
      /\ \A i \in 1 .. Len(Sent') : Sent'[i].sequence = i - 1
      /\ Sent'[1].status = "RunStarted" \/ pc = "setup"
      /\ pc = "setup" => Sent'[1].status = what
      /\ \A i \in 1 .. Len(steps) :
           /\ Sent'[2 * i].step = i /\ Sent'[2 * i].status = "Started"
           /\ Sent'[2 * i + 1].step = i /\ Sent'[2 * i + 1].status = steps[i]
      /\ Sent'[EventCount + 1].step = id
      /\ Sent'[EventCount + 1].status = what
  BY <1>1, EventsMore
<1>3. Len(Sent') = sequence' /\ Len(Sent') = EventCount'
  BY <1>2
<1>4. Sent'[1].status = "RunStarted"
  BY <1>2
<1>5. \A i \in 1 .. Len(steps') :
        /\ Sent'[2 * i].step = i /\ Sent'[2 * i].status = "Started"
        /\ Sent'[2 * i + 1].step = i /\ Sent'[2 * i + 1].status = steps'[i]
  BY <1>2
<1>6. Sent'[Len(Sent')].step = id /\ Sent'[Len(Sent')].status = what
  BY <1>2
<1>7. pc' \in AtStep => pc' = "check"
  BY DEF AtStep
<1> QED BY <1>2, <1>3, <1>4, <1>5, <1>6, <1>7 DEF EventsInv

LEMMA EventsStep ==
  ASSUME IInv, [Next]_vars
  PROVE  EventsInv'
<1> USE DEF At, Abort
<1>0. TypeOK /\ SummaryInv /\ EventsInv
  BY DEF IInv
<1>1. CASE Send \/ Receive
  <2>1. Sent' = Sent
    BY <1>0, <1>1, SendKeeps, ReceiveKeeps
  <2>2. UNCHANGED <<pc, step, steps, status, sequence, result, open>>
    BY <1>1 DEF Send, Receive, summary, caller
  <2>3. outbox' = <<>> \/ outbox' = outbox
    BY <1>1 DEF Send, Receive
  <2>4. EventCount' = EventCount
    BY <2>2 DEF EventCount
  <2> QED BY <1>0, <2>1, <2>2, <2>3, <2>4, EventsSame DEF EventsInv
<1>2. CASE Interrupt \/ TakeInterrupt \/ Kernel \/ Environment \/ UNCHANGED vars
  <2>1. UNCHANGED <<pc, step, steps, status, sequence, result, open, outbox, channel, received>>
    BY <1>2 DEF Interrupt, TakeInterrupt, Kernel, DieWithParent, NamespaceEnds, Environment, Exit,
                Fork, BackgroundExit, Expire, Occupy, World, vars, summary, caller
  <2>2. Sent' = Sent /\ EventCount' = EventCount
    BY <2>1 DEF Sent, Story, EventCount
  <2> QED BY <1>0, <2>1, <2>2, EventsSame DEF EventsInv
<1>3. CASE HangUp
  BY <1>0, <1>3 DEF HangUp, EventsInv
<1>4. CASE Crash
  BY <1>4 DEF Crash, EventsInv
<1>5. CASE SendFails \/ SetupFails
  <2>1. outbox' = <<>> /\ pc' = "ended" /\ result' \in {"closed", "setup"}
    BY <1>5 DEF SendFails, SetupFails, Quiet
  <2> QED BY <2>1 DEF EventsInv, RunStatus
<1>6. CASE Return
  <2>1. /\ pc \in {"return", "error"} /\ outbox = <<>> /\ pc' = "ended" /\ outbox' = <<>>
        /\ UNCHANGED <<step, steps, status, sequence, open, channel, received>>
    BY <1>6 DEF Return, summary, caller
  <2>2. Sent' = Sent /\ EventCount' = EventCount
    BY <2>1 DEF Sent, Story, EventCount
  <2> QED BY <2>1, <2>2, EventsSame DEF AtStep
<1>7. CASE SeeCancellation \/ NoMoreSteps \/ Stage
  <2>1. /\ pc \in {"loop", "after"} /\ pc' \in {"after", "publish"} /\ outbox = <<>> /\ outbox' = <<>>
        /\ UNCHANGED <<step, steps, sequence, open, channel, received>>
    BY <1>7 DEF SeeCancellation, NoMoreSteps, Stage, Quiet, summary, caller
  <2>2. Sent' = Sent /\ EventCount' = EventCount
    BY <2>1 DEF Sent, Story, EventCount
  <2> QED BY <2>1, <2>2, EventsSame DEF AtStep
<1>8. CASE Spawn \/ ChildExited \/ TimesOut \/ IsCancelled \/ KillGroup
  <2>1. /\ pc \in AtStep /\ pc' \in AtStep /\ outbox = <<>> /\ outbox' = <<>>
        /\ UNCHANGED <<step, steps, sequence, open, channel, received>>
    BY <1>8 DEF Spawn, ChildExited, TimesOut, IsCancelled, Terminate, KillGroup, Quiet, summary,
                caller, AtStep
  <2>2. Sent' = Sent /\ EventCount' = EventCount
    BY <2>1 DEF Sent, Story, EventCount, AtStep
  <2> QED BY <2>1, <2>2, EventsSame DEF AtStep
<1>9. CASE Deny \/ WorkLocally \/ SpawnFails \/ JoinReaders \/ GiveUpReaders
  <2>1. PICK ending \in StepStatus : Settle(ending)
    BY <1>0, <1>9 DEF Deny, WorkLocally, SpawnFails, JoinReaders, GiveUpReaders, Ending, StepStatus,
                      TypeOK
  <2>2. pc \in AtStep /\ outbox = <<>> /\ UNCHANGED <<channel, received, open>>
    BY <1>9 DEF Deny, WorkLocally, SpawnFails, JoinReaders, GiveUpReaders, caller, AtStep
  <2> QED BY <2>1, <2>2, SettleEvents
<1>10. CASE Setup
  <2>1. /\ pc = "setup" /\ outbox = <<>> /\ Emit(0, "RunStarted") /\ pc' = "loop"
        /\ UNCHANGED <<steps, channel, received, open>>
    BY <1>10 DEF Setup, caller
  <2>2. Len(steps) = 0 /\ EventCount = 0 /\ EventCount' = 1
    BY <1>0, <2>1 DEF SummaryInv, EventCount
  <2> QED BY <2>1, <2>2, EventsGrow
<1>11. CASE StartStep
  <2>1. /\ pc = "loop" /\ outbox = <<>> /\ Emit(step, "Started") /\ pc' = "check"
        /\ step \in 0 .. NumSteps /\ UNCHANGED <<steps, step, channel, received, open>>
    BY <1>11 DEF StartStep, summary, caller, Steps
  <2>2. EventCount' = EventCount + 1
    BY <1>0, <2>1 DEF EventCount, TypeOK
  <2> QED BY <2>1, <2>2, EventsGrow
<1>12. CASE PublishNothing \/ Publish \/ PublishFails
  <2>1. PICK what \in {"RunSucceeded", "RunFailed", "RunCancelled"} :
          Emit(0, what) /\ what = FinalEvent'
    BY <1>0, <1>12 DEF PublishNothing, Publish, PublishFails, FinalEvent, summary, TypeOK, RunStatus
  <2>2. /\ pc \in {"after", "publish"} /\ outbox = <<>> /\ pc' \in {"return", "error"}
        /\ UNCHANGED <<steps, channel, received, open>>
    BY <1>12 DEF PublishNothing, Publish, PublishFails, summary, caller
  <2>3. EventCount' = EventCount + 1
    BY <1>0, <2>2 DEF EventCount, TypeOK
  <2> QED BY <2>1, <2>2, <2>3, EventsGrow
<1> QED
  BY <1>1, <1>2, <1>3, <1>4, <1>5, <1>6, <1>7, <1>8, <1>9, <1>10, <1>11, <1>12
     DEF Next, RunSkill, Caller

-----------------------------------------------------------------------------
(* The theorems *)

LEMMA InitInv == Init => IInv
<1> SUFFICES ASSUME Init PROVE IInv
  OBVIOUS
<1>1. TypeOK
  BY InitTypes
<1>2. pc = "setup" /\ steps = <<>> /\ step = 1 /\ status = "Succeeded" /\ outbox = <<>> /\ sequence = 0
      /\ result = "none" /\ child = "none" /\ background = {} /\ output # "published" /\ late = 0
      /\ channel = <<>> /\ received = <<>>
  BY DEF Init
<1>3. Len(steps) = 0
  BY <1>2
<1>4. SummaryInv /\ OutputInv /\ ResultInv /\ LateInv /\ ProcessInv
  BY <1>2 DEF SummaryInv, OutputInv, ResultInv, LateInv, ProcessInv, AtStep, AtEnd, RunStatus
<1>5. Sent = <<>>
  <2> DEFINE none == <<>>
  <2>1. none \in Seq(Event) /\ received = none /\ channel = none /\ outbox = none
    BY <1>2
  <2> HIDE DEF none
  <2>2. none \o none = none
    BY <2>1, ConcatEmptySeq DEF none
  <2> QED BY <2>1, <2>2 DEF Sent, Story, none
<1>6. Len(Sent) = 0
  BY <1>5
<1>7. EventsInv
  BY <1>2, <1>3, <1>6 DEF EventsInv, EventCount, AtStep
<1> QED BY <1>1, <1>4, <1>7 DEF IInv

\* The invariant of Runner: what the summary, the output directory, the events, the processes and
\* the count of late steps say at every place of run_skill.
THEOREM RunnerInvariance == Spec => []IInv
<1>1. IInv /\ [Next]_vars => IInv'
  <2> SUFFICES ASSUME IInv, [Next]_vars PROVE IInv'
    OBVIOUS
  <2>1. TypeOK' /\ SummaryInv' /\ OutputInv' /\ ResultInv' /\ LateInv' /\ ProcessInv' /\ EventsInv'
    BY TypeStep, SummaryStep, OutcomeStep, ProcessStep, EventsStep
  <2> QED BY <2>1 DEF IInv
<1> QED BY InitInv, <1>1, PTL DEF Spec

\* However long the workflow and whenever the token is set, at most one step begins after it: the
\* checks of run_skill and run_process leave room for one.
THEOREM CancellationIsPrompt == Spec => []OneStepAfterCancel
<1>1. IInv => OneStepAfterCancel
  BY DEF IInv, LateInv, OneStepAfterCancel
<1> QED BY <1>1, RunnerInvariance, PTL

\* At most one child at a time, and terminate_child leaves nothing of its process group, whatever
\* the processes forked and ignored.
THEOREM TerminationIsComplete == Spec => []NothingLeftRunning
<1>1. IInv => NothingLeftRunning
  BY DEF IInv, ProcessInv, NothingLeftRunning
<1> QED BY <1>1, RunnerInvariance, PTL

\* The listener of a run that returned a summary has the events of every step, in order and
\* without a gap, for every capacity of the channel.
THEOREM EventsAreComplete == Spec => []EventsTellTheRun
<1>1. IInv => EventsTellTheRun
  <2> SUFFICES ASSUME IInv, pc = "ended", result \in RunStatus, open
               PROVE  EventsTellTheRun
    BY DEF EventsTellTheRun
  <2>1. TypeOK /\ EventsInv
    BY DEF IInv
  <2>2. Sent = Story
    BY <2>1, SentIsSeq, ConcatEmptySeq DEF EventsInv, Sent
  <2>3. EventCount = 2 * Len(steps) + 2
    BY DEF EventCount
  <2> QED BY <2>1, <2>2, <2>3 DEF EventsInv, EventsTellTheRun
<1> QED BY <1>1, RunnerInvariance, PTL

\* A step that ends is performed as the promise says.
LEMMA SettlePerforms ==
  ASSUME IInv, pc \in AtStep, NEW ending \in StepStatus, Settle(ending),
         (step \in package.denied) = (ending = "Denied"), output' = output
  PROVE  Promise!Perform(ending)
<1>1. /\ Len(steps) = step - 1 /\ step \in Steps
      /\ \A i \in 1 .. Len(steps) : steps[i] = "Succeeded"
  BY Settled
<1>2. Len(steps) + 1 = step /\ Len(steps) < NumSteps
  BY <1>1 DEF Steps
<1>3. result = "none" /\ output # "published"
  BY DEF IInv, ResultInv, OutputInv, AtStep
<1>4. steps' = Append(steps, ending) /\ package' = package /\ result' = result
  BY DEF Settle
<1> QED BY <1>1, <1>2, <1>3, <1>4 DEF Promise!Perform

LEMMA PromiseStep ==
  ASSUME IInv, [Next]_vars
  PROVE  [Promise!PromiseNext]_(Promise!promiseVars)
<1> USE DEF At, Abort, Promise!promiseVars
<1>0. TypeOK /\ SummaryInv /\ OutputInv /\ ResultInv /\ EventsInv
  BY DEF IInv
<1>1. CASE \/ Send \/ Setup \/ StartStep \/ SeeCancellation \/ NoMoreSteps \/ Spawn \/ ChildExited
           \/ TimesOut \/ IsCancelled \/ KillGroup \/ PublishNothing \/ Stage \/ PublishFails
           \/ Caller \/ Kernel \/ UNCHANGED vars
  BY <1>1 DEF Send, Setup, StartStep, SeeCancellation, NoMoreSteps, Spawn, ChildExited, TimesOut,
              IsCancelled, Terminate, KillGroup, PublishNothing, Stage, PublishFails, Caller, Receive,
              HangUp, Interrupt, TakeInterrupt, Crash, Kernel, DieWithParent, NamespaceEnds, World,
              vars, summary
<1>2. CASE Environment
  <2>1. CASE Occupy
    BY <2>1 DEF Occupy, World, summary, Promise!PromiseNext, Promise!Occupy
  <2>2. CASE Exit \/ Expire \/ \E b \in Processes : Fork(b) \/ BackgroundExit(b)
    BY <2>2 DEF Exit, Expire, Fork, BackgroundExit, World, summary
  <2> QED BY <1>2, <2>1, <2>2 DEF Environment
<1>3. CASE Deny \/ WorkLocally \/ SpawnFails \/ JoinReaders \/ GiveUpReaders
  <2>1. PICK ending \in StepStatus :
          Settle(ending) /\ (ending = "Denied") = (step \in package.denied)
    BY <1>0, <1>3 DEF Deny, WorkLocally, SpawnFails, JoinReaders, GiveUpReaders, Ending, StepStatus,
                      TypeOK, Allowed, SummaryInv, AtStep
  <2>2. pc \in AtStep /\ output' = output
    BY <1>3 DEF Deny, WorkLocally, SpawnFails, JoinReaders, GiveUpReaders, AtStep
  <2>3. Promise!Perform(ending)
    BY <2>1, <2>2, SettlePerforms
  <2> QED BY <2>3 DEF Promise!PromiseNext, Promise!StepStatus, StepStatus
<1>4. CASE Publish
  <2>1. status = "Succeeded" /\ package.outputs /\ AllSucceeded /\ Len(steps) = NumSteps
        /\ result = "none"
    BY <1>0, <1>4 DEF Publish, SummaryInv, ResultInv, AtEnd
  <2> QED BY <1>4, <2>1 DEF Publish, summary, AllSucceeded, Promise!PromiseNext, Promise!Publish,
                            Promise!AllSucceeded
<1>5. CASE SendFails \/ SetupFails \/ Return
  <2>1. result = "none" /\ UNCHANGED <<package, steps, output>>
    BY <1>0, <1>5 DEF SendFails, SetupFails, Return, EventsInv, ResultInv, summary
  <2>2. CASE SendFails
    BY <2>1, <2>2 DEF SendFails, Promise!PromiseNext, Promise!Report, Promise!Outcomes
  <2>3. CASE SetupFails
    BY <1>0, <2>1, <2>3 DEF SetupFails, SummaryInv, OutputInv, Promise!PromiseNext, Promise!Report,
                            Promise!Outcomes
  <2>4. CASE Return /\ pc = "error"
    BY <1>0, <2>1, <2>4 DEF Return, SummaryInv, OutputInv, AllSucceeded, Promise!PromiseNext,
                            Promise!Report, Promise!Outcomes, Promise!AllSucceeded
  <2>5. CASE Return /\ pc = "return"
    <3>1. result' = status /\ status \in RunStatus
      BY <1>0, <2>5 DEF Return, TypeOK
    <3>2. Promise!Report(status)
      BY <1>0, <2>1, <2>5, <3>1 DEF SummaryInv, OutputInv, AllSucceeded, AtEnd, RunStatus,
                                    Promise!Report, Promise!AllSucceeded
    <3> QED BY <3>1, <3>2 DEF Promise!PromiseNext, Promise!Outcomes, RunStatus
  <2> QED BY <1>5, <2>2, <2>3, <2>4, <2>5 DEF Return
<1> QED BY <1>1, <1>2, <1>3, <1>4, <1>5 DEF Next, RunSkill

\* Runner implements RunPromise: no interleaving of cancellation, timeouts, leftover processes, a
\* slow or vanished listener and a crash makes a run break the promise.
THEOREM RunnerKeepsPromise == Spec => KeepsPromise
<1>1. Init => Promise!PromiseInit
  BY DEF Init, Promise!PromiseInit
<1>2. IInv /\ [Next]_vars => [Promise!PromiseNext]_(Promise!promiseVars)
  BY PromiseStep
<1> QED BY <1>1, <1>2, RunnerInvariance, PTL DEF Spec, KeepsPromise, Promise!PromiseSpec
=============================================================================
