---------------------------- MODULE VerifyProofs ----------------------------
(***************************************************************************)
(* Proofs about Verify, for any number of commands, any arguments, places  *)
(* of evidence and capacity of the journal.                                *)
(***************************************************************************)
EXTENDS VerifyConsole, FiniteSetTheorems, TLAPS

Step(p) == Start(p) \/ Command(p) \/ Die(p)

-----------------------------------------------------------------------------
(* Types *)

\* What a command may be asked for.
LEMMA RequestTypes ==
  ASSUME TypeOK, NEW p \in Procs
  PROVE  /\ request[p].journal \in BOOLEAN /\ request[p].delivery \in BOOLEAN
         /\ request[p].receipt \in Paths \cup {None} /\ request[p].context \in Paths \cup {None}
<1>1. request[p] \in [journal : BOOLEAN, receipt : Paths \cup {None}, context : Paths \cup {None},
                      delivery : BOOLEAN]
  BY OfferedAssumption DEF TypeOK
<1> QED BY <1>1

LEMMA InitTypes == Init => TypeOK
BY DEF Init, TypeOK, Labels, Documents

\* Where a command goes next is a place.
LEMMA MovesTypes ==
  ASSUME TypeOK, NEW p \in Procs, NEW error \in {"input", "runtime", None},
         NEW status \in Statuses \cup {None}, NEW d \in {"run", "receipt", "context"},
         \/ \E label \in Labels : Goto(p, label)
         \/ \E e \in Documents : Write(p, e)
         \/ Conclude(p, error, status)
         \/ After(p, d, status)
         \/ \E code \in {0, 2, 3, 4, 5} : Exit(p, code)
  PROVE  /\ pc' \in [Procs -> Labels] /\ doc' \in [Procs -> Documents]
         /\ exit' \in [Procs -> {0, 2, 3, 4, 5, None}] /\ lock' \in Procs \cup {None}
<1>1. CASE \E label \in Labels : Goto(p, label)
  BY <1>1 DEF Goto, TypeOK
<1>2. CASE \E e \in Documents : Write(p, e)
  BY <1>2 DEF Write, TypeOK, Labels
<1>3. CASE \E code \in {0, 2, 3, 4, 5} : Exit(p, code)
  BY <1>3 DEF Exit, TypeOK, Labels
<1>4. CASE Conclude(p, error, status)
  BY <1>2, <1>3, <1>4 DEF Conclude, ExitCode, Documents
<1>5. CASE After(p, d, status)
  BY <1>2, <1>3, <1>5 DEF After, Conclude, ExitCode, Documents
<1> QED BY <1>1, <1>2, <1>3, <1>4, <1>5

LEMMA FailTypes ==
  ASSUME TypeOK, NEW p \in Procs, NEW error \in {"input", "runtime"}, Fail(p, error)
  PROVE  /\ pc' \in [Procs -> Labels] /\ doc' \in [Procs -> Documents]
         /\ exit' \in [Procs -> {0, 2, 3, 4, 5, None}] /\ lock' \in Procs \cup {None}
         /\ failure' \in [Procs -> {"input", "runtime", None}]
<1>1. Conclude(p, error, None) /\ None \in Statuses \cup {None}
  BY DEF Fail
<1>2. failure' \in [Procs -> {"input", "runtime", None}]
  BY DEF Fail, TypeOK
<1> QED BY <1>1, <1>2, MovesTypes

LEMMA StageTypes ==
  ASSUME TypeOK, NEW p \in Procs, NEW members \in (SUBSET Members) \cup {None},
         stage' = [stage EXCEPT ![p] = members]
  PROVE  stage' \in [Procs -> (SUBSET Members) \cup {None}]
BY DEF TypeOK

\* A document's place is one that was asked for, and is written only for a command with a status.
LEMMA PathTypes ==
  ASSUME TypeOK, NEW p \in Procs, ProgressInv(p),
         pc[p] \in {"write", "link", "unlink"}, ~InJournal(doc[p])
  PROVE  /\ PathOf(p) \in Paths /\ outcome[p] \in Statuses
         /\ doc[p] \in {"receipt", "context"}
<1>1. doc[p] \in {"receipt", "context"}
  BY DEF TypeOK, Documents, InJournal
<1> QED BY <1>1, RequestTypes DEF ProgressInv, At, PathOf, TypeOK

LEMMA CompletionTypes ==
  ASSUME TypeOK, NEW p \in Procs
  PROVE  CompletionOf(p) \in Finish
BY DEF CompletionOf, Finish, Outcomes, TypeOK

LEMMA NameTypes ==
  ASSUME TypeOK, NEW p \in Procs, ProgressInv(p), pc[p] = "link", Name(p)
  PROVE  /\ started' \in [Procs -> BOOLEAN]
         /\ finished' \in [Procs -> Finish \cup {None}]
         /\ saved' \in [Paths -> Evidence \cup {None}]
<1>1. CASE InJournal(doc[p])
  BY <1>1, CompletionTypes DEF Name, InJournal, TypeOK
<1>2. CASE ~InJournal(doc[p])
  <2>1. [by |-> p, kind |-> doc[p], status |-> outcome[p]] \in Evidence
    BY <1>2, PathTypes DEF Evidence
  <2> QED BY <1>2, <2>1, PathTypes DEF Name, InJournal, TypeOK
<1> QED BY <1>1, <1>2

LEMMA StepTypes ==
  ASSUME TypeOK, NEW p \in Procs, ProgressInv(p), StageInv(p), Step(p)
  PROVE  TypeOK'
<1> DEFINE Control == /\ pc' \in [Procs -> Labels] /\ doc' \in [Procs -> Documents]
                      /\ exit' \in [Procs -> {0, 2, 3, 4, 5, None}] /\ lock' \in Procs \cup {None}
<1>1. CASE Start(p)
  <2>1. \E label \in Labels : Goto(p, label)
    BY <1>1 DEF Start, Labels
  <2>2. Control
    BY <2>1, MovesTypes
  <2> QED BY <1>1, <2>2 DEF Start, TypeOK, run
<1>2. CASE Begin(p)
  BY <1>2 DEF Begin, TypeOK, run, Labels, Documents
<1>3. CASE BeginFails(p)
  <2>1. Control
    BY <1>3, MovesTypes DEF BeginFails
  <2> QED BY <1>3, <2>1 DEF BeginFails, TypeOK, run
<1>4. CASE Create(p)
  <2>1. Control
    BY <1>4, MovesTypes DEF Create, Labels
  <2> QED BY <1>4, <2>1 DEF Create, TypeOK, run
<1>5. CASE Link(p)
  <2>1. Control
    BY <1>5, MovesTypes DEF Link, Labels
  <2>2. pc[p] = "link" /\ Name(p)
    BY <1>5 DEF Link
  <2>3. /\ started' \in [Procs -> BOOLEAN]
        /\ finished' \in [Procs -> Finish \cup {None}]
        /\ saved' \in [Paths -> Evidence \cup {None}]
    BY <2>2, NameTypes
  <2> QED BY <1>5, <2>1, <2>3 DEF Link, TypeOK, run
<1>6. CASE Unlink(p)
  <2>1. Control
    <3>1. failure[p] \in {"input", "runtime", None} /\ outcome[p] \in Statuses \cup {None}
      BY DEF TypeOK
    <3>2. CASE doc[p] = "started"
      BY <1>6, <3>2, MovesTypes DEF Unlink, InJournal, Labels
    <3>3. CASE doc[p] = "finished"
      <4>1. ExitCode(failure[p], outcome[p]) \in {0, 2, 3, 4, 5}
        BY DEF ExitCode
      <4> QED BY <1>6, <3>3, <4>1, MovesTypes DEF Unlink, InJournal
    <3>4. CASE ~InJournal(doc[p])
      <4>1. doc[p] \in {"run", "receipt", "context"}
        BY <1>6, <3>4, PathTypes DEF Unlink
      <4> QED BY <1>6, <3>1, <3>4, <4>1, MovesTypes DEF Unlink, InJournal
    <3> QED BY <3>2, <3>3, <3>4 DEF InJournal
  <2> QED BY <1>6, <2>1 DEF Unlink, TypeOK, run
<1>7. CASE WriteFails(p)
  <2>1. CASE InJournal(doc[p])
    <3>1. Control /\ failure' = failure
      BY <1>7, <2>1, MovesTypes DEF WriteFails
    <3> QED BY <1>7, <3>1 DEF WriteFails, TypeOK, run
  <2>2. CASE ~InJournal(doc[p])
    <3>1. Control /\ failure' \in [Procs -> {"input", "runtime", None}]
      BY <1>7, <2>2, FailTypes DEF WriteFails
    <3> QED BY <1>7, <3>1 DEF WriteFails, TypeOK, run
  <2> QED BY <2>1, <2>2
<1>8. CASE SyncFails(p)
  <2>1. Control
    BY <1>8, MovesTypes DEF SyncFails
  <2> QED BY <1>8, <2>1 DEF SyncFails, TypeOK, run
<1>9. CASE Preflight(p)
  <2>1. Control
    BY <1>9, MovesTypes DEF Preflight, Labels
  <2> QED BY <1>9, <2>1 DEF Preflight, TypeOK, run
<1>10. CASE PreflightFails(p)
  <2>1. Control /\ failure' \in [Procs -> {"input", "runtime", None}]
    BY <1>10, FailTypes DEF PreflightFails
  <2> QED BY <1>10, <2>1 DEF PreflightFails, TypeOK, run
<1>11. CASE Prepare(p)
  <2>1. Control
    BY <1>11, MovesTypes DEF Prepare, Labels
  <2>2. stage' \in [Procs -> (SUBSET Members) \cup {None}]
    BY <1>11 DEF Prepare, TypeOK
  <2> QED BY <1>11, <2>1, <2>2 DEF Prepare, TypeOK, run
<1>12. CASE PrepareFails(p)
  <2>1. Control /\ failure' \in [Procs -> {"input", "runtime", None}]
    BY <1>12, FailTypes DEF PrepareFails
  <2> QED BY <1>12, <2>1 DEF PrepareFails, TypeOK, run
<1>13. CASE Invoke(p)
  <2>1. Control
    BY <1>13, MovesTypes DEF Invoke, Labels
  <2> QED BY <1>13, <2>1 DEF Invoke, TypeOK, run
<1>14. CASE Submit(p)
  <2>1. Control
    BY <1>14, MovesTypes DEF Submit, Labels
  <2> QED BY <1>14, <2>1 DEF Submit, TypeOK, run
<1>15. CASE FinishRun(p)
  <2>1. PICK status \in Statuses :
          outcome' = [outcome EXCEPT ![p] = status] /\ KeepArtifacts(p, status)
    BY <1>15 DEF FinishRun, StatusOf, Statuses
  <2>2. Control
    BY <2>1, MovesTypes DEF KeepArtifacts, Labels
  <2>3. stage' \in [Procs -> (SUBSET Members) \cup {None}]
    <3>1. request[p].delivery => stage[p] \cup {"artifacts"} \in SUBSET Members
      BY <1>15 DEF FinishRun, StageInv, Members
    <3> QED BY <2>1, <3>1 DEF KeepArtifacts, TypeOK
  <2>4. outcome' \in [Procs -> Statuses \cup {None}]
    BY <2>1 DEF TypeOK
  <2> QED BY <1>15, <2>2, <2>3, <2>4 DEF FinishRun, TypeOK
<1>16. CASE RunFails(p)
  <2>1. Control /\ failure' \in [Procs -> {"input", "runtime", None}]
    BY <1>16, FailTypes DEF RunFails
  <2>2. stage' \in [Procs -> (SUBSET Members) \cup {None}]
    BY <1>16 DEF RunFails, TypeOK
  <2> QED BY <1>16, <2>1, <2>2 DEF RunFails, TypeOK, run
<1>17. CASE Assemble(p)
  <2>1. Control
    BY <1>17, MovesTypes DEF Assemble, Labels
  <2>2. stage[p] \cup {"receipt.json"} \in SUBSET Members
    BY <1>17 DEF Assemble, StageInv, Members
  <2>3. stage' \in [Procs -> (SUBSET Members) \cup {None}]
    BY <1>17, <2>2 DEF Assemble, TypeOK
  <2> QED BY <1>17, <2>1, <2>3 DEF Assemble, TypeOK, run
<1>18. CASE Inventory(p)
  <2>1. Control
    BY <1>18, MovesTypes DEF Inventory, Labels
  <2>2. stage[p] \cup {"delivery.json"} \in SUBSET Members
    BY <1>18 DEF Inventory, StageInv, Members
  <2>3. stage' \in [Procs -> (SUBSET Members) \cup {None}]
    BY <1>18, <2>2 DEF Inventory, TypeOK
  <2> QED BY <1>18, <2>1, <2>3 DEF Inventory, TypeOK, run
<1>19. CASE Publish(p)
  <2>1. outcome[p] \in Statuses \cup {None}
    BY DEF TypeOK
  <2>2. Control
    BY <1>19, <2>1, MovesTypes DEF Publish
  <2>3. target' \in Delivery \cup {None}
    BY <1>19 DEF Publish, StageInv, Delivery
  <2>4. stage' \in [Procs -> (SUBSET Members) \cup {None}]
    BY <1>19 DEF Publish, TypeOK
  <2> QED BY <1>19, <2>2, <2>3, <2>4 DEF Publish, TypeOK, run
<1>20. CASE DeliveryFails(p)
  <2>1. Control /\ failure' \in [Procs -> {"input", "runtime", None}]
    BY <1>20, FailTypes DEF DeliveryFails
  <2> QED BY <1>20, <2>1 DEF DeliveryFails, TypeOK, run
<1>21. CASE Die(p)
  BY <1>21 DEF Die, TypeOK, run, Labels
<1> QED
  BY <1>1, <1>2, <1>3, <1>4, <1>5, <1>6, <1>7, <1>8, <1>9, <1>10, <1>11, <1>12, <1>13, <1>14,
     <1>15, <1>16, <1>17, <1>18, <1>19, <1>20, <1>21
  DEF Step, Command, Document, Preparation, Running, Delivering

-----------------------------------------------------------------------------
(* What a step leaves alone *)

\* What is q's own.
Kept(q) ==
  /\ request' = request /\ pc'[q] = pc[q] /\ doc'[q] = doc[q]
  /\ invoked'[q] = invoked[q] /\ outcome'[q] = outcome[q] /\ ran'[q] = ran[q]
  /\ failure'[q] = failure[q] /\ exit'[q] = exit[q] /\ stage'[q] = stage[q]
  /\ started'[q] = started[q] /\ finished'[q] = finished[q]
  /\ lock = q => lock' = q

\* A step of one command changes nothing that is another's.
LEMMA OthersKeep ==
  ASSUME TypeOK, NEW p \in Procs, NEW q \in Procs, q # p, Step(p)
  PROVE  Kept(q)
<1>1. CASE Start(p)
  BY <1>1 DEF Start, Goto, TypeOK, Kept, run
<1>2. CASE Begin(p)
  BY <1>2, ProcsAssumption DEF Begin, TypeOK, Kept, run
<1>3. CASE BeginFails(p)
  BY <1>3 DEF BeginFails, Exit, TypeOK, Kept, run
<1>4. CASE Create(p)
  BY <1>4 DEF Create, Goto, TypeOK, Kept, run
<1>5. CASE Link(p)
  BY <1>5 DEF Link, Goto, Name, InJournal, TypeOK, Kept, run
<1>6. CASE Unlink(p)
  BY <1>6 DEF Unlink, Goto, Exit, After, Write, Conclude, InJournal, TypeOK, Kept, run
<1>7. CASE WriteFails(p)
  BY <1>7 DEF WriteFails, Exit, Fail, Conclude, Write, InJournal, TypeOK, Kept, run
<1>8. CASE SyncFails(p)
  BY <1>8 DEF SyncFails, Exit, TypeOK, Kept, run
<1>9. CASE Preflight(p)
  BY <1>9 DEF Preflight, Goto, TypeOK, Kept, run
<1>10. CASE PreflightFails(p)
  BY <1>10 DEF PreflightFails, Fail, Conclude, Write, Exit, TypeOK, Kept, run
<1>11. CASE Prepare(p)
  BY <1>11 DEF Prepare, Goto, TypeOK, Kept, run
<1>12. CASE PrepareFails(p)
  BY <1>12 DEF PrepareFails, Fail, Conclude, Write, Exit, TypeOK, Kept, run
<1>13. CASE Invoke(p)
  BY <1>13 DEF Invoke, Goto, TypeOK, Kept, run
<1>14. CASE Submit(p)
  BY <1>14 DEF Submit, Goto, TypeOK, Kept, run
<1>15. CASE FinishRun(p)
  BY <1>15 DEF FinishRun, KeepArtifacts, Goto, After, Write, Conclude, Exit, TypeOK, Kept, run
<1>16. CASE RunFails(p)
  BY <1>16 DEF RunFails, Fail, Conclude, Write, Exit, TypeOK, Kept, run
<1>17. CASE Assemble(p)
  BY <1>17 DEF Assemble, Goto, TypeOK, Kept, run
<1>18. CASE Inventory(p)
  BY <1>18 DEF Inventory, Goto, TypeOK, Kept, run
<1>19. CASE Publish(p)
  BY <1>19 DEF Publish, After, Conclude, Write, Exit, TypeOK, Kept, run
<1>20. CASE DeliveryFails(p)
  BY <1>20 DEF DeliveryFails, Fail, Conclude, Write, Exit, TypeOK, Kept, run
<1>21. CASE Die(p)
  BY <1>21 DEF Die, TypeOK, Kept, run
<1> QED
  BY <1>1, <1>2, <1>3, <1>4, <1>5, <1>6, <1>7, <1>8, <1>9, <1>10, <1>11, <1>12, <1>13, <1>14,
     <1>15, <1>16, <1>17, <1>18, <1>19, <1>20, <1>21
  DEF Step, Command, Document, Preparation, Running, Delivering

\* What is published stays as it is.
LEMMA StepReplacesNothing ==
  ASSUME TypeOK, NEW p \in Procs, ProgressInv(p), Step(p)
  PROVE  /\ \A x \in Paths : saved[x] # None => saved'[x] = saved[x]
         /\ \A q \in Procs : started[q] => started'[q]
         /\ \A q \in Procs : finished[q] # None => finished'[q] = finished[q]
         /\ target # None => target' = target
<1>1. CASE Link(p)
  <2>1. pc[p] = "link" /\ ~Taken(p) /\ Name(p) /\ target' = target
    BY <1>1 DEF Link
  <2>2. CASE doc[p] = "started"
    BY <2>1, <2>2 DEF Name, InJournal, TypeOK
  <2>3. CASE doc[p] = "finished"
    BY <2>1, <2>3 DEF Name, InJournal, Taken, TypeOK
  <2>4. CASE ~InJournal(doc[p])
    BY <2>1, <2>4, PathTypes DEF Name, InJournal, Taken, TypeOK
  <2> QED BY <2>2, <2>3, <2>4 DEF InJournal
<1>2. CASE ~Link(p)
  <2>1. saved' = saved /\ started' = started /\ finished' = finished
    BY <1>2 DEF Step, Command, Document, Preparation, Running, Delivering, Start, Begin,
         BeginFails, Create,
         Unlink, WriteFails, SyncFails, Preflight, PreflightFails, Prepare, PrepareFails, Invoke,
         Submit, FinishRun,
         RunFails, Assemble, Inventory, Publish, DeliveryFails, Die
  <2>2. target' = target \/ target = None
    BY <1>2 DEF Step, Command, Document, Preparation, Running, Delivering, Start, Begin,
         BeginFails, Create,
         Unlink, WriteFails, SyncFails, Preflight, PreflightFails, Prepare, PrepareFails, Invoke,
         Submit, FinishRun,
         RunFails, Assemble, Inventory, Publish, DeliveryFails, Die
  <2> QED BY <2>1, <2>2
<1> QED BY <1>1, <1>2

-----------------------------------------------------------------------------
(* The invariant of a command that another command's step leaves alone *)

\* Evidence that is in place is still in place.
LEMMA EvidenceStays ==
  ASSUME TypeOK, NEW q \in Procs, outcome[q] # None, outcome'[q] = outcome[q], request' = request,
         \A x \in Paths : saved[x] # None => saved'[x] = saved[x],
         target # None => target' = target
  PROVE  /\ ReceiptIsThere(q) => ReceiptIsThere(q)'
         /\ ContextIsThere(q) => ContextIsThere(q)'
         /\ IsDelivered(q) => IsDelivered(q)'
<1>1. EvidenceOf(q, "receipt") \in Evidence /\ EvidenceOf(q, "context") \in Evidence
  BY DEF TypeOK, EvidenceOf, Evidence
<1>2. EvidenceOf(q, "receipt")' = EvidenceOf(q, "receipt") /\ EvidenceOf(q, "context")' = EvidenceOf(q, "context")
  BY DEF EvidenceOf
<1>3. /\ request[q].receipt # None => request[q].receipt \in Paths
      /\ request[q].context # None => request[q].context \in Paths
  BY RequestTypes
<1>4. ReceiptIsThere(q) => ReceiptIsThere(q)'
  BY <1>1, <1>2, <1>3, NoneAssumption DEF ReceiptIsThere
<1>5. ContextIsThere(q) => ContextIsThere(q)'
  BY <1>1, <1>2, <1>3, NoneAssumption DEF ContextIsThere
<1>6. [by |-> q, members |-> Members] # None
  <2>1. [by |-> q, members |-> Members] \in Delivery
    BY DEF Delivery
  <2> QED BY <2>1, NoneAssumption
<1>7. IsDelivered(q) => IsDelivered(q)'
  BY <1>6 DEF IsDelivered
<1> QED BY <1>4, <1>5, <1>7

LEMMA OthersInv ==
  ASSUME TypeOK, NEW p \in Procs, NEW q \in Procs, q # p, LocalInv(p), LocalInv(q), Step(p)
  PROVE  LocalInv(q)'
<1>1. Kept(q)
  BY OthersKeep
<1>2. /\ \A x \in Paths : saved[x] # None => saved'[x] = saved[x]
      /\ target # None => target' = target
  BY StepReplacesNothing DEF LocalInv
<1>3. ProgressInv(q)'
  BY <1>1 DEF LocalInv, ProgressInv, At, SameEvidence, Kept
<1>4. StageInv(q)'
  BY <1>1, <1>2 DEF LocalInv, StageInv, KeepsOutputs, Kept
<1>5. outcome[q] # None =>
         /\ ReceiptIsThere(q) => ReceiptIsThere(q)'
         /\ ContextIsThere(q) => ContextIsThere(q)'
         /\ IsDelivered(q) => IsDelivered(q)'
  BY <1>1, <1>2, EvidenceStays DEF Kept
<1>6. EvidenceInv(q)'
  <2>1. CompletionOf(q)' = CompletionOf(q)
    BY <1>1 DEF CompletionOf, Kept
  <2>2. ProgressInv(q) /\ EvidenceInv(q)
    BY DEF LocalInv
  <2> QED BY <1>1, <1>5, <2>1, <2>2 DEF EvidenceInv, ProgressInv, EvidenceIsThere, At, Kept
<1>7. JournalInv(q)'
  <2>1. request[q].journal /\ pc[q] \notin {"idle", "begin", "exited", "dead"} =>
           lock' = q /\ (Entering(q)' \/ started'[q])
    BY <1>1 DEF LocalInv, JournalInv, Entering, Kept
  <2>2. Entering(q) => started' = started
    <3>1. Entering(q) => lock = q
      BY DEF LocalInv, JournalInv, ProgressInv, At, Entering
    <3>2. CASE Link(p)
      <4>1. doc[p] = "started" => lock = p
        BY <3>2 DEF Link, LocalInv, JournalInv, ProgressInv, At
      <4> QED BY <3>1, <3>2, <4>1 DEF Link, Name
    <3>3. CASE ~Link(p)
      BY <3>3 DEF Step, Command, Document, Preparation, Running, Delivering, Start, Begin,
           BeginFails, Create,
         Unlink, WriteFails, SyncFails, Preflight, PreflightFails, Prepare, PrepareFails, Invoke,
         Submit, FinishRun,
         RunFails, Assemble, Inventory, Publish, DeliveryFails, Die
    <3> QED BY <3>2, <3>3
  <2>3. Entering(q)' => Cardinality(Started') < MaxAttempts
    <3>1. Entering(q)' => Entering(q)
      BY <1>1 DEF Entering, Kept
    <3>2. started' = started => Started' = Started
      BY DEF Started
    <3> QED BY <2>2, <3>1, <3>2 DEF LocalInv, JournalInv
  <2> QED BY <1>1, <2>1, <2>3 DEF LocalInv, JournalInv, Kept
<1> QED BY <1>3, <1>4, <1>6, <1>7 DEF LocalInv

\* What None is not.
LEMMA NoneFacts ==
  /\ None # "input" /\ None # "runtime" /\ None \notin Statuses /\ None \notin Procs
  /\ \A members \in SUBSET Members : None # members
  /\ \A d \in Delivery : None # d
BY NoneAssumption, ProcsAssumption

-----------------------------------------------------------------------------
(* The invariant of the command that takes the step *)

LEMMA ProgressStep ==
  ASSUME TypeOK, NEW p \in Procs, ProgressInv(p), Step(p)
  PROVE  ProgressInv(p)'
<1>1. CASE Start(p)
  BY <1>1 DEF Start, Goto, ProgressInv, At, SameEvidence, TypeOK, run
<1>2. CASE Begin(p)
  BY <1>2 DEF Begin, JournalUsable, ProgressInv, At, SameEvidence, TypeOK, run
<1>3. CASE BeginFails(p)
  BY <1>3 DEF BeginFails, Exit, ProgressInv, At, SameEvidence, TypeOK, run
<1>4. CASE Create(p)
  BY <1>4 DEF Create, Goto, ProgressInv, At, SameEvidence, TypeOK, run
<1>5. CASE Link(p)
  BY <1>5 DEF Link, Goto, Name, InJournal, ProgressInv, At, SameEvidence, TypeOK, run
<1>6. CASE Unlink(p)
  <2>1. CASE doc[p] = "started"
    BY <1>6, <2>1 DEF Unlink, Goto, InJournal, ProgressInv, At, SameEvidence, TypeOK, run
  <2>2. CASE doc[p] = "finished"
    BY <1>6, <2>2 DEF Unlink, Exit, InJournal, ProgressInv, At, SameEvidence, TypeOK, run
  <2>3. CASE ~InJournal(doc[p])
    <3>1. /\ doc[p] \in {"receipt", "context"} /\ outcome[p] # None /\ failure[p] = None
          /\ ran[p] /\ ~SameEvidence(p)
      BY <1>6, <2>3, PathTypes, NoneFacts DEF Unlink, ProgressInv, At
    <3>2. After(p, doc[p], outcome[p]) /\ UNCHANGED <<request, run, failure>>
      BY <1>6, <2>3 DEF Unlink, InJournal
    <3> QED BY <3>1, <3>2 DEF After, Write, Conclude, Exit, ProgressInv, At, SameEvidence, TypeOK,
                 run
  <2> QED BY <2>1, <2>2, <2>3 DEF InJournal
<1>7. CASE WriteFails(p)
  <2>1. CASE InJournal(doc[p])
    BY <1>7, <2>1 DEF WriteFails, Exit, ProgressInv, At, SameEvidence, TypeOK, run
  <2>2. CASE ~InJournal(doc[p])
    BY <1>7, <2>2, NoneFacts DEF WriteFails, Fail, Conclude, Write, Exit, ProgressInv, At,
         SameEvidence, TypeOK, run
  <2> QED BY <2>1, <2>2
<1>8. CASE SyncFails(p)
  BY <1>8 DEF SyncFails, Exit, ProgressInv, At, SameEvidence, TypeOK, run
<1>9. CASE Preflight(p)
  BY <1>9 DEF Preflight, Goto, ProgressInv, At, SameEvidence, TypeOK, run
<1>10. CASE PreflightFails(p)
  BY <1>10, NoneFacts DEF PreflightFails, Fail, Conclude, Write, Exit, ProgressInv, At,
       SameEvidence, TypeOK, run
<1>11. CASE Prepare(p)
  BY <1>11 DEF Prepare, Goto, ProgressInv, At, SameEvidence, TypeOK, run
<1>12. CASE PrepareFails(p)
  BY <1>12, NoneFacts DEF PrepareFails, Fail, Conclude, Write, Exit, ProgressInv, At,
       SameEvidence, TypeOK, run
<1>13. CASE Invoke(p)
  BY <1>13 DEF Invoke, Goto, ProgressInv, At, SameEvidence, TypeOK, run
<1>14. CASE Submit(p)
  BY <1>14 DEF Submit, Goto, ProgressInv, At, SameEvidence, TypeOK, run
<1>15. CASE FinishRun(p)
  <2>1. PICK status \in Statuses :
          outcome' = [outcome EXCEPT ![p] = status] /\ KeepArtifacts(p, status)
    BY <1>15 DEF FinishRun, StatusOf, Statuses
  <2>2. /\ pc[p] = "running" /\ invoked[p] /\ ran[p] /\ failure[p] = None /\ ~SameEvidence(p)
        /\ UNCHANGED <<request, invoked, ran, failure>>
    BY <1>15 DEF FinishRun, ProgressInv
  <2>3. outcome'[p] = status /\ status # None
    BY <2>1, NoneFacts DEF TypeOK
  <2>4. CASE request[p].delivery /\ status = "succeeded"
    BY <2>1, <2>2, <2>3, <2>4 DEF KeepArtifacts, Goto, ProgressInv, At, SameEvidence, TypeOK
  <2>5. CASE ~(request[p].delivery /\ status = "succeeded")
    BY <2>1, <2>2, <2>3, <2>5 DEF KeepArtifacts, After, Write, Conclude, Exit, ProgressInv, At,
         SameEvidence, TypeOK
  <2> QED BY <2>4, <2>5
<1>16. CASE RunFails(p)
  BY <1>16, NoneFacts DEF RunFails, Fail, Conclude, Write, Exit, ProgressInv, At, SameEvidence,
       TypeOK, run
<1>17. CASE Assemble(p)
  BY <1>17 DEF Assemble, Goto, ProgressInv, At, SameEvidence, TypeOK, run
<1>18. CASE Inventory(p)
  BY <1>18 DEF Inventory, Goto, ProgressInv, At, SameEvidence, TypeOK, run
<1>19. CASE Publish(p)
  <2>1. /\ outcome[p] = "succeeded" /\ outcome[p] # None /\ failure[p] = None /\ ran[p] /\ ~SameEvidence(p)
        /\ UNCHANGED <<request, run, failure>>
    BY <1>19, NoneFacts DEF Publish, ProgressInv, Statuses
  <2> QED BY <1>19, <2>1 DEF Publish, After, Write, Conclude, Exit, ProgressInv, At, SameEvidence,
               TypeOK, run
<1>20. CASE DeliveryFails(p)
  BY <1>20, NoneFacts DEF DeliveryFails, Fail, Conclude, Write, Exit, ProgressInv, At,
       SameEvidence, TypeOK, run
<1>21. CASE Die(p)
  BY <1>21 DEF Die, ProgressInv, At, SameEvidence, TypeOK, run
<1> QED
  BY <1>1, <1>2, <1>3, <1>4, <1>5, <1>6, <1>7, <1>8, <1>9, <1>10, <1>11, <1>12, <1>13, <1>14,
     <1>15, <1>16, <1>17, <1>18, <1>19, <1>20, <1>21
  DEF Step, Command, Document, Preparation, Running, Delivering

LEMMA StageStep ==
  ASSUME TypeOK, NEW p \in Procs, ProgressInv(p), StageInv(p), Step(p)
  PROVE  StageInv(p)'
<1>1. CASE Start(p)
  BY <1>1 DEF Start, Goto, StageInv, KeepsOutputs, ProgressInv, At, Members, TypeOK, run
<1>2. CASE Begin(p)
  BY <1>2 DEF Begin, JournalUsable, StageInv, KeepsOutputs, ProgressInv, At, Members, TypeOK, run
<1>3. CASE BeginFails(p)
  BY <1>3 DEF BeginFails, Exit, StageInv, KeepsOutputs, ProgressInv, At, Members, TypeOK, run
<1>4. CASE Create(p)
  BY <1>4 DEF Create, Goto, StageInv, KeepsOutputs, ProgressInv, At, Members, TypeOK, run
<1>5. CASE Link(p)
  BY <1>5 DEF Link, Goto, Name, InJournal, StageInv, KeepsOutputs, ProgressInv, At, Members,
       TypeOK, run
<1>6. CASE Unlink(p)
  BY <1>6 DEF Unlink, Goto, Exit, After, Write, Conclude, InJournal, StageInv, KeepsOutputs,
       ProgressInv, At, Members, TypeOK, run
<1>7. CASE WriteFails(p)
  BY <1>7 DEF WriteFails, Exit, Fail, Conclude, Write, InJournal, StageInv, KeepsOutputs,
       ProgressInv, At, Members, TypeOK, run
<1>8. CASE SyncFails(p)
  BY <1>8 DEF SyncFails, Exit, StageInv, KeepsOutputs, ProgressInv, At, Members, TypeOK, run
<1>9. CASE Preflight(p)
  BY <1>9 DEF Preflight, Goto, StageInv, KeepsOutputs, ProgressInv, At, Members, TypeOK, run
<1>10. CASE PreflightFails(p)
  BY <1>10 DEF PreflightFails, Fail, Conclude, Write, Exit, StageInv, KeepsOutputs, ProgressInv,
       At, Members, TypeOK, run
<1>11. CASE Prepare(p)
  BY <1>11, NoneFacts DEF Prepare, Goto, Statuses, StageInv, KeepsOutputs, ProgressInv, At,
       Members, TypeOK, run
<1>12. CASE PrepareFails(p)
  BY <1>12 DEF PrepareFails, Fail, Conclude, Write, Exit, StageInv, KeepsOutputs, ProgressInv, At,
       Members, TypeOK, run
<1>13. CASE Invoke(p)
  BY <1>13 DEF Invoke, Goto, StageInv, KeepsOutputs, ProgressInv, At, Members, TypeOK, run
<1>14. CASE Submit(p)
  BY <1>14 DEF Submit, Goto, StageInv, KeepsOutputs, ProgressInv, At, Members, TypeOK, run
<1>15. CASE FinishRun(p)
  <2>1. PICK status \in Statuses :
          outcome' = [outcome EXCEPT ![p] = status] /\ KeepArtifacts(p, status)
    BY <1>15 DEF FinishRun, StatusOf, Statuses
  <2>2. pc[p] = "running" /\ UNCHANGED <<request, target>> /\ outcome'[p] = status
    BY <1>15, <2>1 DEF FinishRun, TypeOK
  <2>3. CASE request[p].delivery /\ status = "succeeded"
    <3>1. stage[p] = {} /\ pc'[p] = "assemble"
      BY <2>1, <2>2, <2>3 DEF KeepArtifacts, Goto, StageInv, TypeOK
    <3>2. stage'[p] = {"artifacts"}
      BY <2>1, <2>3, <3>1 DEF KeepArtifacts, TypeOK
    <3>3. {"artifacts"} # None
      BY NoneFacts DEF Members
    <3> QED BY <3>1, <3>2, <3>3 DEF StageInv, KeepsOutputs
  <2>4. CASE ~(request[p].delivery /\ status = "succeeded")
    <3>1. pc'[p] \in {"write", "exited"}
      BY <2>1, <2>2, <2>4 DEF KeepArtifacts, After, Write, Conclude, Exit, TypeOK
    <3> QED BY <2>2, <2>4, <3>1 DEF StageInv, KeepsOutputs
  <2> QED BY <2>3, <2>4
<1>16. CASE RunFails(p)
  BY <1>16 DEF RunFails, Fail, Conclude, Write, Exit, StageInv, KeepsOutputs, ProgressInv, At,
       Members, TypeOK, run
<1>17. CASE Assemble(p)
  <2>1. stage[p] = {"artifacts"} /\ pc'[p] = "inventory" /\ stage'[p] = stage[p] \cup {"receipt.json"}
    BY <1>17 DEF Assemble, Goto, StageInv, TypeOK
  <2>2. stage'[p] = {"artifacts", "receipt.json"}
    BY <2>1
  <2>3. {"artifacts", "receipt.json"} # None
    BY NoneFacts DEF Members
  <2> QED BY <2>1, <2>2, <2>3 DEF StageInv, KeepsOutputs
<1>18. CASE Inventory(p)
  <2>1. /\ stage[p] = {"artifacts", "receipt.json"} /\ pc'[p] = "publish"
        /\ stage'[p] = stage[p] \cup {"delivery.json"}
    BY <1>18 DEF Inventory, Goto, StageInv, TypeOK
  <2>2. stage'[p] = Members
    BY <2>1 DEF Members
  <2>3. Members # None /\ "artifacts" \in Members
    BY NoneFacts DEF Members
  <2> QED BY <2>1, <2>2, <2>3 DEF StageInv, KeepsOutputs
<1>19. CASE Publish(p)
  <2>1. target' \in Delivery /\ target'.by = p
    BY <1>19 DEF Publish, StageInv, Delivery
  <2>2. pc'[p] \in {"write", "exited"}
    BY <1>19 DEF Publish, After, Write, Conclude, Exit, TypeOK
  <2> QED BY <2>1, <2>2, NoneFacts DEF StageInv, KeepsOutputs
<1>20. CASE DeliveryFails(p)
  BY <1>20 DEF DeliveryFails, Fail, Conclude, Write, Exit, StageInv, KeepsOutputs, ProgressInv,
       At, Members, TypeOK, run
<1>21. CASE Die(p)
  BY <1>21 DEF Die, StageInv, KeepsOutputs, ProgressInv, At, Members, TypeOK, run
<1> QED
  BY <1>1, <1>2, <1>3, <1>4, <1>5, <1>6, <1>7, <1>8, <1>9, <1>10, <1>11, <1>12, <1>13, <1>14,
     <1>15, <1>16, <1>17, <1>18, <1>19, <1>20, <1>21
  DEF Step, Command, Document, Preparation, Running, Delivering

-----------------------------------------------------------------------------
(* The evidence of the command that takes the step *)

\* Its status is decided once, and its evidence stays.
LEMMA OwnEvidenceStays ==
  ASSUME TypeOK, NEW p \in Procs, ProgressInv(p), Step(p), outcome[p] # None
  PROVE  /\ outcome'[p] = outcome[p] /\ request' = request
         /\ ReceiptIsThere(p) => ReceiptIsThere(p)'
         /\ ContextIsThere(p) => ContextIsThere(p)'
         /\ IsDelivered(p) => IsDelivered(p)'
<1>1. outcome'[p] = outcome[p] /\ request' = request
  BY DEF ProgressInv, run, Step, Command, Document, Preparation, Running, Delivering, Start,
       Begin, BeginFails,
       Create, Link, Unlink, WriteFails, SyncFails, Preflight, PreflightFails, Prepare,
       PrepareFails, Invoke,
       Submit, FinishRun, RunFails, Assemble, Inventory, Publish, DeliveryFails, Die
<1> QED BY <1>1, StepReplacesNothing, EvidenceStays

\* Going on after the run, or after a document, is right when what came before is in place.
LEMMA AfterEvidence ==
  ASSUME TypeOK, NEW p \in Procs, NEW d \in {"run", "receipt", "context"}, NEW status \in Statuses,
         After(p, d, status), outcome'[p] = status, failure'[p] = None, request' = request,
         finished' = finished, finished[p] = None, exit[p] \notin {0, 3, 5}, IsDelivered(p)',
         d \in {"receipt", "context"} => ReceiptIsThere(p)',
         d = "context" => ContextIsThere(p)'
  PROVE  EvidenceInv(p)'
<1>1. status # None
  BY NoneFacts
<1>2. CASE d = "run" /\ request[p].receipt # None
  <2>1. pc'[p] = "write" /\ doc'[p] = "receipt" /\ exit'[p] = exit[p]
    BY <1>2 DEF After, Write, TypeOK
  <2> QED BY <2>1 DEF EvidenceInv, At
<1>3. CASE ~(d = "run" /\ request[p].receipt # None) /\ d # "context" /\ request[p].context # None
  <2>1. pc'[p] = "write" /\ doc'[p] = "context" /\ exit'[p] = exit[p]
    BY <1>3 DEF After, Write, TypeOK
  <2>2. ReceiptIsThere(p)'
    BY <1>3 DEF ReceiptIsThere
  <2> QED BY <2>1, <2>2 DEF EvidenceInv, At
<1>4. CASE ~(d = "run" /\ request[p].receipt # None) /\ ~(d # "context" /\ request[p].context # None)
  <2>1. ReceiptIsThere(p)' /\ ContextIsThere(p)'
    BY <1>4 DEF ReceiptIsThere, ContextIsThere
  <2>2. EvidenceIsThere(p)'
    BY <2>1 DEF EvidenceIsThere
  <2>3. Conclude(p, None, status)
    BY <1>4 DEF After
  <2>4. CASE request[p].journal
    <3>1. pc'[p] = "write" /\ doc'[p] = "finished" /\ exit'[p] = exit[p]
      BY <2>3, <2>4 DEF Conclude, Write, TypeOK
    <3> QED BY <2>2, <3>1 DEF EvidenceInv, At
  <2>5. CASE ~request[p].journal
    <3>1. pc'[p] = "exited" /\ exit'[p] = ExitCode(None, status)
      BY <2>3, <2>5 DEF Conclude, Exit, TypeOK
    <3> QED BY <1>1, <2>2, <2>5, <3>1 DEF EvidenceInv, At, ExitCode
  <2> QED BY <2>4, <2>5
<1> QED BY <1>2, <1>3, <1>4

\* A command that fails claims nothing.
LEMMA FailEvidence ==
  ASSUME TypeOK, NEW p \in Procs, NEW error \in {"input", "runtime"}, Fail(p, error),
         finished' = finished, finished[p] = None, exit[p] \notin {0, 3, 5}
  PROVE  EvidenceInv(p)'
<1>1. failure'[p] = error /\ failure'[p] # None
  BY NoneFacts DEF Fail, TypeOK
<1>2. CASE request[p].journal
  <2>1. pc'[p] = "write" /\ exit'[p] = exit[p] /\ doc'[p] = "finished"
    BY <1>2 DEF Fail, Conclude, Write, TypeOK
  <2> QED BY <1>1, <2>1 DEF EvidenceInv, At
<1>3. CASE ~request[p].journal
  <2>1. pc'[p] = "exited" /\ exit'[p] \in {2, 4}
    BY <1>3 DEF Fail, Conclude, Exit, ExitCode, TypeOK
  <2> QED BY <2>1 DEF EvidenceInv, At
<1> QED BY <1>2, <1>3

\* A command that is still under way has claimed nothing.
LEMMA NothingClaimed ==
  ASSUME NEW p \in Procs, EvidenceInv(p), pc[p] \notin {"exited", "dead"},
         ~(pc[p] = "unlink" /\ doc[p] = "finished")
  PROVE  finished[p] = None /\ exit[p] \notin {0, 3, 5}
BY DEF EvidenceInv

LEMMA EvidenceStep ==
  ASSUME TypeOK, NEW p \in Procs, ProgressInv(p), StageInv(p), EvidenceInv(p), Step(p)
  PROVE  EvidenceInv(p)'
<1>1. CASE Start(p)
  <2>1. finished[p] = None /\ exit[p] \notin {0, 3, 5} /\ finished' = finished
    BY <1>1, NothingClaimed DEF Start
  <2>2. pc'[p] \in {"begin", "preflight"} /\ exit'[p] = exit[p]
    BY <1>1 DEF Start, Goto, TypeOK
  <2> QED BY <2>1, <2>2 DEF EvidenceInv, At
<1>2. CASE Begin(p)
  <2>1. finished[p] = None /\ exit[p] \notin {0, 3, 5} /\ finished' = finished
    BY <1>2, NothingClaimed DEF Begin
  <2>2. pc'[p] = "write" /\ doc'[p] = "started" /\ exit'[p] = exit[p]
    BY <1>2 DEF Begin, TypeOK
  <2> QED BY <2>1, <2>2 DEF EvidenceInv, At
<1>3. CASE BeginFails(p)
  <2>1. finished[p] = None /\ exit[p] \notin {0, 3, 5} /\ finished' = finished
    BY <1>3, NothingClaimed DEF BeginFails
  <2>2. pc'[p] = "exited" /\ exit'[p] = 4
    BY <1>3 DEF BeginFails, Exit, TypeOK
  <2> QED BY <2>1, <2>2 DEF EvidenceInv, At
<1>4. CASE Create(p)
  <2>1. finished[p] = None /\ exit[p] \notin {0, 3, 5} /\ finished' = finished
    BY <1>4, NothingClaimed DEF Create
  <2>2. /\ pc[p] = "write" /\ pc'[p] = "link" /\ UNCHANGED <<doc, exit, failure>>
    BY <1>4 DEF Create, Goto, TypeOK
  <2>3. outcome[p] # None =>
          /\ ReceiptIsThere(p) => ReceiptIsThere(p)'
          /\ ContextIsThere(p) => ContextIsThere(p)'
          /\ IsDelivered(p) => IsDelivered(p)'
    BY OwnEvidenceStays
  <2> QED BY <2>1, <2>2, <2>3 DEF EvidenceInv, EvidenceIsThere, ProgressInv, At
<1>5. CASE Link(p)
  <2>1. /\ pc[p] = "link" /\ pc'[p] = "unlink" /\ ~Taken(p) /\ Name(p)
        /\ UNCHANGED <<request, run, doc, exit, failure>>
    BY <1>5 DEF Link, Goto, TypeOK
  <2>2. finished[p] = None /\ exit[p] \notin {0, 3, 5}
    BY <2>1, NothingClaimed
  <2>3. outcome[p] # None =>
          /\ ReceiptIsThere(p) => ReceiptIsThere(p)'
          /\ ContextIsThere(p) => ContextIsThere(p)'
          /\ IsDelivered(p) => IsDelivered(p)'
    BY OwnEvidenceStays
  <2>4. CASE doc[p] = "started"
    <3>1. finished' = finished
      BY <2>1, <2>4 DEF Name, InJournal
    <3> QED BY <2>1, <2>2, <2>4, <3>1 DEF EvidenceInv, At
  <2>5. CASE doc[p] = "finished"
    <3>1. finished'[p] = CompletionOf(p) /\ CompletionOf(p)' = CompletionOf(p) /\ finished'[p] # None
      <4>1. finished'[p] = CompletionOf(p)
        BY <2>1, <2>5 DEF Name, InJournal, TypeOK
      <4>2. CompletionOf(p)' = CompletionOf(p)
        BY <2>1 DEF CompletionOf, run
      <4> QED BY <4>1, <4>2, CompletionTypes, NoneAssumption
    <3>2. failure[p] = None => outcome[p] # None /\ EvidenceIsThere(p)
      BY <2>1, <2>5 DEF ProgressInv, EvidenceInv, At
    <3>3. failure'[p] = None => outcome'[p] # None /\ EvidenceIsThere(p)'
      BY <2>1, <2>3, <3>2 DEF EvidenceIsThere, run
    <3> QED BY <2>1, <2>2, <2>5, <3>1, <3>3 DEF EvidenceInv, At
  <2>6. CASE ~InJournal(doc[p])
    <3>1. PathOf(p) \in Paths /\ outcome[p] \in Statuses /\ doc[p] \in {"receipt", "context"}
      BY <2>1, <2>6, PathTypes
    <3>2. finished' = finished /\ outcome[p] # None
      BY <2>1, <2>6, <3>1, NoneFacts DEF Name, InJournal
    <3>3. saved'[PathOf(p)] = [by |-> p, kind |-> doc[p], status |-> outcome[p]]
      BY <2>1, <2>6, <3>1 DEF Name, InJournal, TypeOK
    <3>4. CASE doc[p] = "receipt"
      <4>1. ReceiptIsThere(p)'
        BY <2>1, <3>3, <3>4 DEF ReceiptIsThere, EvidenceOf, PathOf, run
      <4> QED BY <2>1, <2>2, <2>3, <3>2, <3>4, <4>1 DEF EvidenceInv, At
    <3>5. CASE doc[p] = "context"
      <4>1. ContextIsThere(p)'
        BY <2>1, <3>3, <3>5 DEF ContextIsThere, EvidenceOf, PathOf, run
      <4> QED BY <2>1, <2>2, <2>3, <3>2, <3>5, <4>1 DEF EvidenceInv, At
    <3> QED BY <3>1, <3>4, <3>5
  <2> QED BY <2>4, <2>5, <2>6 DEF InJournal
<1>6. CASE Unlink(p)
  <2>1. /\ pc[p] = "unlink"
        /\ UNCHANGED <<request, run, failure, started, finished, saved, stage, target>>
    BY <1>6 DEF Unlink
  <2>2. outcome[p] # None =>
          /\ ReceiptIsThere(p) => ReceiptIsThere(p)'
          /\ ContextIsThere(p) => ContextIsThere(p)'
          /\ IsDelivered(p) => IsDelivered(p)'
    BY OwnEvidenceStays
  <2>3. CASE doc[p] = "started"
    <3>1. finished[p] = None /\ exit[p] \notin {0, 3, 5}
      BY <2>1, <2>3, NothingClaimed
    <3>2. pc'[p] = "preflight" /\ exit'[p] = exit[p]
      BY <1>6, <2>3 DEF Unlink, Goto, InJournal, TypeOK
    <3> QED BY <2>1, <3>1, <3>2 DEF EvidenceInv, At
  <2>4. CASE doc[p] = "finished"
    <3>1. pc'[p] = "exited" /\ exit'[p] = ExitCode(failure[p], outcome[p])
      BY <1>6, <2>4 DEF Unlink, Exit, InJournal, TypeOK
    <3>2. /\ finished[p] # None /\ finished[p] = CompletionOf(p)
          /\ failure[p] = None => outcome[p] # None /\ EvidenceIsThere(p)
      BY <2>1, <2>4 DEF EvidenceInv, At
    <3>3. failure'[p] = None => outcome'[p] # None /\ EvidenceIsThere(p)'
      BY <2>1, <2>2, <3>2 DEF EvidenceIsThere, run
    <3>4. finished'[p] = CompletionOf(p)'
      BY <2>1, <3>2 DEF CompletionOf, run
    <3>5. exit'[p] \in {0, 3, 5} => failure[p] = None
      BY <3>1 DEF ExitCode, TypeOK
    <3> QED BY <2>1, <3>1, <3>2, <3>3, <3>4, <3>5 DEF EvidenceInv, At, run
  <2>5. CASE ~InJournal(doc[p])
    <3>1. doc[p] \in {"receipt", "context"} /\ outcome[p] \in Statuses /\ outcome[p] # None
      BY <2>1, <2>5, PathTypes, NoneFacts
    <3>2. failure[p] = None
      BY <2>1, <3>1 DEF ProgressInv, At
    <3>3. finished[p] = None /\ exit[p] \notin {0, 3, 5}
      BY <2>1, <3>1, NothingClaimed
    <3>4. /\ IsDelivered(p) /\ ReceiptIsThere(p)
          /\ doc[p] = "context" => ContextIsThere(p)
      BY <2>1, <3>1 DEF EvidenceInv, At
    <3>5. After(p, doc[p], outcome[p])
      BY <1>6, <2>5 DEF Unlink, InJournal
    <3> QED BY <2>1, <2>2, <3>1, <3>2, <3>3, <3>4, <3>5, AfterEvidence DEF run
  <2> QED BY <2>3, <2>4, <2>5 DEF InJournal
<1>7. CASE WriteFails(p)
  <2>1. finished[p] = None /\ exit[p] \notin {0, 3, 5} /\ finished' = finished
    BY <1>7, NothingClaimed DEF WriteFails
  <2>2. CASE InJournal(doc[p])
    <3>1. pc'[p] = "exited" /\ exit'[p] = 4
      BY <1>7, <2>2 DEF WriteFails, Exit, TypeOK
    <3> QED BY <2>1, <3>1 DEF EvidenceInv, At
  <2>3. CASE ~InJournal(doc[p])
    BY <1>7, <2>1, <2>3, FailEvidence DEF WriteFails
  <2> QED BY <2>2, <2>3
<1>8. CASE SyncFails(p)
  <2>1. /\ pc[p] = "unlink" /\ pc'[p] = "exited" /\ exit'[p] = 4
        /\ UNCHANGED <<request, run, failure, finished>>
    BY <1>8 DEF SyncFails, Exit, TypeOK
  <2>2. outcome[p] # None =>
          /\ ReceiptIsThere(p) => ReceiptIsThere(p)'
          /\ ContextIsThere(p) => ContextIsThere(p)'
          /\ IsDelivered(p) => IsDelivered(p)'
    BY OwnEvidenceStays
  <2>3. CompletionOf(p)' = CompletionOf(p)
    BY <2>1 DEF CompletionOf, run
  <2> QED BY <2>1, <2>2, <2>3 DEF EvidenceInv, EvidenceIsThere, At, run
<1>9. CASE Preflight(p)
  <2>1. finished[p] = None /\ exit[p] \notin {0, 3, 5} /\ finished' = finished
    BY <1>9, NothingClaimed DEF Preflight
  <2>2. pc'[p] = "prepare" /\ exit'[p] = exit[p]
    BY <1>9 DEF Preflight, Goto, TypeOK
  <2> QED BY <2>1, <2>2 DEF EvidenceInv, At
<1>10. CASE PreflightFails(p)
  <2>1. finished[p] = None /\ exit[p] \notin {0, 3, 5} /\ finished' = finished
    BY <1>10, NothingClaimed DEF PreflightFails
  <2>2. \E error \in {"input", "runtime"} : Fail(p, error)
    BY <1>10 DEF PreflightFails
  <2> QED BY <2>1, <2>2, FailEvidence
<1>11. CASE Prepare(p)
  <2>1. finished[p] = None /\ exit[p] \notin {0, 3, 5} /\ finished' = finished
    BY <1>11, NothingClaimed DEF Prepare
  <2>2. pc'[p] = "invoke" /\ exit'[p] = exit[p]
    BY <1>11 DEF Prepare, Goto, TypeOK
  <2> QED BY <2>1, <2>2 DEF EvidenceInv, At
<1>12. CASE PrepareFails(p)
  <2>1. finished[p] = None /\ exit[p] \notin {0, 3, 5} /\ finished' = finished
    BY <1>12, NothingClaimed DEF PrepareFails
  <2>2. \E error \in {"input", "runtime"} : Fail(p, error)
    BY <1>12 DEF PrepareFails
  <2> QED BY <2>1, <2>2, FailEvidence
<1>13. CASE Invoke(p)
  <2>1. finished[p] = None /\ exit[p] \notin {0, 3, 5} /\ finished' = finished
    BY <1>13, NothingClaimed DEF Invoke
  <2>2. pc'[p] = "submit" /\ exit'[p] = exit[p]
    BY <1>13 DEF Invoke, Goto, TypeOK
  <2> QED BY <2>1, <2>2 DEF EvidenceInv, At
<1>14. CASE Submit(p)
  <2>1. finished[p] = None /\ exit[p] \notin {0, 3, 5} /\ finished' = finished
    BY <1>14, NothingClaimed DEF Submit
  <2>2. pc'[p] = "running" /\ exit'[p] = exit[p]
    BY <1>14 DEF Submit, Goto, TypeOK
  <2> QED BY <2>1, <2>2 DEF EvidenceInv, At
<1>15. CASE FinishRun(p)
  <2>1. PICK status \in Statuses :
          outcome' = [outcome EXCEPT ![p] = status] /\ KeepArtifacts(p, status)
    BY <1>15 DEF FinishRun, StatusOf, Statuses
  <2>2. /\ pc[p] = "running" /\ failure[p] = None /\ outcome'[p] = status
        /\ UNCHANGED <<request, failure, finished>>
    BY <1>15, <2>1 DEF FinishRun, ProgressInv, TypeOK
  <2>3. finished[p] = None /\ exit[p] \notin {0, 3, 5}
    BY <2>2, NothingClaimed
  <2>4. CASE request[p].delivery /\ status = "succeeded"
    <3>1. pc'[p] = "assemble" /\ exit'[p] = exit[p]
      BY <2>1, <2>4 DEF KeepArtifacts, Goto, TypeOK
    <3> QED BY <2>2, <2>3, <3>1 DEF EvidenceInv, At
  <2>5. CASE ~(request[p].delivery /\ status = "succeeded")
    <3>1. IsDelivered(p)' /\ After(p, "run", status)
      BY <2>1, <2>2, <2>5 DEF IsDelivered, KeepArtifacts
    <3> QED BY <2>2, <2>3, <3>1, AfterEvidence
  <2> QED BY <2>4, <2>5
<1>16. CASE RunFails(p)
  <2>1. finished[p] = None /\ exit[p] \notin {0, 3, 5} /\ finished' = finished
    BY <1>16, NothingClaimed DEF RunFails
  <2>2. \E error \in {"input", "runtime"} : Fail(p, error)
    BY <1>16 DEF RunFails
  <2> QED BY <2>1, <2>2, FailEvidence
<1>17. CASE Assemble(p)
  <2>1. finished[p] = None /\ exit[p] \notin {0, 3, 5} /\ finished' = finished
    BY <1>17, NothingClaimed DEF Assemble
  <2>2. pc'[p] = "inventory" /\ exit'[p] = exit[p]
    BY <1>17 DEF Assemble, Goto, TypeOK
  <2> QED BY <2>1, <2>2 DEF EvidenceInv, At
<1>18. CASE Inventory(p)
  <2>1. finished[p] = None /\ exit[p] \notin {0, 3, 5} /\ finished' = finished
    BY <1>18, NothingClaimed DEF Inventory
  <2>2. pc'[p] = "publish" /\ exit'[p] = exit[p]
    BY <1>18 DEF Inventory, Goto, TypeOK
  <2> QED BY <2>1, <2>2 DEF EvidenceInv, At
<1>19. CASE Publish(p)
  <2>1. /\ pc[p] = "publish" /\ outcome[p] = "succeeded" /\ failure[p] = None /\ stage[p] = Members
        /\ UNCHANGED <<request, outcome, failure, finished>>
    BY <1>19 DEF Publish, ProgressInv, StageInv, run
  <2>2. finished[p] = None /\ exit[p] \notin {0, 3, 5}
    BY <2>1, NothingClaimed
  <2>3. target' = [by |-> p, members |-> Members] /\ After(p, "run", outcome[p])
    BY <1>19, <2>1 DEF Publish
  <2>4. IsDelivered(p)' /\ outcome[p] \in Statuses
    BY <2>1, <2>3 DEF IsDelivered, Statuses
  <2> QED BY <2>1, <2>2, <2>3, <2>4, AfterEvidence
<1>20. CASE DeliveryFails(p)
  <2>1. finished[p] = None /\ exit[p] \notin {0, 3, 5} /\ finished' = finished
    BY <1>20, NothingClaimed DEF DeliveryFails
  <2>2. \E error \in {"input", "runtime"} : Fail(p, error)
    BY <1>20 DEF DeliveryFails
  <2> QED BY <2>1, <2>2, FailEvidence
<1>21. CASE Die(p)
  <2>1. pc'[p] = "dead" /\ UNCHANGED <<request, doc, run, failure, exit, finished>> /\ pc[p] # "exited"
    BY <1>21 DEF Die, TypeOK
  <2>2. outcome[p] # None =>
          /\ ReceiptIsThere(p) => ReceiptIsThere(p)'
          /\ ContextIsThere(p) => ContextIsThere(p)'
          /\ IsDelivered(p) => IsDelivered(p)'
    BY OwnEvidenceStays
  <2>3. CompletionOf(p)' = CompletionOf(p)
    BY <2>1 DEF CompletionOf, run
  <2> QED BY <2>1, <2>2, <2>3 DEF EvidenceInv, EvidenceIsThere, At, run
<1> QED
  BY <1>1, <1>2, <1>3, <1>4, <1>5, <1>6, <1>7, <1>8, <1>9, <1>10, <1>11, <1>12, <1>13, <1>14,
     <1>15, <1>16, <1>17, <1>18, <1>19, <1>20, <1>21
  DEF Step, Command, Document, Preparation, Running, Delivering

-----------------------------------------------------------------------------
(* The journal *)

LEMMA JournalStep ==
  ASSUME TypeOK, NEW p \in Procs, ProgressInv(p), EvidenceInv(p), JournalInv(p), Step(p)
  PROVE  JournalInv(p)'
<1>0. started' = started => Started' = Started
  BY DEF Started
<1>1. CASE Start(p)
  BY <1>0, <1>1 DEF Start, Goto, JournalInv, ProgressInv, Entering, At, TypeOK, run
<1>2. CASE Begin(p)
  <2>1. /\ Cardinality({q \in Procs : started[q]}) < MaxAttempts /\ lock' = p
        /\ pc[p] = "begin" /\ pc'[p] = "write" /\ doc'[p] = "started"
        /\ UNCHANGED <<request, started, finished>>
    BY <1>0, <1>2 DEF Begin, JournalUsable, TypeOK
  <2> QED BY <1>0, <2>1 DEF JournalInv, Entering, Started
<1>3. CASE BeginFails(p)
  BY <1>0, <1>3 DEF BeginFails, Exit, JournalInv, ProgressInv, Entering, At, TypeOK, run
<1>4. CASE Create(p)
  BY <1>0, <1>4 DEF Create, Goto, JournalInv, ProgressInv, Entering, At, TypeOK, run
<1>5. CASE Link(p)
  BY <1>0, <1>5 DEF Link, Goto, Name, InJournal, JournalInv, ProgressInv, Entering, At, TypeOK, run
<1>6. CASE Unlink(p)
  <2>1. CASE doc[p] = "started"
    BY <1>0, <1>6, <2>1 DEF Unlink, Goto, InJournal, JournalInv, ProgressInv, Entering, At,
         TypeOK, run
  <2>2. CASE doc[p] = "finished"
    BY <1>0, <1>6, <2>2 DEF Unlink, Exit, InJournal, JournalInv, ProgressInv, Entering, At,
         TypeOK, run
  <2>3. CASE ~InJournal(doc[p])
    BY <1>0, <1>6, <2>3 DEF Unlink, After, Conclude, Write, Exit, InJournal, JournalInv,
         ProgressInv, Entering, At, TypeOK, run
  <2> QED BY <2>1, <2>2, <2>3 DEF InJournal
<1>7. CASE WriteFails(p)
  BY <1>0, <1>7 DEF WriteFails, Exit, Fail, Conclude, Write, InJournal, JournalInv, ProgressInv,
       Entering, At, TypeOK, run
<1>8. CASE SyncFails(p)
  BY <1>0, <1>8 DEF SyncFails, Exit, JournalInv, ProgressInv, Entering, At, TypeOK, run
<1>9. CASE Preflight(p)
  BY <1>0, <1>9 DEF Preflight, Goto, JournalInv, ProgressInv, Entering, At, TypeOK, run
<1>10. CASE PreflightFails(p)
  BY <1>0, <1>10 DEF PreflightFails, Fail, Conclude, Write, Exit, JournalInv, ProgressInv,
       Entering, At, TypeOK, run
<1>11. CASE Prepare(p)
  BY <1>0, <1>11 DEF Prepare, Goto, JournalInv, ProgressInv, Entering, At, TypeOK, run
<1>12. CASE PrepareFails(p)
  BY <1>0, <1>12 DEF PrepareFails, Fail, Conclude, Write, Exit, JournalInv, ProgressInv, Entering,
       At, TypeOK, run
<1>13. CASE Invoke(p)
  BY <1>0, <1>13 DEF Invoke, Goto, JournalInv, ProgressInv, Entering, At, TypeOK, run
<1>14. CASE Submit(p)
  BY <1>0, <1>14 DEF Submit, Goto, JournalInv, ProgressInv, Entering, At, TypeOK, run
<1>15. CASE FinishRun(p)
  BY <1>0, <1>15 DEF FinishRun, KeepArtifacts, Goto, After, Write, Conclude, Exit, JournalInv,
       ProgressInv, Entering, At, TypeOK, run
<1>16. CASE RunFails(p)
  BY <1>0, <1>16 DEF RunFails, Fail, Conclude, Write, Exit, JournalInv, ProgressInv, Entering, At,
       TypeOK, run
<1>17. CASE Assemble(p)
  BY <1>0, <1>17 DEF Assemble, Goto, JournalInv, ProgressInv, Entering, At, TypeOK, run
<1>18. CASE Inventory(p)
  BY <1>0, <1>18 DEF Inventory, Goto, JournalInv, ProgressInv, Entering, At, TypeOK, run
<1>19. CASE Publish(p)
  BY <1>0, <1>19 DEF Publish, After, Conclude, Write, Exit, JournalInv, ProgressInv, Entering, At,
       TypeOK, run
<1>20. CASE DeliveryFails(p)
  BY <1>0, <1>20 DEF DeliveryFails, Fail, Conclude, Write, Exit, JournalInv, ProgressInv,
       Entering, At, TypeOK, run
<1>21. CASE Die(p)
  BY <1>0, <1>21 DEF Die, JournalInv, ProgressInv, Entering, At, TypeOK, run
<1> QED
  BY <1>0, <1>1, <1>2, <1>3, <1>4, <1>5, <1>6, <1>7, <1>8, <1>9, <1>10, <1>11, <1>12, <1>13, <1>14,
     <1>15, <1>16, <1>17, <1>18, <1>19, <1>20, <1>21
  DEF Step, Command, Document, Preparation, Running, Delivering

-----------------------------------------------------------------------------
(* The invariant *)

LEMMA InitInv == Init => IInv
<1> SUFFICES ASSUME Init PROVE IInv
  OBVIOUS
<1>1. TypeOK
  BY InitTypes
<1>2. ASSUME NEW p \in Procs PROVE LocalInv(p)
  <2>1. /\ pc[p] = "idle" /\ ~invoked[p] /\ ~ran[p] /\ outcome[p] = None /\ failure[p] = None
        /\ finished[p] = None /\ exit[p] = None
    BY DEF Init
  <2>2. None # "succeeded" /\ None \notin {0, 3, 5}
    BY NoneAssumption DEF Statuses
  <2> QED BY <2>1, <2>2 DEF LocalInv, ProgressInv, StageInv, KeepsOutputs, EvidenceInv,
               JournalInv, Entering, At
<1> QED BY <1>1, <1>2 DEF IInv

LEMMA StepInv == IInv /\ [Next]_vars => IInv'
<1> SUFFICES ASSUME IInv, [Next]_vars PROVE IInv'
  OBVIOUS
<1>1. CASE UNCHANGED vars
  <2>1. TypeOK'
    BY <1>1 DEF IInv, TypeOK, vars, run, journal
  <2>2. ASSUME NEW p \in Procs PROVE LocalInv(p)'
    <3>1. LocalInv(p) /\ UNCHANGED vars
      BY <1>1 DEF IInv
    <3>2. ProgressInv(p)' /\ StageInv(p)'
      BY <3>1 DEF LocalInv, ProgressInv, StageInv, KeepsOutputs, SameEvidence, At, vars, run,
           journal
    <3>3. EvidenceInv(p)'
      <4>1. /\ ReceiptIsThere(p)' = ReceiptIsThere(p) /\ ContextIsThere(p)' = ContextIsThere(p)
            /\ IsDelivered(p)' = IsDelivered(p) /\ CompletionOf(p)' = CompletionOf(p)
        BY <3>1 DEF ReceiptIsThere, ContextIsThere, IsDelivered, EvidenceOf, CompletionOf, vars,
             run, journal
      <4> QED BY <3>1, <4>1 DEF LocalInv, EvidenceInv, EvidenceIsThere, At, vars, run, journal
    <3>4. JournalInv(p)'
      BY <3>1 DEF LocalInv, JournalInv, Entering, Started, vars, run, journal
    <3> QED BY <3>2, <3>3, <3>4 DEF LocalInv
  <2> QED BY <2>1, <2>2 DEF IInv
<1>2. CASE Next
  <2>1. PICK p \in Procs : Step(p)
    BY <1>2 DEF Next, Step
  <2>2. TypeOK /\ LocalInv(p)
    BY DEF IInv
  <2>3. TypeOK'
    BY <2>1, <2>2, StepTypes DEF LocalInv
  <2>4. LocalInv(p)'
    BY <2>1, <2>2, ProgressStep, StageStep, EvidenceStep, JournalStep DEF LocalInv
  <2>5. ASSUME NEW q \in Procs, q # p PROVE LocalInv(q)'
    BY <2>1, <2>2, <2>5, OthersInv DEF IInv
  <2> QED BY <2>3, <2>4, <2>5 DEF IInv
<1> QED BY <1>1, <1>2

\* At every place of a command, its evidence, its staging directory and its attempt are what IInv
\* says, whatever the others do and whenever one is killed.
THEOREM VerifyInvariant == Spec => []IInv
BY InitInv, StepInv, PTL DEF Spec

\* Every variable has its type.
THEOREM VerifyTypes == Spec => []TypeOK
<1>1. IInv => TypeOK
  BY DEF IInv
<1> QED BY <1>1, VerifyInvariant, PTL

-----------------------------------------------------------------------------
(* What it gives *)

LEMMA CompletionsHold == IInv => CompletionIsTrue
<1> SUFFICES ASSUME IInv, NEW p \in Procs, finished[p] # None
             PROVE  /\ finished[p].outcome = "receipt_produced" =>
                         ran[p] /\ finished[p].status = outcome[p] /\ EvidenceIsThere(p)
                    /\ finished[p].outcome = "preparation_failed" => ~ran[p]
  BY DEF CompletionIsTrue
<1>1. ProgressInv(p) /\ EvidenceInv(p)
  BY DEF IInv, LocalInv
<1>2. finished[p] = CompletionOf(p) /\ (failure[p] = None => outcome[p] # None /\ EvidenceIsThere(p))
  BY <1>1 DEF EvidenceInv
<1> QED BY <1>1, <1>2 DEF ProgressInv, CompletionOf

\* A completion that names a receipt stands for evidence that is in place.
THEOREM VerifyCompletions == Spec => []CompletionIsTrue
BY CompletionsHold, VerifyInvariant, PTL

\* The exit codes 0, 3 and 5 are told only when the evidence and the completion are in place.
THEOREM VerifyExits == Spec => []ExitIsHonest
<1>1. IInv => ExitIsHonest
  <2> SUFFICES ASSUME IInv, NEW p \in Procs, exit[p] \in {0, 3, 5}
               PROVE  /\ outcome[p] # None /\ exit[p] = ExitCode(None, outcome[p])
                      /\ EvidenceIsThere(p)
                      /\ request[p].journal =>
                           finished[p] = [outcome |-> "receipt_produced", status |-> outcome[p]]
    BY DEF ExitIsHonest
  <2>1. EvidenceInv(p)
    BY DEF IInv, LocalInv
  <2> QED BY <2>1 DEF EvidenceInv, CompletionOf
<1> QED BY <1>1, VerifyInvariant, PTL

\* The outputs of a successful run are in the staging directory or in the destination.
THEOREM VerifyKeepsOutputs == Spec => []OutputsAreKept
<1>1. IInv => OutputsAreKept
  BY DEF IInv, LocalInv, StageInv, OutputsAreKept
<1> QED BY <1>1, VerifyInvariant, PTL

\* No step replaces what a command has published.
THEOREM VerifyReplacesNothing == Spec => NothingIsReplaced
<1> DEFINE Keeps ==
        /\ \A x \in Paths : saved[x] # None => saved'[x] = saved[x]
        /\ \A p \in Procs : started[p] => started'[p]
        /\ \A p \in Procs : finished[p] # None => finished'[p] = finished[p]
        /\ target # None => target' = target
<1>1. IInv /\ [Next]_vars => [Keeps]_vars
  <2> SUFFICES ASSUME IInv, Next PROVE Keeps
    OBVIOUS
  <2>1. PICK p \in Procs : Step(p)
    BY DEF Next, Step
  <2> QED BY <2>1, StepReplacesNothing DEF IInv, LocalInv
<1> QED BY <1>1, VerifyInvariant, PTL DEF Spec, NothingIsReplaced

-----------------------------------------------------------------------------
(* The register of attempts *)

\* The name of a document of the journal is a change of its attempt alone.
LEMMA RegisterLink ==
  ASSUME IInv, NEW p \in Procs, Link(p)
  PROVE  [Register!Next]_<<Entries, Performed>>
<1>1. /\ pc[p] = "link" /\ ~Taken(p) /\ Name(p) /\ UNCHANGED <<request, ran>>
  BY DEF Link, run
<1>2. TypeOK /\ ProgressInv(p) /\ JournalInv(p) /\ Performed' = Performed
  BY <1>1 DEF IInv, LocalInv, Performed
<1>3. CASE doc[p] = "started"
  <2>1. /\ started' = [started EXCEPT ![p] = TRUE] /\ finished' = finished /\ ~started[p]
        /\ finished[p] = None
    BY <1>1, <1>2, <1>3 DEF Name, InJournal, Taken, JournalInv
  <2>2. Entries[p] = "absent"
    BY <2>1 DEF Entries
  <2>3. Entries' = [Entries EXCEPT ![p] = "open"]
    BY <1>2, <2>1 DEF Entries, TypeOK
  <2>4. Cardinality({b \in Procs : Entries[b] # "absent"}) < MaxAttempts
    <3>1. ASSUME NEW b \in Procs PROVE Entries[b] # "absent" <=> started[b]
      <4>1. finished[b] # None => started[b]
        BY DEF IInv, LocalInv, JournalInv
      <4>2. finished[b] # None => finished[b].outcome # "absent"
        BY <1>2 DEF TypeOK, Finish, Outcomes
      <4> QED BY <4>1, <4>2 DEF Entries
    <3>2. {b \in Procs : Entries[b] # "absent"} = Started
      BY <3>1 DEF Started
    <3>3. Entering(p)
      BY <1>1, <1>3 DEF Entering
    <3> QED BY <1>2, <3>2, <3>3 DEF JournalInv
  <2>5. Register!Enter(p)
    <3>1. \A S : Register!Cardinality(S) = Cardinality(S)
      BY Zenon DEF Register!Cardinality, Cardinality
    <3> QED BY <1>2, <2>2, <2>3, <2>4, <3>1 DEF Register!Enter
  <2> QED BY <2>5 DEF Register!Next
<1>4. CASE doc[p] = "finished"
  <2>1. /\ finished' = [finished EXCEPT ![p] = CompletionOf(p)] /\ started' = started
        /\ finished[p] = None
    BY <1>1, <1>4 DEF Name, InJournal, Taken
  <2>2. request[p].journal /\ started[p] /\ CompletionOf(p) # None
    <3>1. request[p].journal
      BY <1>1, <1>2, <1>4 DEF ProgressInv, At
    <3>2. started[p]
      BY <1>1, <1>2, <1>4, <3>1 DEF JournalInv, Entering
    <3> QED BY <1>2, <3>1, <3>2, CompletionTypes, NoneAssumption
  <2>3. Entries[p] = "open"
    BY <2>1, <2>2 DEF Entries
  <2>4. Entries' = [Entries EXCEPT ![p] = CompletionOf(p).outcome]
    BY <1>2, <2>1, <2>2 DEF Entries, TypeOK
  <2>5. /\ CompletionOf(p).outcome \in Register!Settlements
        /\ CompletionOf(p).outcome = "receipt_produced" => Performed[p]
        /\ CompletionOf(p).outcome = "preparation_failed" => ~Performed[p]
    BY <1>1, <1>2, <1>4, <2>2 DEF CompletionOf, Register!Settlements, Performed, ProgressInv, At,
         TypeOK
  <2>6. Register!Settle(p, CompletionOf(p).outcome)
    BY <1>2, <2>3, <2>4, <2>5 DEF Register!Settle
  <2> QED BY <2>5, <2>6 DEF Register!Next
<1>5. CASE ~InJournal(doc[p])
  <2>1. UNCHANGED <<started, finished>>
    BY <1>1, <1>5 DEF Name, InJournal
  <2> QED BY <1>2, <2>1 DEF Entries
<1> QED BY <1>3, <1>4, <1>5 DEF InJournal

\* A run begins for an attempt that is entered and not settled.
LEMMA RegisterSubmit ==
  ASSUME IInv, NEW p \in Procs, Submit(p)
  PROVE  [Register!Next]_<<Entries, Performed>>
<1>1. /\ pc[p] = "submit" /\ ran' = [ran EXCEPT ![p] = TRUE] /\ UNCHANGED <<request, started, finished>>
  BY DEF Submit
<1>2. TypeOK /\ ProgressInv(p) /\ EvidenceInv(p) /\ JournalInv(p) /\ Entries' = Entries
  BY <1>1 DEF IInv, LocalInv, Entries
<1>3. CASE request[p].journal
  <2>1. Entries[p] = "open"
    <3>1. started[p] /\ finished[p] = None
      BY <1>1, <1>2, <1>3, NothingClaimed DEF JournalInv, Entering
    <3> QED BY <3>1 DEF Entries
  <2>2. ~Performed[p] /\ Performed' = [Performed EXCEPT ![p] = TRUE]
    BY <1>1, <1>2, <1>3 DEF Performed, ProgressInv, TypeOK
  <2>3. Register!Perform(p)
    BY <1>2, <2>1, <2>2 DEF Register!Perform
  <2> QED BY <2>3 DEF Register!Next
<1>4. CASE ~request[p].journal
  <2>1. Performed' = Performed
    BY <1>1, <1>2, <1>4 DEF Performed, TypeOK
  <2> QED BY <1>2, <2>1
<1> QED BY <1>3, <1>4

\* The journal is a bounded register in which attempts are entered before they are performed and
\* settled once.
THEOREM VerifyKeepsRegister == Spec => KeepsRegister
<1>1. Init => Register!Init
  <2> SUFFICES ASSUME Init PROVE Register!Init
    OBVIOUS
  <2> QED BY DEF Init, Register!Init, Entries, Performed
<1>2. IInv /\ [Next]_vars => [Register!Next]_<<Entries, Performed>>
  <2> SUFFICES ASSUME IInv, [Next]_vars PROVE [Register!Next]_<<Entries, Performed>>
    OBVIOUS
  <2>1. CASE UNCHANGED vars
    BY <2>1 DEF vars, run, journal, Entries, Performed
  <2>2. CASE Next
    <3>1. PICK p \in Procs : Step(p)
      BY <2>2 DEF Next, Step
    <3>2. CASE Link(p)
      BY <3>2, RegisterLink
    <3>3. CASE Submit(p)
      BY <3>3, RegisterSubmit
    <3>4. CASE ~Link(p) /\ ~Submit(p)
      <4>1. UNCHANGED <<request, ran, started, finished>>
        BY <3>1, <3>4 DEF run, Step, Command, Document, Preparation, Running, Delivering, Start,
             Begin,
             BeginFails, Create, Unlink, WriteFails, SyncFails, Preflight, PreflightFails, Prepare,
             PrepareFails, Invoke, FinishRun, RunFails, Assemble, Inventory, Publish,
             DeliveryFails, Die
      <4> QED BY <4>1 DEF Entries, Performed
    <3> QED BY <3>2, <3>3, <3>4
  <2> QED BY <2>1, <2>2
<1> QED BY <1>1, <1>2, VerifyInvariant, PTL DEF Spec, KeepsRegister, Register!Spec

-----------------------------------------------------------------------------
(* What Console shows *)

\* A step of a reader changes its view alone.
LEMMA LookTypes ==
  ASSUME TypeOK, ViewInv, NEW r \in Readers, Look(r) \/ Leave(r)
  PROVE  \E v \in View :
           /\ Show(r, v) /\ UNCHANGED vars
           /\ v.pc = "completion" => v.at # None
           /\ \A p \in Procs : v.rows[p] \in Outcomes =>
                finished[p] # None /\ finished[p].outcome = v.rows[p]
<1> DEFINE Right(v) == /\ v \in View
                       /\ v.pc = "completion" => v.at # None
                       /\ \A p \in Procs : v.rows[p] \in Outcomes =>
                            finished[p] # None /\ finished[p].outcome = v.rows[p]
<1>1. Right(view[r])
  BY DEF ViewInv
<1>2. CASE OpenList(r)
  <2>1. Present \in SUBSET Names
    BY DEF Present
  <2>2. Right([view[r] EXCEPT !.pc = "list", !.names = Present])
    BY <1>1, <2>1 DEF View
  <2> QED BY <1>2, <2>2 DEF OpenList
<1>3. CASE CloseList(r)
  <2>1. PICK more \in SUBSET (Present \ view[r].names) :
          Show(r, [view[r] EXCEPT
            !.names = {},
            !.todo = {p \in Procs : <<"started", p>> \in view[r].names \cup more},
            !.pc = IF \/ Cardinality({p \in Procs : <<"started", p>> \in view[r].names \cup more})
                           > MaxAttempts
                      \/ ~({p \in Procs : <<"finished", p>> \in view[r].names \cup more}
                             \subseteq {p \in Procs : <<"started", p>> \in view[r].names \cup more})
                   THEN "failed" ELSE "rows"])
    BY <1>3 DEF CloseList
  <2>2. ASSUME NEW todo \in SUBSET Procs, NEW place \in {"failed", "rows"}
        PROVE  Right([view[r] EXCEPT !.names = {}, !.todo = todo, !.pc = place])
    BY <1>1 DEF View
  <2> HIDE DEF Right
  <2>3. PICK todo \in SUBSET Procs, place \in {"failed", "rows"} :
          Show(r, [view[r] EXCEPT !.names = {}, !.todo = todo, !.pc = place])
    BY <2>1
  <2> QED BY <1>3, <2>2, <2>3 DEF CloseList, Right
<1>4. CASE ReadStart(r)
  <2>1. NextRow(r) \in Procs
    BY <1>1, <1>4 DEF ReadStart, NextRow, View
  <2>2. Right([view[r] EXCEPT !.pc = "completion", !.at = NextRow(r)])
    BY <1>1, <2>1, NoneFacts DEF View
  <2>3. Right([view[r] EXCEPT !.pc = "failed"])
    BY <1>1 DEF View
  <2> QED BY <1>4, <2>2, <2>3 DEF ReadStart
<1>5. CASE ReadCompletion(r)
  <2> DEFINE p == view[r].at
             row == IF finished[p] = None THEN "start-only" ELSE finished[p].outcome
  <2>1. p \in Procs
    BY <1>1, <1>5 DEF ReadCompletion, View
  <2>2. row \in Outcomes \cup {"start-only"} /\ (row \in Outcomes => finished[p] # None /\ finished[p].outcome = row)
    BY <2>1 DEF TypeOK, Finish, Outcomes
  <2>3. Right([view[r] EXCEPT !.pc = "failed"])
    BY <1>1 DEF View
  <2>4. Right([view[r] EXCEPT !.pc = "rows", !.at = None, !.todo = @ \ {p}, !.rows[p] = row])
    <3> HIDE DEF p, row
    <3> QED BY <1>1, <2>1, <2>2 DEF View
  <2> QED BY <1>5, <2>3, <2>4 DEF ReadCompletion
<1>6. CASE ShowRows(r)
  <2>1. Right([view[r] EXCEPT !.pc = "shown"])
    BY <1>1 DEF View
  <2> QED BY <1>6, <2>1 DEF ShowRows
<1>7. CASE Leave(r)
  <2>1. Right(Blank)
    BY NoneAssumption DEF View, Blank
  <2> QED BY <1>7, <2>1 DEF Leave
<1> QED BY <1>2, <1>3, <1>4, <1>5, <1>6, <1>7 DEF Look

LEMMA ConsoleStep == IInv /\ ViewInv /\ [ConsoleNext]_<<vars, view>> => IInv' /\ ViewInv'
<1> SUFFICES ASSUME IInv, ViewInv, [ConsoleNext]_<<vars, view>> PROVE IInv' /\ ViewInv'
  OBVIOUS
<1>1. [Next]_vars
  BY DEF ConsoleNext, Look, Leave, OpenList, CloseList, ReadStart, ReadCompletion, ShowRows
<1>2. IInv'
  BY <1>1, StepInv
<1>3. CASE UNCHANGED view
  <2>1. \A p \in Procs : finished[p] # None => finished'[p] = finished[p]
    <3>1. CASE Next
      <4>1. PICK p \in Procs : Step(p)
        BY <3>1 DEF Next, Step
      <4> QED BY <4>1, StepReplacesNothing DEF IInv, LocalInv
    <3>2. CASE UNCHANGED vars
      BY <3>2 DEF vars, journal
    <3> QED BY <1>1, <3>1, <3>2
  <2> QED BY <1>2, <1>3, <2>1 DEF ViewInv
<1>4. CASE \E r \in Readers : Look(r) \/ Leave(r)
  <2>1. PICK r \in Readers : Look(r) \/ Leave(r)
    BY <1>4
  <2>2. PICK v \in View :
          /\ view' = [view EXCEPT ![r] = v] /\ UNCHANGED vars
          /\ v.pc = "completion" => v.at # None
          /\ \A p \in Procs : v.rows[p] \in Outcomes =>
               finished[p] # None /\ finished[p].outcome = v.rows[p]
    BY <2>1, LookTypes DEF IInv, Show
  <2>3. finished' = finished
    BY <2>2 DEF vars, journal
  <2> QED BY <1>2, <2>2, <2>3 DEF ViewInv
<1> QED BY <1>3, <1>4 DEF ConsoleNext

\* What Console shows is true, whenever it reads and whatever the commands do meanwhile.
THEOREM ConsoleShowsTheTruth == ConsoleSpec => []ViewIsTrue
<1>1. ConsoleInit => IInv /\ ViewInv
  <2> SUFFICES ASSUME ConsoleInit PROVE IInv /\ ViewInv
    OBVIOUS
  <2>1. Blank \in View /\ Blank.pc = "idle" /\ \A p \in Procs : Blank.rows[p] \notin Outcomes
    BY NoneAssumption DEF Blank, View
  <2> QED BY <2>1, InitInv DEF ConsoleInit, ViewInv
<1>2. IInv /\ ViewInv => ViewIsTrue
  <2> SUFFICES ASSUME IInv, ViewInv, NEW r \in Readers, NEW p \in Procs
               PROVE  /\ view[r].rows[p] = "receipt_produced" => ran[p] /\ EvidenceIsThere(p)
                      /\ view[r].rows[p] = "preparation_failed" => ~ran[p]
    BY DEF ViewIsTrue
  <2>1. CompletionIsTrue
    BY CompletionsHold
  <2> QED BY <2>1 DEF ViewInv, CompletionIsTrue, Outcomes
<1> QED BY <1>1, <1>2, ConsoleStep, PTL DEF ConsoleSpec
=============================================================================
