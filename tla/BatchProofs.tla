----------------------------- MODULE BatchProofs -----------------------------
(***************************************************************************)
(* Machine-checked proofs about Batch, for every number of cases,          *)
(* attempts, processes, readers and outside edits.                         *)
(***************************************************************************)
EXTENDS BatchInv, SequenceTheorems, TLAPS

USE ConstantsAssumption, MaxTampersAssumption, ProcsAssumption, AbsentAssumption

-----------------------------------------------------------------------------
(* Journals *)

\* The journal of batch prepare is a journal, and it loads.
LEMMA FreshIsJournal == FreshJournal \in Journals /\ ValidJournal(FreshJournal)
<1>1. \A c \in Cases : [input |-> BaseInput[c], generation |-> 0, attempts |-> <<>>] \in CaseStates
  BY DEF CaseStates, Generations
<1>2. FreshJournal \in Journals
  BY <1>1 DEF FreshJournal, Journals
<1>3. ValidJournal(FreshJournal)
  BY DEF ValidJournal, ValidCase, FreshJournal, Count
<1> QED BY <1>2, <1>3

\* Replacing the latest attempt keeps a case a case, and all earlier attempts.
LEMMA WithLastCase ==
  ASSUME NEW case \in CaseStates, case.attempts # <<>>, NEW attempt \in Attempts
  PROVE  /\ WithLast(case, attempt) \in CaseStates
         /\ WithLast(case, attempt).input = case.input
         /\ WithLast(case, attempt).generation = case.generation
         /\ Count(WithLast(case, attempt)) = Count(case)
         /\ Count(case) \in Nat \ {0}
         /\ DOMAIN WithLast(case, attempt).attempts = DOMAIN case.attempts
         /\ WithLast(case, attempt).attempts # <<>>
         /\ LastOf(WithLast(case, attempt)) = attempt
         /\ LastOf(case) \in Attempts
         /\ \A i \in DOMAIN case.attempts :
              i # Count(case) =>
                WithLast(case, attempt).attempts[i] = case.attempts[i]
<1> DEFINE s == case.attempts
<1>1. s \in Seq(Attempts) /\ Len(s) \in Nat \ {0} /\ DOMAIN s = 1 .. Len(s)
  BY DEF CaseStates
<1>2. [s EXCEPT ![Len(s)] = attempt] \in Seq(Attempts)
  BY <1>1
<1>3. Len([s EXCEPT ![Len(s)] = attempt]) = Len(s)
  BY <1>1
<1> QED BY <1>1, <1>2, <1>3 DEF CaseStates, WithLast, LastOf, Count

\* Entering an attempt keeps a case a case, and all earlier attempts.
LEMMA AppendCase ==
  ASSUME NEW case \in CaseStates, NEW attempt \in Attempts
  PROVE  LET more == [case EXCEPT !.attempts = Append(@, attempt)] IN
         /\ more \in CaseStates
         /\ more.input = case.input /\ more.generation = case.generation
         /\ Count(case) \in Nat
         /\ Count(more) = Count(case) + 1
         /\ DOMAIN more.attempts = 1 .. Count(case) + 1
         /\ DOMAIN case.attempts = 1 .. Count(case)
         /\ more.attempts # <<>>
         /\ LastOf(more) = attempt
         /\ \A i \in 1 .. Count(case) : more.attempts[i] = case.attempts[i]
<1> DEFINE s == case.attempts
           t == Append(s, attempt)
           more == [case EXCEPT !.attempts = t]
<1>1. s \in Seq(Attempts) /\ Len(s) \in Nat /\ DOMAIN s = 1 .. Len(s)
  BY DEF CaseStates
<1>2. t \in Seq(Attempts) /\ Len(t) = Len(s) + 1 /\ DOMAIN t = 1 .. Len(s) + 1
  BY <1>1
<1>3. t[Len(s) + 1] = attempt /\ \A i \in 1 .. Len(s) : t[i] = s[i]
  BY <1>1
<1>4. t # <<>>
  BY <1>1, <1>2
<1>5. more \in CaseStates /\ more.attempts = t /\ more.input = case.input
        /\ more.generation = case.generation
  BY <1>2 DEF CaseStates
<1> HIDE DEF s, t, more
<1>6. Count(case) = Len(s) /\ Count(more) = Len(t)
  BY <1>5 DEF Count, s
<1>7. LastOf(more) = attempt
  BY <1>2, <1>3, <1>5, <1>6 DEF LastOf
<1> QED BY <1>1, <1>2, <1>3, <1>4, <1>5, <1>6, <1>7 DEF s, t, more

-----------------------------------------------------------------------------
(* The initial state *)

LEMMA InitInv == Init => IInv
<1> SUFFICES ASSUME Init PROVE IInv
  OBVIOUS
<1>1. TypeOK
  <2>1. journal \in Journals
    BY FreshIsJournal DEF Init
  <2>2. frozen \in [Cases \X Generations -> Digests \cup {None}]
    BY DEF Init
  <2>3. 1 \in 1 .. NumCases + 1
    OBVIOUS
  <2> QED BY <2>1, <2>2, <2>3 DEF Init, TypeOK, Labels, File
<1>2. ControlInv
  BY DEF Init, ControlInv, InAttempt, HasReceipt
<1>3. CopyIsCurrent
  BY DEF Init, CopyIsCurrent
<1>4. JournalInv
  <2>1. \A c \in Cases : <<c, 0>> \in Cases \X Generations
    BY DEF Generations
  <2>2. \A c \in Cases : frozen[<<c, 0>>] = BaseInput[c]
    BY <2>1 DEF Init
  <2>3. \A c \in Cases : journal[c].generation = 0
    BY DEF Init, FreshJournal
  <2>4. \A c \in Cases : BaseInput[c] \in Digests
    OBVIOUS
  <2>5. \A c \in Cases : frozen[<<c, journal[c].generation>>] \in Digests
    BY <2>2, <2>3, <2>4
  <2>6. ValidJournal(journal)
    BY FreshIsJournal DEF Init
  <2> QED BY <2>5, <2>6 DEF JournalInv
<1>5. RunsInv
  BY DEF Init, RunsInv, RunsOnce, At
<1>6. OutcomeInv
  BY DEF Init, OutcomeInv, RecordedIsReal, Entries, FreshJournal, Readable, HasReceipt, Unwritten
<1> QED BY <1>1, <1>2, <1>3, <1>4, <1>5, <1>6 DEF IInv

-----------------------------------------------------------------------------
(* Steps shared by several actions *)

\* Only the process that holds the lock is past idle.
LEMMA OthersIdle ==
  ASSUME ControlInv, NEW p \in Procs, pc[p] # "idle", NEW q \in Procs, q # p
  PROVE  lock = p /\ pc[q] = "idle"
  BY DEF ControlInv

\* A command may end anywhere, leaving the disk as it is.
LEMMA ReturnStep ==
  ASSUME IInv, NEW p \in Procs, pc[p] # "idle", NEW code \in {None, 0, 2, 3, 5},
         Return(p, code), UNCHANGED disk
  PROVE  IInv'
<1> USE DEF IInv
<1>1. \A q \in Procs : pc'[q] = "idle"
  BY OthersIdle DEF Return, Goto, TypeOK
<1>2. TypeOK'
  BY DEF TypeOK, Return, Goto, disk, Labels
<1>3. ControlInv'
  BY <1>1 DEF ControlInv, Return, InAttempt, HasReceipt
<1>4. CopyIsCurrent'
  BY <1>1 DEF CopyIsCurrent
<1>5. JournalInv'
  BY DEF JournalInv, ValidJournal, disk
<1>6. RunsInv'
  BY <1>1 DEF RunsInv, RunsOnce, Entries, At, Return, disk
<1>7. OutcomeInv'
  BY <1>1 DEF OutcomeInv, RecordedIsReal, Entries, HasReceipt, Unwritten, Return, disk
<1> QED BY <1>2, <1>3, <1>4, <1>5, <1>6, <1>7

\* Being at a label with a copy of the journal: what the next steps rely on.
LEMMA HolderFacts ==
  ASSUME IInv, NEW p \in Procs, pc[p] \notin {"idle", "load"}
  PROVE  /\ lock = p
         /\ mem[p] \in Journals /\ journal \in Journals
         /\ job[p] \in Jobs
         /\ \A c \in Cases : /\ mem[p][c] \in CaseStates /\ journal[c] \in CaseStates
                             /\ mem[p][c].attempts = journal[c].attempts
         /\ pc[p] # "execute" => mem[p] = journal
         /\ \A q \in Procs : q # p => pc[q] = "idle"
<1>1. lock = p /\ mem[p] \in Journals /\ job[p] \in Jobs
  BY DEF IInv, ControlInv
<1>2. journal \in Journals
  BY DEF IInv, TypeOK
<1>3. \A c \in Cases : /\ mem[p][c] \in CaseStates /\ journal[c] \in CaseStates
                       /\ mem[p][c].attempts = journal[c].attempts
  BY <1>1, <1>2 DEF Journals, IInv, ControlInv
<1>4. pc[p] # "execute" => mem[p] = journal
  BY DEF IInv, CopyIsCurrent, At
<1>5. \A q \in Procs : q # p => pc[q] = "idle"
  BY OthersIdle DEF IInv
<1> QED BY <1>1, <1>2, <1>3, <1>4, <1>5

\* A step that only moves a process between labels outside an attempt.
LEMMA MoveStep ==
  ASSUME IInv, NEW p \in Procs, pc[p] \in {"reconcile", "next", "choose"},
         NEW label \in {"reconcile", "next", "choose", "snapshot", "execute", "review", "stopped"},
         NEW case \in 1 .. NumCases + 1,
         label \in {"choose", "snapshot", "execute"} => case \in Cases,
         label = "choose" => job[p].cmd = "retry",
         label = "snapshot" => /\ job[p].cmd = "retry"
                               /\ job[p].input \in Digests
                               /\ Count(mem[p][case]) < MaxAttempts,
         Proceed(p, label, case), UNCHANGED <<disk, mem, held, flag, token, history>>
  PROVE  IInv'
<1> USE DEF IInv
<1>1. pc' = [pc EXCEPT ![p] = label] /\ cursor' = [cursor EXCEPT ![p] = case]
  BY DEF Proceed, Goto
<1>2. pc'[p] = label /\ cursor'[p] = case /\ \A q \in Procs : q # p => pc'[q] = "idle"
  BY <1>1, HolderFacts DEF TypeOK
<1>3. UNCHANGED <<journal, skill, frozen, receipts, contexts, deliveries, lock, job, mem, held,
                  flag, token, exit, view, runs, outcome, taken, tampers>>
  BY DEF Proceed, disk, history
<1>4. TypeOK'
  BY <1>1, <1>3 DEF TypeOK, Labels
<1>5. ControlInv'
  BY <1>2, <1>3 DEF ControlInv, InAttempt, HasReceipt, Current
<1>6. CopyIsCurrent'
  BY <1>2, <1>3, HolderFacts DEF CopyIsCurrent
<1>7. JournalInv'
  BY <1>3 DEF JournalInv, ValidJournal
<1>8. RunsInv'
  BY <1>2, <1>3 DEF RunsInv, RunsOnce, Entries, At
<1>9. OutcomeInv'
  BY <1>2, <1>3 DEF OutcomeInv, RecordedIsReal, Entries, HasReceipt, Unwritten
<1> QED BY <1>4, <1>5, <1>6, <1>7, <1>8, <1>9

-----------------------------------------------------------------------------
(* Steps that leave the journal alone *)

LEMMA BeginStep ==
  ASSUME IInv, NEW p \in Procs, NEW j \in Jobs, Begin(p, j)
  PROVE  IInv'
<1> USE DEF IInv
<1>1. /\ pc' = [pc EXCEPT ![p] = "load"] /\ lock' = p /\ job' = [job EXCEPT ![p] = j]
      /\ exit' = None /\ lock = None
      /\ UNCHANGED <<journal, skill, frozen, receipts, contexts, deliveries, cursor, mem, held,
                    flag, token, view, runs, outcome, taken, tampers>>
  BY DEF Begin, Goto, LockFree, disk, history
<1>2. \A q \in Procs : pc[q] = "idle"
  BY <1>1 DEF ControlInv
<1>3. pc'[p] = "load" /\ job'[p] = j /\ \A q \in Procs : q # p => pc'[q] = "idle"
  BY <1>1, <1>2 DEF TypeOK
<1>4. TypeOK'
  BY <1>1 DEF TypeOK, Labels
<1>5. ControlInv'
  BY <1>1, <1>3 DEF ControlInv, InAttempt, HasReceipt
<1>6. CopyIsCurrent'
  BY <1>3 DEF CopyIsCurrent
<1>7. JournalInv'
  BY <1>1 DEF JournalInv, ValidJournal
<1>8. RunsInv'
  BY <1>1, <1>3 DEF RunsInv, RunsOnce, Entries, At
<1>9. OutcomeInv'
  BY <1>1, <1>3 DEF OutcomeInv, RecordedIsReal, Entries, HasReceipt, Unwritten
<1> QED BY <1>4, <1>5, <1>6, <1>7, <1>8, <1>9

\* Steps that touch neither the journal, the evidence nor a process's position.
LEMMA OutsideStep ==
  ASSUME IInv, TypeOK',
         UNCHANGED <<journal, frozen, receipts, lock, pc, job, cursor, mem, held, runs, outcome>>
  PROVE  IInv'
<1> USE DEF IInv
<1>1. ControlInv'
  BY DEF ControlInv, Current
<1>2. CopyIsCurrent'
  BY DEF CopyIsCurrent, At, Current
<1>3. JournalInv'
  BY DEF JournalInv, ValidJournal
<1>4. RunsInv'
  BY DEF RunsInv, RunsOnce, Entries, At, CurrentId, Current
<1>5. OutcomeInv'
  BY DEF OutcomeInv, RecordedIsReal, Entries, CurrentId, Current
<1> QED BY <1>1, <1>2, <1>3, <1>4, <1>5

LEMMA BusyStep ==
  ASSUME IInv, NEW p \in Procs, Busy(p)
  PROVE  IInv'
<1>1. TypeOK'
  BY DEF IInv, TypeOK, Busy, disk, history
<1> QED BY <1>1, OutsideStep DEF Busy, disk, history

LEMMA InterruptStep ==
  ASSUME IInv, NEW p \in Procs, Interrupt(p)
  PROVE  IInv'
<1>1. TypeOK'
  BY DEF IInv, TypeOK, Interrupt, disk, history
<1> QED BY <1>1, OutsideStep DEF Interrupt, disk, history

LEMMA TakeInterruptStep ==
  ASSUME IInv, NEW p \in Procs, TakeInterrupt(p)
  PROVE  IInv'
<1>1. TypeOK'
  BY DEF IInv, TypeOK, TakeInterrupt, disk
<1> QED BY <1>1, OutsideStep DEF TakeInterrupt, disk

LEMMA InspectStep ==
  ASSUME IInv, NEW r \in Readers, Inspect(r)
  PROVE  IInv'
<1>1. view' \in [Readers -> Views \cup {None}]
  <2>1. CASE InspectOpen(r)
    <3>1. [snap |-> journal, next |-> 1, changed |-> {}] \in Views
      BY DEF IInv, TypeOK, Views
    <3> QED BY <2>1, <3>1 DEF InspectOpen, IInv, TypeOK
  <2>2. CASE InspectCase(r)
    <3>1. view[r] \in Views /\ view[r].next \in Cases
      BY <2>2 DEF InspectCase, IInv, TypeOK
    <3>2. \A changed \in SUBSET Cases :
            [snap |-> view[r].snap, next |-> view[r].next + 1, changed |-> changed] \in Views
      BY <3>1 DEF Views, Cases
    <3>3. view[r].changed \in SUBSET Cases /\ view[r].changed \cup {view[r].next} \in SUBSET Cases
      BY <3>1 DEF Views
    <3>4. PICK changed \in SUBSET Cases :
            view' = [view EXCEPT ![r] =
                       [snap |-> view[r].snap, next |-> view[r].next + 1, changed |-> changed]]
      BY <2>2, <3>3 DEF InspectCase
    <3> QED BY <3>2, <3>4 DEF IInv, TypeOK
  <2>3. CASE InspectReport(r)
    BY <2>3 DEF InspectReport, IInv, TypeOK
  <2> QED BY <2>1, <2>2, <2>3 DEF Inspect
<1>2. UNCHANGED <<journal, skill, frozen, receipts, contexts, deliveries, lock, pc, job, cursor,
                  mem, held, flag, token, exit, runs, outcome, taken, tampers>>
  BY DEF Inspect, InspectOpen, InspectCase, InspectReport, LooksOn, disk, history
<1>3. TypeOK'
  BY <1>1, <1>2 DEF IInv, TypeOK
<1> QED BY <1>2, <1>3, OutsideStep

\* The journal becomes the copy only if it loads and its materials are there.
LEMMA LoadStep ==
  ASSUME IInv, NEW p \in Procs, Load(p)
  PROVE  IInv'
<1> USE DEF IInv
<1>1. pc[p] = "load" /\ lock = p /\ \A q \in Procs : q # p => pc[q] = "idle"
  BY DEF Load, At, ControlInv
<1>2. CASE ~(ValidJournal(journal) /\ MaterialsUnchanged(journal))
  BY <1>1, <1>2, ReturnStep DEF Load
<1>3. CASE ValidJournal(journal) /\ MaterialsUnchanged(journal)
  <2>1. /\ pc' = [pc EXCEPT ![p] = "reconcile"] /\ cursor' = [cursor EXCEPT ![p] = 1]
        /\ mem' = [mem EXCEPT ![p] = journal]
        /\ UNCHANGED <<journal, skill, frozen, receipts, contexts, deliveries, lock, job, held,
                      flag, token, exit, view, runs, outcome, taken, tampers>>
    BY <1>3 DEF Load, Proceed, Goto, disk, history
  <2>2. /\ pc'[p] = "reconcile" /\ mem'[p] = journal
        /\ \A q \in Procs : q # p => pc'[q] = "idle"
    BY <1>1, <2>1 DEF TypeOK
  <2>3. TypeOK'
    BY <2>1 DEF TypeOK, Labels
  <2>4. ControlInv'
    <3>1. journal \in Journals /\ \A c \in Cases : frozen[<<c, journal[c].generation>>] \in Digests
      BY DEF TypeOK, JournalInv
    <3>2. job[p] \in Jobs
      BY <1>1 DEF ControlInv
    <3> QED BY <1>1, <2>1, <2>2, <3>1, <3>2 DEF ControlInv, InAttempt, HasReceipt
  <2>5. CopyIsCurrent'
    BY <1>1, <2>1, <2>2 DEF CopyIsCurrent
  <2>6. JournalInv'
    BY <2>1 DEF JournalInv, ValidJournal
  <2>7. RunsInv'
    BY <2>1, <2>2 DEF RunsInv, RunsOnce, Entries, At
  <2>8. OutcomeInv'
    BY <2>1, <2>2 DEF OutcomeInv, RecordedIsReal, Entries, HasReceipt, Unwritten
  <2> QED BY <2>3, <2>4, <2>5, <2>6, <2>7, <2>8
<1> QED BY <1>2, <1>3

-----------------------------------------------------------------------------
(* The latest attempt of a case *)

LEMMA LastFacts ==
  ASSUME IInv, NEW c \in Cases, journal[c].attempts # <<>>
  PROVE  /\ LastOf(journal[c]) \in Attempts
         /\ LastOf(journal[c]).number = Count(journal[c])
         /\ Count(journal[c]) \in Entries(journal, c)
         /\ <<c, Count(journal[c])>> \in AttemptIds
<1> DEFINE s == journal[c].attempts
<1>1. journal[c] \in CaseStates
  BY DEF IInv, TypeOK, Journals
<1>2. s \in Seq(Attempts) /\ Len(s) \in Nat \ {0} /\ DOMAIN s = 1 .. Len(s)
  BY <1>1 DEF CaseStates
<1>3. s[Len(s)] \in Attempts
  BY <1>2
<1>4. Len(s) <= MaxAttempts /\ s[Len(s)].number = Len(s)
  BY <1>2 DEF IInv, JournalInv, ValidJournal, ValidCase, ValidAttempt, Count
<1> QED BY <1>2, <1>3, <1>4 DEF LastOf, Count, Entries, AttemptIds, AttemptNumbers

\* What an audit finds is an attempt, and its outcome is the receipt's.
LEMMA FoundFacts ==
  ASSUME NEW attempt \in Attempts, NEW receipt \in File(Receipts), NEW context \in File(Contexts),
         NEW delivery \in File(Deliveries), NEW physical \in BOOLEAN,
         Audits(attempt, receipt, context, delivery, physical)
  PROVE  /\ Readable(receipt) /\ receipt \in Receipts
         /\ Found(attempt, receipt, context, delivery) \in Attempts
         /\ Found(attempt, receipt, context, delivery).status = receipt.status
<1>1. Readable(receipt) /\ Readable(context)
  BY DEF Audits
<1>2. receipt \in Receipts /\ context \in Contexts
  BY <1>1 DEF Readable, File
<1>3. receipt.status \in Known
  BY <1>2 DEF Receipts
<1>4. receipt.status = "succeeded" => delivery.receipt \in Receipts
  <2> SUFFICES ASSUME receipt.status = "succeeded" PROVE delivery.receipt \in Receipts
    OBVIOUS
  <2>1. delivery.receipt = receipt
    BY DEF Audits
  <2> QED BY <2>1, <1>2
<1> DEFINE d == IF receipt.status = "succeeded" THEN delivery.receipt ELSE attempt.delivery
           found == [attempt EXCEPT !.status = receipt.status, !.receipt = receipt,
                                    !.context = context, !.delivery = d]
<1>5. d \in Receipts \cup {None}
  BY <1>4 DEF Attempts
<1> HIDE DEF d
<1>6. found \in Attempts /\ found.status = receipt.status
  BY <1>2, <1>3, <1>5 DEF Attempts, Statuses
<1>7. Found(attempt, receipt, context, delivery) = found
  BY DEF Found, StatusOf, d
<1> QED BY <1>1, <1>2, <1>6, <1>7

\* The files of an attempt, as an audit of the journal's latest entry reads them.
LEMMA FoundNowFacts ==
  ASSUME IInv, NEW c \in Cases, journal[c].attempts # <<>>,
         AuditsNow(c, LastOf(journal[c]), TRUE)
  PROVE  LET found == FoundNow(c, LastOf(journal[c])) IN
         /\ found \in Attempts
         /\ found.status = outcome[<<c, Count(journal[c])>>]
<1> DEFINE id == <<c, Count(journal[c])>>
<1>1. /\ LastOf(journal[c]) \in Attempts /\ LastOf(journal[c]).number = Count(journal[c])
      /\ id \in AttemptIds
  BY LastFacts
<1>2. /\ receipts[id] \in File(Receipts) /\ contexts[id] \in File(Contexts)
      /\ deliveries[id] \in File(Deliveries)
  BY <1>1 DEF IInv, TypeOK
<1>3. Audits(LastOf(journal[c]), receipts[id], contexts[id], deliveries[id], TRUE)
  BY <1>1 DEF AuditsNow
<1>4. FoundNow(c, LastOf(journal[c])) =
        Found(LastOf(journal[c]), receipts[id], contexts[id], deliveries[id])
  BY <1>1 DEF FoundNow
<1>5. Readable(receipts[id]) => receipts[id].status = outcome[id]
  BY <1>1 DEF IInv, OutcomeInv
<1>6. TRUE \in BOOLEAN
  OBVIOUS
<1> HIDE DEF id
<1>7. /\ Readable(receipts[id])
      /\ Found(LastOf(journal[c]), receipts[id], contexts[id], deliveries[id]) \in Attempts
      /\ Found(LastOf(journal[c]), receipts[id], contexts[id], deliveries[id]).status
           = receipts[id].status
  <2> DEFINE a == LastOf(journal[c])
             r == receipts[id]
             x == contexts[id]
             d == deliveries[id]
  <2>1. /\ a \in Attempts /\ r \in File(Receipts) /\ x \in File(Contexts)
        /\ d \in File(Deliveries) /\ Audits(a, r, x, d, TRUE)
    BY <1>1, <1>2, <1>3
  <2> HIDE DEF a, r, x, d
  <2>2. Readable(r) /\ Found(a, r, x, d) \in Attempts /\ Found(a, r, x, d).status = r.status
    BY <1>6, <2>1, FoundFacts
  <2> QED BY <2>2 DEF a, r, x, d
<1> QED BY <1>4, <1>5, <1>7 DEF id

\* A journal whose latest attempt of one case is replaced.
LEMMA SavedFacts ==
  ASSUME IInv, NEW c \in Cases, journal[c].attempts # <<>>, NEW attempt \in Attempts,
         attempt.status \in Known => attempt.status = outcome[<<c, Count(journal[c])>>]
  PROVE  LET saved == [journal EXCEPT ![c] = WithLast(@, attempt)] IN
         /\ saved \in Journals
         /\ \A d \in Cases : /\ saved[d].generation = journal[d].generation
                             /\ Entries(saved, d) = Entries(journal, d)
                             /\ \A n \in Entries(saved, d) :
                                  saved[d].attempts[n].status \in Known =>
                                    saved[d].attempts[n].status = outcome[<<d, n>>]
<1> DEFINE case == journal[c]
           saved == [journal EXCEPT ![c] = WithLast(@, attempt)]
<1>1. journal \in Journals /\ case \in CaseStates
  BY DEF IInv, TypeOK, Journals
<1>2. /\ WithLast(case, attempt) \in CaseStates
      /\ WithLast(case, attempt).generation = case.generation
      /\ Count(WithLast(case, attempt)) = Count(case)
      /\ DOMAIN WithLast(case, attempt).attempts = DOMAIN case.attempts
      /\ LastOf(WithLast(case, attempt)) = attempt
      /\ \A i \in DOMAIN case.attempts :
           i # Count(case) => WithLast(case, attempt).attempts[i] = case.attempts[i]
  BY <1>1, WithLastCase
<1>3. saved \in Journals /\ saved[c] = WithLast(case, attempt)
        /\ \A d \in Cases : d # c => saved[d] = journal[d]
  BY <1>1, <1>2 DEF Journals
<1>4. ASSUME NEW d \in Cases, NEW n \in Entries(saved, d),
             saved[d].attempts[n].status \in Known
      PROVE  saved[d].attempts[n].status = outcome[<<d, n>>]
  <2>1. CASE d # c
    BY <1>3, <1>4, <2>1 DEF IInv, OutcomeInv, RecordedIsReal, Entries
  <2>2. CASE d = c /\ n # Count(case)
    BY <1>2, <1>3, <1>4, <2>2 DEF IInv, OutcomeInv, RecordedIsReal, Entries
  <2>3. CASE d = c /\ n = Count(case)
    <3>1. saved[d].attempts[n] = attempt
      BY <1>2, <1>3, <2>3 DEF LastOf
    <3> QED BY <1>4, <2>3, <3>1
  <2> QED BY <2>1, <2>2, <2>3
<1>5. ASSUME NEW d \in Cases
      PROVE  saved[d].generation = journal[d].generation /\ Entries(saved, d) = Entries(journal, d)
  BY <1>2, <1>3 DEF Entries
<1> QED BY <1>3, <1>4, <1>5

-----------------------------------------------------------------------------
(* Steps that replace the latest attempt in the journal *)

\* The attempt becomes unconfirmed and the command ends.
LEMMA UnconfirmStep ==
  ASSUME IInv, NEW p \in Procs, pc[p] \notin {"idle", "load", "execute"}, cursor[p] \in Cases,
         Current(p).attempts # <<>>, Unconfirm(p)
  PROVE  IInv'
<1> USE DEF IInv
<1> DEFINE c == cursor[p]
           attempt == [LastOf(journal[c]) EXCEPT !.status = "unconfirmed"]
           saved == [journal EXCEPT ![c] = WithLast(@, attempt)]
<1>1. mem[p] = journal /\ c \in Cases /\ journal[c].attempts # <<>>
  BY HolderFacts DEF Current
<1>2. LastOf(journal[c]) \in Attempts
  BY <1>1, LastFacts
<1>3. attempt \in Attempts /\ attempt.status \notin Known
  BY <1>2 DEF Attempts, Statuses, Known, Unknown
<1>4. journal' = saved /\ ValidJournal(saved)
  BY <1>1 DEF Unconfirm
<1> HIDE DEF attempt, c
<1>5. /\ saved \in Journals
      /\ \A d \in Cases : /\ saved[d].generation = journal[d].generation
                          /\ Entries(saved, d) = Entries(journal, d)
                          /\ \A n \in Entries(saved, d) :
                               saved[d].attempts[n].status \in Known =>
                                 saved[d].attempts[n].status = outcome[<<d, n>>]
  BY <1>1, <1>3, SavedFacts
<1> HIDE DEF saved
<1>6. Return(p, 2) /\ UNCHANGED <<skill, frozen, receipts, contexts, deliveries, runs, outcome, tampers, view>>
  BY DEF Unconfirm, Return, evidence
<1>7. \A q \in Procs : pc'[q] = "idle"
  BY <1>6, OthersIdle DEF Return, Goto, TypeOK
<1>8. TypeOK'
  BY <1>4, <1>5, <1>6 DEF TypeOK, Return, Goto, Labels
<1>9. ControlInv'
  BY <1>6, <1>7 DEF ControlInv, Return, InAttempt, HasReceipt
<1>10. CopyIsCurrent'
  BY <1>7 DEF CopyIsCurrent
<1>11. JournalInv'
  BY <1>4, <1>5, <1>6 DEF JournalInv, ValidJournal
<1>12. RunsInv'
  BY <1>4, <1>5, <1>6, <1>7 DEF RunsInv, RunsOnce, AttemptIds, At
<1>13. OutcomeInv'
  BY <1>4, <1>5, <1>6, <1>7 DEF OutcomeInv, RecordedIsReal, HasReceipt, Unwritten
<1> QED BY <1>8, <1>9, <1>10, <1>11, <1>12, <1>13

\* The outcome its files state is recorded and the command goes on.
LEMMA RecordFoundStep ==
  ASSUME IInv, NEW p \in Procs, pc[p] \notin {"idle", "load", "execute"}, cursor[p] \in Cases,
         Current(p).attempts # <<>>, AuditsNow(cursor[p], LastOf(Current(p)), TRUE),
         SaveLast(p, FoundNow(cursor[p], LastOf(Current(p)))),
         NEW label \in {"reconcile", "next", "review", "stopped"},
         NEW case \in 1 .. NumCases + 1, Proceed(p, label, case),
         held' \in [Procs -> Held \cup {None}],
         UNCHANGED <<skill, frozen, evidence, flag, token, history>>
  PROVE  IInv'
<1> USE DEF IInv
<1> DEFINE c == cursor[p]
           attempt == FoundNow(c, LastOf(journal[c]))
           saved == [journal EXCEPT ![c] = WithLast(@, attempt)]
<1>1. mem[p] = journal /\ c \in Cases /\ journal[c].attempts # <<>>
        /\ AuditsNow(c, LastOf(journal[c]), TRUE)
  BY HolderFacts DEF Current
<1>2. attempt \in Attempts /\ attempt.status = outcome[<<c, Count(journal[c])>>]
  BY <1>1, FoundNowFacts
<1>3. journal' = saved /\ ValidJournal(saved) /\ mem' = [mem EXCEPT ![p] = saved]
  BY <1>1 DEF SaveLast, Save, Current
<1> HIDE DEF attempt, c
<1>4. /\ saved \in Journals
      /\ \A d \in Cases : /\ saved[d].generation = journal[d].generation
                          /\ Entries(saved, d) = Entries(journal, d)
                          /\ \A n \in Entries(saved, d) :
                               saved[d].attempts[n].status \in Known =>
                                 saved[d].attempts[n].status = outcome[<<d, n>>]
  BY <1>1, <1>2, SavedFacts
<1> HIDE DEF saved
<1>5. /\ pc' = [pc EXCEPT ![p] = label] /\ cursor' = [cursor EXCEPT ![p] = case]
      /\ UNCHANGED <<skill, frozen, receipts, contexts, deliveries, lock, job, flag, token, exit,
                    view, runs, outcome, taken, tampers>>
  BY DEF Proceed, Goto, evidence, history
<1>6. /\ pc'[p] = label /\ mem'[p] = saved /\ lock = p /\ job[p] \in Jobs
      /\ \A q \in Procs : q # p => pc'[q] = "idle"
  BY <1>3, <1>5, HolderFacts DEF TypeOK
<1>7. TypeOK'
  BY <1>3, <1>4, <1>5 DEF TypeOK, Labels
<1>8. ControlInv'
  <2>1. \A d \in Cases : frozen'[<<d, saved[d].generation>>] \in Digests
    BY <1>4, <1>5 DEF JournalInv
  <2> QED BY <1>3, <1>4, <1>5, <1>6, <2>1 DEF ControlInv, InAttempt, HasReceipt
<1>9. CopyIsCurrent'
  BY <1>3, <1>5, <1>6 DEF CopyIsCurrent
<1>10. JournalInv'
  BY <1>3, <1>4, <1>5 DEF JournalInv, ValidJournal
<1>11. RunsInv'
  BY <1>3, <1>4, <1>5, <1>6 DEF RunsInv, RunsOnce, AttemptIds, At
<1>12. OutcomeInv'
  BY <1>3, <1>4, <1>5, <1>6 DEF OutcomeInv, RecordedIsReal, HasReceipt, Unwritten
<1> QED BY <1>7, <1>8, <1>9, <1>10, <1>11, <1>12

LEMMA ReconcileStep ==
  ASSUME IInv, NEW p \in Procs, Reconcile(p)
  PROVE  IInv'
<1> DEFINE c == cursor[p]
<1>1. pc[p] = "reconcile" /\ c \in Cases /\ c + 1 \in 1 .. NumCases + 1
  BY DEF Reconcile, At, Cases
<1>2. mem[p] = journal /\ \A d \in Cases : mem[p][d] \in CaseStates
  BY <1>1, HolderFacts
<1>3. CaseStatus(Current(p)) # "pending" => Current(p).attempts # <<>>
  BY DEF CaseStatus
<1>4. CASE CheckOutcome(p)
  <2>1. CASE Return(p, 2)
    BY <1>1, <1>4, <2>1, ReturnStep DEF CheckOutcome
  <2>2. CASE Proceed(p, "reconcile", c + 1) /\ UNCHANGED <<mem, held, flag, token, history>>
    BY <1>1, <1>4, <2>2, MoveStep DEF CheckOutcome
  <2> QED BY <1>4, <2>1, <2>2 DEF CheckOutcome
<1>5. CASE Recover(p)
  <2>1. Current(p).attempts # <<>>
    BY <1>3, <1>5 DEF Recover, Unknown
  <2>2. held' \in [Procs -> Held \cup {None}]
    BY <1>5 DEF Recover, IInv, TypeOK
  <2> QED BY <1>1, <1>5, <2>1, <2>2, RecordFoundStep DEF Recover
<1>6. CASE GiveUp(p)
  BY <1>1, <1>3, <1>6, UnconfirmStep DEF GiveUp, Unknown
<1>7. CASE SkipPending(p)
  BY <1>1, <1>7, MoveStep DEF SkipPending
<1> QED BY <1>4, <1>5, <1>6, <1>7 DEF Reconcile

LEMMA DoubtStep ==
  ASSUME IInv, NEW p \in Procs, Doubt(p)
  PROVE  IInv'
<1>1. pc[p] = "doubt" /\ cursor[p] \in Cases /\ Current(p).attempts # <<>>
  BY DEF Doubt, At, IInv, ControlInv, InAttempt
<1> QED BY <1>1, UnconfirmStep DEF Doubt

LEMMA RecordStep ==
  ASSUME IInv, NEW p \in Procs, Record(p)
  PROVE  IInv'
<1>1. pc[p] = "record" /\ cursor[p] \in Cases /\ Current(p).attempts # <<>>
  BY DEF Record, At, IInv, ControlInv, InAttempt
<1>2. CASE Return(p, 2) /\ UNCHANGED journal
  BY <1>1, <1>2, ReturnStep DEF Record, evidence, disk
<1>3. CASE AuditsNow(cursor[p], LastOf(Current(p)), TRUE)
  <2>1. SaveLast(p, FoundNow(cursor[p], LastOf(Current(p))))
    BY <1>3 DEF Record
  <2>2. held' \in [Procs -> Held \cup {None}]
    BY <1>3 DEF Record, IInv, TypeOK
  <2>3. UNCHANGED <<skill, frozen, evidence, flag, token, history>>
    BY <1>3 DEF Record
  <2>4. 1 \in 1 .. NumCases + 1 /\ cursor[p] + 1 \in 1 .. NumCases + 1
    BY <1>1 DEF Cases
  <2>5. PICK label \in {"reconcile", "next", "review", "stopped"}, case \in 1 .. NumCases + 1 :
          Proceed(p, label, case)
    BY <1>3, <2>4 DEF Record
  <2>6. pc[p] \notin {"idle", "load", "execute"}
    BY <1>1
  <2> QED BY <1>1, <2>6, <1>3, <2>1, <2>2, <2>3, <2>5, RecordFoundStep
<1> QED BY <1>2, <1>3 DEF Record

-----------------------------------------------------------------------------
(* Steps within an attempt *)

LEMMA AttemptFacts ==
  ASSUME IInv, NEW p \in Procs, pc[p] \in InAttempt
  PROVE  /\ cursor[p] \in Cases /\ cursor[p] \in 1 .. NumCases + 1
         /\ mem[p] = journal
         /\ journal[cursor[p]].attempts # <<>>
         /\ LastOf(journal[cursor[p]]).status = "running"
         /\ CurrentId(p) = <<cursor[p], Count(journal[cursor[p]])>>
         /\ CurrentId(p) \in AttemptIds
         /\ Count(journal[cursor[p]]) \in Entries(journal, cursor[p])
<1>1. pc[p] \notin {"idle", "load", "execute"}
  BY DEF InAttempt
<1>2. mem[p] = journal
  BY <1>1, HolderFacts
<1>3. /\ cursor[p] \in Cases
      /\ journal[cursor[p]].attempts # <<>> /\ LastOf(journal[cursor[p]]).status = "running"
  BY <1>2 DEF IInv, ControlInv, Current
<1>4. cursor[p] \in 1 .. NumCases + 1
  BY <1>3 DEF Cases
<1>5. CurrentId(p) = <<cursor[p], Count(journal[cursor[p]])>>
  BY <1>2 DEF CurrentId, Current
<1> QED BY <1>2, <1>3, <1>4, <1>5, LastFacts

\* The journal says that the attempt is running while any of these steps is made.
LEMMA AttemptStep ==
  ASSUME IInv, NEW p \in Procs, pc[p] \in InAttempt, NEW label \in InAttempt \ {"verify"},
         Proceed(p, label, cursor[p]),
         UNCHANGED <<journal, skill, frozen, mem, flag, taken, tampers>>,
         receipts' \in [AttemptIds -> File(Receipts)],
         contexts' \in [AttemptIds -> File(Contexts)],
         deliveries' \in [AttemptIds -> File(Deliveries)],
         held' \in [Procs -> Held \cup {None}],
         token' \in [Procs -> BOOLEAN],
         runs' \in [AttemptIds -> Nat],
         outcome' \in [AttemptIds -> Known \cup {None, "lost"}],
         \A id \in AttemptIds \ {CurrentId(p)} :
           runs'[id] = runs[id] /\ outcome'[id] = outcome[id] /\ receipts'[id] = receipts[id],
         runs'[CurrentId(p)] \in {1, runs[CurrentId(p)]},
         label = "running" => held'[p] \in Held,
         label \in HasReceipt => /\ held'[p] \in Receipts
                                 /\ held'[p].status = outcome'[CurrentId(p)],
         label \in Unwritten => receipts'[CurrentId(p)] = None,
         Readable(receipts'[CurrentId(p)]) =>
           receipts'[CurrentId(p)].status = outcome'[CurrentId(p)]
  PROVE  IInv'
<1> USE DEF IInv
<1> DEFINE c == cursor[p]
           id == <<c, Count(journal[c])>>
<1>1. /\ c \in Cases /\ c \in 1 .. NumCases + 1 /\ mem[p] = journal
      /\ journal[c].attempts # <<>> /\ LastOf(journal[c]).status = "running"
      /\ CurrentId(p) = id /\ id \in AttemptIds
      /\ Count(journal[c]) \in Entries(journal, c)
  BY AttemptFacts
<1>2. /\ pc' = [pc EXCEPT ![p] = label] /\ cursor' = [cursor EXCEPT ![p] = c]
      /\ UNCHANGED <<lock, job, exit, view>>
  BY DEF Proceed, Goto
<1>3. /\ pc[p] \notin {"idle", "load", "execute"}
      /\ label \notin {"idle", "load", "execute", "choose", "snapshot", "verify"}
      /\ label \in Labels
  BY DEF InAttempt, Labels
<1>4. /\ pc'[p] = label /\ cursor'[p] = c /\ lock = p /\ job[p] \in Jobs
      /\ \A q \in Procs : q # p => pc'[q] = "idle"
  BY <1>2, <1>3, HolderFacts DEF TypeOK
<1>5. CurrentId(p)' = id
  BY <1>1, <1>4 DEF CurrentId, Current
<1>6. TypeOK'
  BY <1>1, <1>2, <1>3 DEF TypeOK
<1>7. ControlInv'
  <2>1. \A d \in Cases : /\ mem[p] \in Journals
                         /\ frozen[<<d, journal[d].generation>>] \in Digests
    BY <1>1 DEF TypeOK, JournalInv
  <2>2. "idle" \notin InAttempt /\ "idle" \notin HasReceipt
    BY DEF InAttempt, HasReceipt
  <2>3. Current(p)' = journal[c]
    BY <1>1, <1>4 DEF Current
  <2> QED BY <1>1, <1>2, <1>3, <1>4, <2>1, <2>2, <2>3 DEF ControlInv
<1>8. CopyIsCurrent'
  BY <1>1, <1>2, <1>3, <1>4 DEF CopyIsCurrent
<1>9. JournalInv'
  BY DEF JournalInv, ValidJournal
<1>10. RunsInv'
  <2>1. \A i \in AttemptIds : runs'[i] # 0 => runs'[i] = 1 /\ i[2] \in Entries(journal, i[1])
    <3> SUFFICES ASSUME NEW i \in AttemptIds, runs'[i] # 0
                 PROVE  runs'[i] = 1 /\ i[2] \in Entries(journal, i[1])
      OBVIOUS
    <3>1. CASE i = id
      BY <1>1, <3>1 DEF RunsInv, RunsOnce
    <3>2. CASE i # id
      BY <1>1, <3>2 DEF RunsInv, RunsOnce
    <3> QED BY <3>1, <3>2
  <2> QED BY <1>3, <1>4, <2>1 DEF RunsInv, RunsOnce, Entries, At
<1>11. OutcomeInv'
  <2>1. RecordedIsReal'
    <3> SUFFICES ASSUME NEW d \in Cases, NEW n \in Entries(journal, d),
                        journal[d].attempts[n].status \in Known
                 PROVE  journal[d].attempts[n].status = outcome'[<<d, n>>]
      BY DEF RecordedIsReal, Entries
    <3>1. <<d, n>> # id
      BY <1>1 DEF LastOf, Known
    <3>2. <<d, n>> \in AttemptIds
      <4>1. /\ journal[d] \in CaseStates /\ ValidCase(journal[d])
        BY DEF TypeOK, Journals, JournalInv, ValidJournal
      <4>2. journal[d].attempts \in Seq(Attempts)
        BY <4>1 DEF CaseStates
      <4> QED BY <4>1, <4>2 DEF Entries, AttemptIds, AttemptNumbers, ValidCase, Count
    <3> QED BY <1>1, <3>1, <3>2 DEF OutcomeInv, RecordedIsReal
  <2>2. \A i \in AttemptIds : Readable(receipts'[i]) => receipts'[i].status = outcome'[i]
    BY <1>1 DEF OutcomeInv
  <2>3. "idle" \notin HasReceipt /\ "idle" \notin Unwritten
    BY DEF HasReceipt, Unwritten
  <2> QED BY <1>1, <1>4, <1>5, <2>1, <2>2, <2>3 DEF OutcomeInv
<1> QED BY <1>6, <1>7, <1>8, <1>9, <1>10, <1>11

LEMMA StartVerificationStep ==
  ASSUME IInv, NEW p \in Procs, StartVerification(p)
  PROVE  IInv'
<1> USE DEF IInv
<1>1. pc[p] = "verify" /\ pc[p] \in InAttempt
  BY DEF StartVerification, At, InAttempt
<1> DEFINE id == CurrentId(p)
           h == [skill |-> skill, input |-> frozen[<<cursor[p], Current(p).generation>>],
                 status |-> None]
<1>2. /\ runs' = [runs EXCEPT ![id] = @ + 1] /\ held' = [held EXCEPT ![p] = h]
      /\ token' = [token EXCEPT ![p] = FALSE] /\ Proceed(p, "running", cursor[p])
      /\ UNCHANGED <<journal, skill, frozen, receipts, contexts, deliveries, mem, flag, outcome,
                    taken, tampers>>
  BY DEF StartVerification, disk
<1>3. id \in AttemptIds /\ mem[p] = journal /\ cursor[p] \in Cases
  BY <1>1, AttemptFacts
<1>4. h \in Held
  BY <1>3 DEF JournalInv, TypeOK, Held, Current
<1> HIDE DEF id, h
<1>5. runs[id] = 0 /\ receipts[id] = None
  BY <1>1 DEF RunsInv, OutcomeInv, At, Unwritten, id
<1>6. /\ receipts' \in [AttemptIds -> File(Receipts)] /\ contexts' \in [AttemptIds -> File(Contexts)]
      /\ deliveries' \in [AttemptIds -> File(Deliveries)]
      /\ outcome' \in [AttemptIds -> Known \cup {None, "lost"}]
      /\ held' \in [Procs -> Held \cup {None}] /\ token' \in [Procs -> BOOLEAN]
      /\ runs' \in [AttemptIds -> Nat] /\ held'[p] = h
      /\ runs'[id] = 1 /\ \A i \in AttemptIds \ {id} : runs'[i] = runs[i]
  BY <1>2, <1>3, <1>4, <1>5 DEF TypeOK
<1>7. "running" \in InAttempt \ {"verify"} /\ "running" \notin HasReceipt
        /\ ~Readable(receipts'[id])
  BY <1>2, <1>5 DEF InAttempt, HasReceipt, Readable
<1> QED BY <1>1, <1>2, <1>3, <1>4, <1>5, <1>6, <1>7, AttemptStep DEF id

\* The types of what an attempt's steps may change.
LEMMA AttemptTypes ==
  ASSUME IInv
  PROVE  /\ receipts \in [AttemptIds -> File(Receipts)]
         /\ contexts \in [AttemptIds -> File(Contexts)]
         /\ deliveries \in [AttemptIds -> File(Deliveries)]
         /\ held \in [Procs -> Held \cup {None}]
         /\ token \in [Procs -> BOOLEAN]
         /\ runs \in [AttemptIds -> Nat]
         /\ outcome \in [AttemptIds -> Known \cup {None, "lost"}]
  BY DEF IInv, TypeOK

LEMMA FinishVerificationStep ==
  ASSUME IInv, NEW p \in Procs, FinishVerification(p)
  PROVE  IInv'
<1> DEFINE id == CurrentId(p)
<1>1. pc[p] = "running" /\ pc[p] \in InAttempt
  BY DEF FinishVerification, At, InAttempt
<1>2. id \in AttemptIds /\ held[p] \in Held /\ receipts[id] = None
  BY <1>1, AttemptFacts DEF IInv, ControlInv, OutcomeInv, Unwritten
<1>3. PICK status \in Known :
        /\ held' = [held EXCEPT ![p].status = status]
        /\ outcome' = [outcome EXCEPT ![id] = status]
        /\ Proceed(p, IF status = "succeeded" THEN "deliver" ELSE "receipt", cursor[p])
  BY DEF FinishVerification, Known
<1> HIDE DEF id
<1>4. PICK label \in {"deliver", "receipt"} : Proceed(p, label, cursor[p])
  BY <1>3
<1>5. UNCHANGED <<journal, skill, frozen, receipts, contexts, deliveries, mem, flag, token, runs,
                  taken, tampers>>
  BY DEF FinishVerification, disk
<1>6. /\ held'[p] \in Receipts /\ held'[p].status = status
      /\ held' \in [Procs -> Held \cup {None}]
  <2> DEFINE h == [held[p] EXCEPT !.status = status]
  <2>1. h \in Receipts /\ h \in Held /\ h.status = status
    BY <1>2 DEF Held, Receipts
  <2>2. held' = [held EXCEPT ![p] = h]
    BY <1>3, AttemptTypes
  <2> HIDE DEF h
  <2> QED BY <2>1, <2>2, AttemptTypes
<1>7. /\ outcome'[id] = status /\ outcome' \in [AttemptIds -> Known \cup {None, "lost"}]
      /\ \A i \in AttemptIds \ {id} : outcome'[i] = outcome[i]
  BY <1>2, <1>3, AttemptTypes
<1>8. label \in InAttempt \ {"verify"} /\ label # "running" /\ ~Readable(receipts'[id])
  BY <1>2, <1>5 DEF InAttempt, Readable
<1> QED BY <1>1, <1>2, <1>4, <1>5, <1>6, <1>7, <1>8, AttemptTypes, AttemptStep DEF id

LEMMA LoseVerificationStep ==
  ASSUME IInv, NEW p \in Procs, LoseVerification(p)
  PROVE  IInv'
<1> DEFINE id == CurrentId(p)
<1>1. pc[p] \in {"verify", "running", "deliver"} /\ pc[p] \in InAttempt
  BY DEF LoseVerification, InAttempt
<1>2. id \in AttemptIds /\ receipts[id] = None
  BY <1>1, AttemptFacts DEF IInv, OutcomeInv, Unwritten
<1>3. /\ outcome' = [outcome EXCEPT ![id] = "lost"] /\ Proceed(p, "doubt", cursor[p])
      /\ UNCHANGED <<journal, skill, frozen, receipts, contexts, deliveries, mem, held, flag, token,
                    runs, taken, tampers>>
  BY DEF LoseVerification, disk
<1> HIDE DEF id
<1>4. /\ outcome' \in [AttemptIds -> Known \cup {None, "lost"}]
      /\ \A i \in AttemptIds \ {id} : outcome'[i] = outcome[i]
  BY <1>2, <1>3, AttemptTypes
<1>5. /\ "doubt" \in InAttempt \ {"verify"} /\ "doubt" \notin HasReceipt
      /\ ~Readable(receipts'[id])
  BY <1>2, <1>3 DEF InAttempt, HasReceipt, Readable
<1> QED BY <1>1, <1>2, <1>3, <1>4, <1>5, AttemptTypes, AttemptStep DEF id

\* What a process that writes evidence holds.
LEMMA WriterFacts ==
  ASSUME IInv, NEW p \in Procs, pc[p] \in HasReceipt
  PROVE  /\ pc[p] \in InAttempt /\ pc[p] \notin {"idle", "load", "execute"}
         /\ CurrentId(p) \in AttemptIds
         /\ held[p] \in Receipts /\ held[p].status = outcome[CurrentId(p)]
         /\ Readable(receipts[CurrentId(p)]) =>
              receipts[CurrentId(p)].status = outcome[CurrentId(p)]
<1>1. pc[p] \in InAttempt /\ pc[p] \notin {"idle", "load", "execute"}
  BY DEF HasReceipt, InAttempt
<1> QED BY <1>1, AttemptFacts DEF IInv, ControlInv, OutcomeInv

LEMMA DeliverStep ==
  ASSUME IInv, NEW p \in Procs, Deliver(p)
  PROVE  IInv'
<1> DEFINE id == CurrentId(p)
           delivery == [receipt |-> held[p], whole |-> TRUE]
<1>1. pc[p] = "deliver" /\ pc[p] \in HasReceipt /\ pc[p] \in Unwritten
  BY DEF Deliver, At, HasReceipt, Unwritten
<1>2. /\ pc[p] \in InAttempt /\ id \in AttemptIds /\ held[p] \in Receipts
      /\ held[p].status = outcome[id] /\ receipts[id] = None
  BY <1>1, WriterFacts DEF IInv, OutcomeInv
<1>3. /\ deliveries' = [deliveries EXCEPT ![id] = delivery] /\ Proceed(p, "receipt", cursor[p])
      /\ UNCHANGED <<journal, skill, frozen, receipts, contexts, mem, held, flag, token,
                    runs, outcome, taken, tampers>>
  BY DEF Deliver, history
<1>4. delivery \in File(Deliveries)
  BY <1>2 DEF Deliveries, File
<1> HIDE DEF id, delivery
<1>5. deliveries' \in [AttemptIds -> File(Deliveries)]
  BY <1>2, <1>3, <1>4, AttemptTypes
<1>6. "receipt" \in InAttempt \ {"verify"} /\ ~Readable(receipts'[id])
  BY <1>2, <1>3 DEF InAttempt, Readable
<1> QED BY <1>1, <1>2, <1>3, <1>5, <1>6, AttemptTypes, AttemptStep DEF id

LEMMA WriteReceiptStep ==
  ASSUME IInv, NEW p \in Procs, WriteReceipt(p)
  PROVE  IInv'
<1> DEFINE id == CurrentId(p)
<1>1. pc[p] = "receipt" /\ pc[p] \in HasReceipt
  BY DEF WriteReceipt, At, HasReceipt
<1>2. /\ pc[p] \in InAttempt /\ id \in AttemptIds /\ held[p] \in Receipts
      /\ held[p].status = outcome[id]
  BY <1>1, WriterFacts
<1>3. CASE Return(p, 2) /\ UNCHANGED receipts
  BY <1>1, <1>3, ReturnStep DEF WriteReceipt, disk
<1>4. CASE receipts[id] = None
  <2>1. /\ receipts' = [receipts EXCEPT ![id] = held[p]] /\ Proceed(p, "context", cursor[p])
        /\ UNCHANGED <<journal, skill, frozen, contexts, deliveries, mem, held, flag, token,
                      runs, outcome, taken, tampers>>
    BY <1>4 DEF WriteReceipt, history
  <2> HIDE DEF id
  <2>2. /\ receipts' \in [AttemptIds -> File(Receipts)] /\ receipts'[id] = held[p]
        /\ \A i \in AttemptIds \ {id} : receipts'[i] = receipts[i]
    BY <1>2, <2>1, AttemptTypes DEF File
  <2>3. "context" \in InAttempt \ {"verify"} /\ "context" \notin Unwritten
    BY DEF InAttempt, Unwritten
  <2> QED BY <1>1, <1>2, <2>1, <2>2, <2>3, AttemptTypes, AttemptStep DEF id
<1> QED BY <1>3, <1>4 DEF WriteReceipt

LEMMA WriteContextStep ==
  ASSUME IInv, NEW p \in Procs, WriteContext(p)
  PROVE  IInv'
<1> DEFINE id == CurrentId(p)
           context == [receipt |-> held[p], input |-> held[p].input]
<1>1. pc[p] = "context" /\ pc[p] \in HasReceipt
  BY DEF WriteContext, At, HasReceipt
<1>2. /\ pc[p] \in InAttempt /\ id \in AttemptIds /\ held[p] \in Receipts
      /\ held[p].status = outcome[id]
      /\ Readable(receipts[id]) => receipts[id].status = outcome[id]
  BY <1>1, WriterFacts
<1>3. CASE Return(p, 2) /\ UNCHANGED contexts
  BY <1>1, <1>3, ReturnStep DEF WriteContext, disk
<1>4. CASE contexts[id] = None
  <2>1. /\ contexts' = [contexts EXCEPT ![id] = context] /\ Proceed(p, "record", cursor[p])
        /\ UNCHANGED <<journal, skill, frozen, receipts, deliveries, mem, held, flag, token,
                      runs, outcome, taken, tampers>>
    BY <1>4 DEF WriteContext, history
  <2>2. context \in File(Contexts)
    BY <1>2 DEF Contexts, Receipts, File
  <2> HIDE DEF id, context
  <2>3. contexts' \in [AttemptIds -> File(Contexts)]
    BY <1>2, <2>1, <2>2, AttemptTypes
  <2>4. "record" \in InAttempt \ {"verify"} /\ "record" \notin Unwritten
    BY DEF InAttempt, Unwritten
  <2> QED BY <1>1, <1>2, <2>1, <2>3, <2>4, AttemptTypes, AttemptStep DEF id
<1> QED BY <1>3, <1>4 DEF WriteContext

-----------------------------------------------------------------------------
(* Choosing, freezing new inputs and entering an attempt *)

LEMMA ReconciledStep ==
  ASSUME IInv, NEW p \in Procs, Reconciled(p)
  PROVE  IInv'
<1>1. pc[p] = "reconcile" /\ job[p] \in Jobs
  BY HolderFacts DEF Reconciled, At
<1>2. 1 \in 1 .. NumCases + 1
  OBVIOUS
<1>3. CASE job[p].cmd = "run"
  BY <1>1, <1>2, <1>3, MoveStep DEF Reconciled
<1>4. CASE job[p].cmd = "retry"
  <2>1. job[p].case \in Cases /\ job[p].case \in 1 .. NumCases + 1
    BY <1>1, <1>4 DEF Jobs, Cases
  <2> QED BY <1>1, <1>4, <2>1, MoveStep DEF Reconciled
<1>5. CASE job[p].cmd = "reconcile"
  BY <1>1, <1>2, <1>5, MoveStep DEF Reconciled
<1>6. job[p].cmd \in {"run", "retry", "reconcile"}
  BY <1>1 DEF Jobs
<1> QED BY <1>3, <1>4, <1>5, <1>6

LEMMA NextCaseStep ==
  ASSUME IInv, NEW p \in Procs, NextCase(p)
  PROVE  IInv'
<1>1. pc[p] = "next" /\ cursor[p] \in 1 .. NumCases + 1
  BY DEF NextCase, At, IInv, TypeOK
<1>2. UNCHANGED <<disk, mem, held, flag, token, history>>
  BY DEF NextCase
<1>3. CASE Proceed(p, "review", 1) \/ Proceed(p, "stopped", 1)
  BY <1>1, <1>2, <1>3, MoveStep
<1>4. CASE cursor[p] # NumCases + 1 /\ Proceed(p, "execute", cursor[p])
  BY <1>1, <1>2, <1>4, MoveStep DEF Cases
<1>5. CASE cursor[p] # NumCases + 1 /\ Proceed(p, "next", cursor[p] + 1)
  <2>1. cursor[p] + 1 \in 1 .. NumCases + 1
    BY <1>1, <1>5
  <2> QED BY <1>1, <1>2, <1>5, <2>1, MoveStep
<1> QED BY <1>3, <1>4, <1>5 DEF NextCase

LEMMA ChooseStep ==
  ASSUME IInv, NEW p \in Procs, Choose(p)
  PROVE  IInv'
<1>1. pc[p] = "choose" /\ job[p] \in Jobs /\ job[p].cmd = "retry" /\ cursor[p] \in Cases
  BY HolderFacts DEF Choose, At, IInv, ControlInv
<1>2. cursor[p] \in 1 .. NumCases + 1
  BY <1>1 DEF Cases
<1>3. CASE Return(p, 2)
  BY <1>1, <1>3, ReturnStep DEF Choose
<1>4. CASE /\ Count(Current(p)) < MaxAttempts
           /\ Proceed(p, IF job[p].input = None THEN "execute" ELSE "snapshot", cursor[p])
           /\ UNCHANGED <<mem, held, flag, token, history>>
  <2>1. job[p].input \in Digests \cup {None}
    BY <1>1 DEF Jobs
  <2>2. CASE job[p].input = None
    BY <1>1, <1>2, <1>4, <2>2, MoveStep DEF Choose
  <2>3. CASE job[p].input \in Digests
    <3>1. Proceed(p, "snapshot", cursor[p])
      BY <1>4, <2>3
    <3> QED BY <1>1, <1>2, <1>4, <2>3, <3>1, MoveStep DEF Choose, Current
  <2> QED BY <2>1, <2>2, <2>3
<1> QED BY <1>3, <1>4 DEF Choose

LEMMA SnapshotStep ==
  ASSUME IInv, NEW p \in Procs, Snapshot(p)
  PROVE  IInv'
<1> USE DEF IInv
<1> DEFINE c == cursor[p]
           number == Count(Current(p)) + 1
           input == job[p].input
           case == WithInput(journal[c], number, input)
<1>1. /\ pc[p] = "snapshot" /\ c \in Cases /\ c \in 1 .. NumCases + 1 /\ job[p].cmd = "retry"
      /\ input \in Digests /\ Count(Current(p)) < MaxAttempts
  BY DEF Snapshot, At, ControlInv, Cases
<1>2. /\ lock = p /\ mem[p] = journal /\ journal \in Journals /\ journal[c] \in CaseStates
      /\ job[p] \in Jobs /\ \A q \in Procs : q # p => pc[q] = "idle"
  BY <1>1, HolderFacts
<1>3. CASE Return(p, 2) /\ UNCHANGED frozen
  BY <1>1, <1>3, ReturnStep DEF Snapshot, disk, evidence
<1>4. CASE /\ frozen' = [frozen EXCEPT ![<<c, number>>] = input]
           /\ mem' = [mem EXCEPT ![p][c] = WithInput(@, number, input)]
           /\ Proceed(p, "execute", c)
           /\ UNCHANGED <<held, flag, token, history>>
  <2>1. number \in Generations
    <3>1. Count(Current(p)) \in Nat
      BY <1>2 DEF Current, Count, CaseStates
    <3> QED BY <1>1, <3>1 DEF Generations
  <2>2. case \in CaseStates /\ case.attempts = journal[c].attempts /\ case.generation = number
    BY <1>1, <1>2, <2>1 DEF CaseStates, WithInput
  <2> HIDE DEF case
  <2>3. mem' = [mem EXCEPT ![p] = [journal EXCEPT ![c] = case]]
    BY <1>2, <1>4 DEF case
  <2>4. /\ [journal EXCEPT ![c] = case] \in Journals
        /\ \A d \in Cases \ {c} : [journal EXCEPT ![c] = case][d] = journal[d]
        /\ [journal EXCEPT ![c] = case][c] = case
    BY <1>1, <1>2, <2>2 DEF Journals
  <2>5. /\ pc' = [pc EXCEPT ![p] = "execute"] /\ cursor' = [cursor EXCEPT ![p] = c]
        /\ UNCHANGED <<journal, skill, receipts, contexts, deliveries, lock, job, held, flag,
                      token, exit, view, runs, outcome, taken, tampers>>
    BY <1>4 DEF Snapshot, Proceed, Goto, evidence, history
  <2>6. /\ pc'[p] = "execute" /\ cursor'[p] = c /\ mem'[p] = [journal EXCEPT ![c] = case]
        /\ \A q \in Procs : q # p => pc'[q] = "idle"
    BY <1>2, <2>3, <2>5 DEF TypeOK
  <2>7. /\ frozen' \in [Cases \X Generations -> Digests \cup {None}]
        /\ frozen'[<<c, number>>] = input
        /\ \A d \in Cases : frozen'[<<d, journal[d].generation>>] \in Digests
    <3>1. <<c, number>> \in Cases \X Generations
      BY <1>1, <2>1
    <3> HIDE DEF number, c
    <3> QED BY <1>1, <1>4, <3>1 DEF TypeOK, JournalInv
  <2>8. TypeOK'
    BY <1>1, <2>3, <2>4, <2>5, <2>7 DEF TypeOK, Labels
  <2>9. ControlInv'
    <3>1. \A d \in Cases :
            /\ mem'[p][d].attempts = journal[d].attempts
            /\ frozen'[<<d, mem'[p][d].generation>>] \in Digests
      BY <1>1, <2>2, <2>4, <2>6, <2>7
    <3>2. mem'[p] \in Journals
      BY <2>4, <2>6
    <3>3. cursor'[p] \in Cases /\ lock' = p /\ job'[p] \in Jobs /\ pc'[p] = "execute"
      BY <1>1, <1>2, <2>5, <2>6
    <3>4. \A q \in Procs : q # p => pc'[q] = "idle" /\ lock' # q
      BY <2>6, <3>3
    <3>5. "execute" \notin InAttempt /\ "execute" \notin HasReceipt
            /\ "idle" \notin InAttempt /\ "idle" \notin HasReceipt
      BY DEF InAttempt, HasReceipt
    <3>6. UNCHANGED journal
      BY <2>5
    <3> HIDE DEF c, number, input
    <3> QED BY <3>1, <3>2, <3>3, <3>4, <3>5, <3>6 DEF ControlInv
  <2>10. CopyIsCurrent'
    <3>1. job'[p].cmd = "retry" /\ job'[p].input # None /\ lock' = p /\ pc'[p] = "execute"
      BY <1>1, <1>2, <2>5, <2>6
    <3>2. \A d \in Cases \ {cursor'[p]} : mem'[p][d] = journal'[d]
      BY <2>4, <2>5, <2>6
    <3>3. Current(p)'.attempts = journal'[cursor'[p]].attempts
      BY <2>2, <2>4, <2>5, <2>6 DEF Current
    <3>4. \A q \in Procs : q # p => pc'[q] = "idle"
      BY <2>6
    <3> HIDE DEF c, number, input
    <3> QED BY <3>1, <3>2, <3>3, <3>4 DEF CopyIsCurrent, At
  <2>11. JournalInv'
    BY <2>5, <2>7 DEF JournalInv, ValidJournal
  <2>12. RunsInv'
    BY <2>5, <2>6 DEF RunsInv, RunsOnce, Entries, At
  <2>13. OutcomeInv'
    BY <2>5, <2>6 DEF OutcomeInv, RecordedIsReal, Entries, HasReceipt, Unwritten
  <2> QED BY <2>8, <2>9, <2>10, <2>11, <2>12, <2>13
<1> QED BY <1>3, <1>4 DEF Snapshot

\* The copy, with the new attempt, becomes the journal before anything runs.
LEMMA ExecuteStep ==
  ASSUME IInv, NEW p \in Procs, Execute(p)
  PROVE  IInv'
<1> USE DEF IInv
<1> DEFINE c == cursor[p]
           case == Current(p)
           number == Count(case) + 1
           id == <<c, number>>
           attempt == NewAttempt(case)
           more == [case EXCEPT !.attempts = Append(@, attempt)]
           saved == [mem[p] EXCEPT ![c] = more]
<1>1. pc[p] = "execute" /\ c \in Cases /\ c \in 1 .. NumCases + 1
  BY DEF Execute, At, ControlInv, Cases
<1>2. /\ lock = p /\ mem[p] \in Journals /\ case \in CaseStates /\ case = mem[p][c]
      /\ job[p] \in Jobs
      /\ \A d \in Cases : mem[p][d].attempts = journal[d].attempts
      /\ \A q \in Procs : q # p => pc[q] = "idle"
  BY <1>1, HolderFacts DEF Current
<1>3. CASE Return(p, 2) /\ UNCHANGED journal
  BY <1>1, <1>3, ReturnStep DEF Execute, disk, evidence
<1>4. CASE /\ Count(case) < MaxAttempts /\ {receipts[id], contexts[id], deliveries[id]} = {None}
           /\ Save(p, [mem[p] EXCEPT ![c].attempts = Append(@, NewAttempt(case))])
           /\ Proceed(p, "verify", c)
           /\ UNCHANGED <<held, flag, token, history>>
  <2>1. [mem[p] EXCEPT ![c].attempts = Append(@, NewAttempt(case))] = saved
    BY <1>1, <1>2 DEF Journals
  <2>2. Count(case) \in Nat /\ number \in AttemptNumbers /\ id \in AttemptIds
    <3>1. Count(case) \in Nat
      BY <1>2 DEF Count, CaseStates
    <3> QED BY <1>1, <1>4, <3>1 DEF AttemptNumbers, AttemptIds
  <2>3. attempt \in Attempts /\ attempt.status = "running"
    BY <1>2, <2>2 DEF NewAttempt, Attempts, CaseStates, Statuses, Unknown
  <2> HIDE DEF attempt
  <2>4. /\ more \in CaseStates /\ more.generation = case.generation /\ Count(more) = number
        /\ DOMAIN more.attempts = 1 .. number /\ DOMAIN case.attempts = 1 .. Count(case)
        /\ more.attempts # <<>> /\ LastOf(more) = attempt
        /\ \A i \in 1 .. Count(case) : more.attempts[i] = case.attempts[i]
    BY <1>2, <2>3, AppendCase
  <2> HIDE DEF more, case
  <2>5. /\ saved \in Journals /\ saved[c] = more
        /\ \A d \in Cases \ {c} : saved[d] = mem[p][d]
    BY <1>1, <1>2, <2>4 DEF Journals
  <2>6. ValidJournal(saved) /\ mem' = [mem EXCEPT ![p] = saved] /\ journal' = saved
    BY <1>4, <2>1 DEF Save
  <2> HIDE DEF saved, c, number
  <2>7. /\ pc' = [pc EXCEPT ![p] = "verify"] /\ cursor' = [cursor EXCEPT ![p] = c]
        /\ UNCHANGED <<skill, frozen, receipts, contexts, deliveries, lock, job, held, flag,
                      token, exit, view, runs, outcome, taken, tampers>>
    BY <1>4 DEF Execute, Proceed, Goto, evidence, history
  <2>8. /\ pc'[p] = "verify" /\ cursor'[p] = c /\ mem'[p] = saved
        /\ \A q \in Procs : q # p => pc'[q] = "idle"
    BY <1>2, <2>6, <2>7 DEF TypeOK
  <2>9. Current(p)' = more /\ CurrentId(p)' = id
    BY <2>4, <2>5, <2>8 DEF Current, CurrentId
  <2>10. TypeOK'
    BY <1>1, <2>5, <2>6, <2>7 DEF TypeOK, Labels, c
  <2>11. \A d \in Cases : frozen'[<<d, saved[d].generation>>] \in Digests
    BY <1>1, <1>2, <2>4, <2>5, <2>7 DEF ControlInv
  <2>12. ControlInv'
    BY <1>1, <1>2, <2>3, <2>4, <2>5, <2>6, <2>7, <2>8, <2>9, <2>11
       DEF ControlInv, InAttempt, HasReceipt
  <2>13. CopyIsCurrent'
    BY <1>2, <2>6, <2>7, <2>8 DEF CopyIsCurrent
  <2>14. JournalInv'
    BY <2>6, <2>11 DEF JournalInv, ValidJournal
  <2>15. runs[id] = 0 /\ receipts[id] = None
    <3>1. number \notin Entries(journal, c)
      <4>1. Entries(journal, c) = 1 .. Count(case)
        BY <1>1, <1>2, <2>4 DEF Entries
      <4> QED BY <2>2, <4>1 DEF number
    <3>2. receipts[id] = None
      BY <1>4
    <3> QED BY <2>2, <3>1, <3>2 DEF RunsInv, RunsOnce
  <2>16. RunsInv'
    <3>1. \A d \in Cases : \A n \in Entries(journal, d) : n \in Entries(saved, d)
      BY <1>2, <2>2, <2>4, <2>5 DEF Entries, number
    <3>2. RunsOnce'
      BY <2>6, <2>7, <3>1 DEF RunsInv, RunsOnce, AttemptIds
    <3> QED BY <2>7, <2>8, <2>9, <2>15, <3>2 DEF RunsInv, At
  <2>17. OutcomeInv'
    <3>1. ASSUME NEW d \in Cases, NEW n \in Entries(saved, d),
                 saved[d].attempts[n].status \in Known
          PROVE  saved[d].attempts[n].status = outcome[<<d, n>>]
      <4>1. CASE d # c
        BY <1>2, <2>5, <3>1, <4>1 DEF OutcomeInv, RecordedIsReal, Entries
      <4>2. CASE d = c /\ n = number
        BY <2>3, <2>4, <2>5, <3>1, <4>2 DEF LastOf, Known
      <4>3. CASE d = c /\ n # number
        <5>1. n \in 1 .. Count(case)
          BY <2>2, <2>4, <2>5, <4>3 DEF Entries, number
        <5>2. n \in Entries(journal, c) /\ saved[d].attempts[n] = journal[c].attempts[n]
          BY <1>1, <1>2, <2>4, <2>5, <4>3, <5>1 DEF Entries
        <5> QED BY <1>1, <3>1, <4>3, <5>2 DEF OutcomeInv, RecordedIsReal
      <4> QED BY <4>1, <4>2, <4>3
    <3>2. RecordedIsReal'
      BY <2>6, <2>7, <3>1 DEF RecordedIsReal
    <3> QED BY <2>7, <2>8, <2>9, <2>15, <3>2 DEF OutcomeInv, HasReceipt, Unwritten
  <2> QED BY <2>10, <2>12, <2>13, <2>14, <2>16, <2>17
<1> QED BY <1>3, <1>4 DEF Execute

-----------------------------------------------------------------------------
(* Steps that end a command, and outside edits *)

LEMMA ReviewStep ==
  ASSUME IInv, NEW p \in Procs, Review(p)
  PROVE  IInv'
<1>1. pc[p] # "idle" /\ UNCHANGED disk
  BY DEF Review
<1>2. PICK code \in {None, 0, 2, 3, 5} : Return(p, code)
  BY DEF Review
<1> QED BY <1>1, <1>2, ReturnStep

LEMMA StopStep ==
  ASSUME IInv, NEW p \in Procs, Stop(p)
  PROVE  IInv'
<1>1. pc[p] # "idle" /\ UNCHANGED disk
  BY DEF Stop, At
<1>2. PICK code \in {None, 0, 2, 3, 5} : Return(p, code)
  BY DEF Stop
<1> QED BY <1>1, <1>2, ReturnStep

\* An edit may damage or remove a file, never forge an outcome.
LEMMA TamperStep ==
  ASSUME IInv, Tamper
  PROVE  IInv'
<1> USE DEF IInv
<1>1. /\ tampers' \in 0 .. MaxTampers
      /\ UNCHANGED <<journal, lock, pc, job, cursor, mem, held, flag, token, exit, view,
                    runs, outcome, taken>>
  BY DEF Tamper, TypeOK
<1>2. \A file : Edited(file) \subseteq {None, Damaged}
  BY DEF Edited
<1>3. skill' \in Digests
  BY DEF Tamper, TypeOK
<1>4. /\ frozen' \in [Cases \X Generations -> Digests \cup {None}]
      /\ \A k \in Cases \X Generations : frozen[k] \in Digests => frozen'[k] \in Digests
  BY DEF Tamper, TypeOK
<1>5. /\ receipts' \in [AttemptIds -> File(Receipts)]
      /\ \A id \in AttemptIds : /\ Readable(receipts'[id]) => receipts'[id] = receipts[id]
                                /\ receipts[id] = None => receipts'[id] = None
  <2>1. CASE UNCHANGED receipts
    BY <2>1 DEF TypeOK
  <2>2. CASE \E id \in AttemptIds : /\ receipts[id] # None
                                    /\ \E f \in Edited(receipts[id]) :
                                         receipts' = [receipts EXCEPT ![id] = f]
    <3>1. PICK id \in AttemptIds, f \in {None, Damaged} :
            receipts[id] # None /\ receipts' = [receipts EXCEPT ![id] = f]
      BY <1>2, <2>2
    <3> QED BY <3>1 DEF TypeOK, File, Readable
  <2> QED BY <2>1, <2>2 DEF Tamper, evidence
<1>6. contexts' \in [AttemptIds -> File(Contexts)]
  <2>1. CASE UNCHANGED contexts
    BY <2>1 DEF TypeOK
  <2>2. CASE \E id \in AttemptIds : \E f \in Edited(contexts[id]) :
               contexts' = [contexts EXCEPT ![id] = f]
    BY <1>2, <2>2 DEF TypeOK, File
  <2> QED BY <2>1, <2>2 DEF Tamper, evidence
<1>7. deliveries' \in [AttemptIds -> File(Deliveries)]
  <2>1. CASE UNCHANGED deliveries
    BY <2>1 DEF TypeOK
  <2>2. CASE \E id \in AttemptIds : \E f \in Edited(deliveries[id]) :
               deliveries' = [deliveries EXCEPT ![id] = f]
    BY <1>2, <2>2 DEF TypeOK, File
  <2>3. CASE \E id \in AttemptIds : /\ Readable(deliveries[id])
                                    /\ deliveries' = [deliveries EXCEPT ![id].whole = FALSE]
    <3>1. PICK id \in AttemptIds : /\ Readable(deliveries[id])
                                   /\ deliveries' = [deliveries EXCEPT ![id].whole = FALSE]
      BY <2>3
    <3>2. deliveries[id] \in Deliveries
      BY <3>1 DEF TypeOK, File, Readable
    <3>3. [deliveries[id] EXCEPT !.whole = FALSE] \in Deliveries
      BY <3>2 DEF Deliveries
    <3>4. deliveries' = [deliveries EXCEPT ![id] = [deliveries[id] EXCEPT !.whole = FALSE]]
      BY <3>1
    <3> QED BY <3>3, <3>4 DEF TypeOK, File
  <2> QED BY <2>1, <2>2, <2>3 DEF Tamper, evidence
<1>8. TypeOK'
  BY <1>1, <1>3, <1>4, <1>5, <1>6, <1>7 DEF TypeOK
<1>9. \A c \in Cases, g \in Generations : frozen[<<c, g>>] \in Digests => frozen'[<<c, g>>] \in Digests
  BY <1>4
<1>10. \A c \in Cases : journal[c].generation \in Generations
  BY DEF TypeOK, Journals, CaseStates
<1>11. \A q \in Procs : pc[q] \notin {"idle", "load"} =>
         \A c \in Cases : frozen'[<<c, mem[q][c].generation>>] \in Digests
  <2> SUFFICES ASSUME NEW q \in Procs, pc[q] \notin {"idle", "load"}, NEW c \in Cases
               PROVE  frozen'[<<c, mem[q][c].generation>>] \in Digests
    OBVIOUS
  <2>1. mem[q] \in Journals /\ frozen[<<c, mem[q][c].generation>>] \in Digests
    BY DEF ControlInv
  <2>2. mem[q][c].generation \in Generations
    BY <2>1 DEF Journals, CaseStates
  <2> QED BY <1>9, <2>1, <2>2
<1>12. ControlInv'
  BY <1>1, <1>11 DEF ControlInv, Current
<1>13. CopyIsCurrent'
  BY <1>1 DEF CopyIsCurrent, At, Current
<1>14. JournalInv'
  BY <1>1, <1>9, <1>10 DEF JournalInv, ValidJournal
<1>15. RunsInv'
  BY <1>1 DEF RunsInv, RunsOnce, Entries, At, CurrentId, Current
<1>16. OutcomeInv'
  <2>1. RecordedIsReal'
    BY <1>1 DEF OutcomeInv, RecordedIsReal, Entries
  <2>2. \A q \in Procs : pc[q] \in Unwritten => CurrentId(q) \in AttemptIds
    BY AttemptFacts DEF Unwritten, InAttempt
  <2>3. \A q \in Procs : CurrentId(q)' = CurrentId(q)
    BY <1>1 DEF CurrentId, Current
  <2> QED BY <1>1, <1>5, <2>1, <2>2, <2>3 DEF OutcomeInv
<1> QED BY <1>8, <1>12, <1>13, <1>14, <1>15, <1>16

-----------------------------------------------------------------------------
(* The inductive invariant *)

LEMMA StepInv == IInv /\ [Next]_vars => IInv'
<1> SUFFICES ASSUME IInv, [Next]_vars PROVE IInv'
  OBVIOUS
<1>1. CASE UNCHANGED vars
  <2>1. UNCHANGED <<journal, skill, frozen, receipts, contexts, deliveries, lock, pc, job, cursor,
                    mem, held, flag, token, exit, view, runs, outcome, taken, tampers>>
    BY <1>1 DEF vars, disk, history
  <2>2. TypeOK'
    BY <2>1 DEF IInv, TypeOK
  <2> QED BY <2>1, <2>2, OutsideStep
<1>2. CASE \E p \in Procs : \E j \in Jobs : Begin(p, j)
  BY <1>2, BeginStep
<1>3. CASE \E p \in Procs : Busy(p)
  BY <1>3, BusyStep
<1>4. CASE \E p \in Procs : Advance(p)
  <2> SUFFICES ASSUME NEW p \in Procs, Advance(p) PROVE IInv'
    BY <1>4
  <2> QED BY LoadStep, ReconcileStep, ReconciledStep, NextCaseStep, ChooseStep, SnapshotStep,
             ExecuteStep, StartVerificationStep, TakeInterruptStep, FinishVerificationStep,
             LoseVerificationStep, DeliverStep, WriteReceiptStep, WriteContextStep, RecordStep,
             DoubtStep, ReviewStep DEF Advance
<1>5. CASE \E p \in Procs : Stop(p) \/ Interrupt(p)
  BY <1>5, StopStep, InterruptStep
<1>6. CASE \E r \in Readers : Inspect(r)
  BY <1>6, InspectStep
<1>7. CASE Tamper
  BY <1>7, TamperStep
<1> QED BY <1>1, <1>2, <1>3, <1>4, <1>5, <1>6, <1>7 DEF Next

\* The inductive invariant holds in every state of every behaviour: any number
\* of cases and attempts, any number of competing commands and inspections,
\* crashes anywhere, and any number of outside edits of the workspace.
THEOREM Invariance == Spec => []IInv
<1> QED BY InitInv, StepInv, PTL DEF Spec

\* Every variable keeps its type.
THEOREM TypeCorrect == Spec => []TypeOK
<1>1. IInv => TypeOK
  BY DEF IInv
<1> QED BY <1>1, Invariance, PTL

\* A command past load holds the lock alone, and its copy of the journal is
\* the journal, but for the inputs a retry froze.
THEOREM CopiesAreCurrent == Spec => []CopyIsCurrent
<1>1. IInv => CopyIsCurrent
  BY DEF IInv
<1> QED BY <1>1, Invariance, PTL

\* No attempt is executed twice, and none before it is in the journal.
THEOREM AttemptsRunOnce == Spec => []RunsOnce
<1>1. IInv => RunsOnce
  BY DEF IInv, RunsInv
<1> QED BY <1>1, Invariance, PTL

\* An outcome the journal states is how the execution really ended.
THEOREM RecordedOutcomesAreReal == Spec => []RecordedIsReal
<1>1. IInv => RecordedIsReal
  BY DEF IInv, OutcomeInv
<1> QED BY <1>1, Invariance, PTL

\* A case is attempted again only after a real failure or cancellation.
THEOREM OnlyFailuresAreRetried == Spec => []RetriesOnlyFailures
<1>1. IInv => RetriesOnlyFailures
  <2> SUFFICES ASSUME IInv, NEW c \in Cases, NEW n \in Entries(journal, c), n > 1
               PROVE  outcome[<<c, n - 1>>] \in {"failed", "cancelled"}
    BY DEF RetriesOnlyFailures
  <2>1. journal[c] \in CaseStates /\ ValidCase(journal[c])
    BY DEF IInv, TypeOK, Journals, JournalInv, ValidJournal
  <2>2. n - 1 \in Entries(journal, c) /\ n - 1 < Count(journal[c])
    BY <2>1 DEF CaseStates, Entries, Count
  <2>3. journal[c].attempts[n - 1].status \in {"failed", "cancelled"}
    BY <2>1, <2>2 DEF ValidCase, ValidAttempt, Entries
  <2> QED BY <2>2, <2>3 DEF IInv, OutcomeInv, RecordedIsReal, Known
<1> QED BY <1>1, Invariance, PTL

\* "complete" is reported only when every case's latest execution succeeded and
\* its receipt and delivery are on disk as the journal recorded them.
THEOREM CompletionIsEarned == Spec => []CompleteIsEarned
<1>1. IInv => CompleteIsEarned
  <2> SUFFICES ASSUME IInv, ReviewStatus(journal, Changed(journal)) = "complete",
                      NEW c \in Cases
               PROVE  LET last == LastOf(journal[c])
                          id   == <<c, last.number>>
                      IN /\ outcome[id] = "succeeded"
                         /\ Readable(deliveries[id])
                         /\ deliveries[id].receipt = last.receipt
                         /\ receipts[id] = last.receipt
    BY DEF CompleteIsEarned
  <2>1. Changed(journal) = {} /\ JournalStatus(journal) = "complete"
    BY DEF ReviewStatus
  <2>2. CaseStatus(journal[c]) \notin Statuses \ {"succeeded"}
    BY <2>1 DEF JournalStatus
  <2>3. journal[c].attempts # <<>>
    BY <2>2 DEF CaseStatus, Statuses
  <2>4. /\ LastOf(journal[c]) \in Attempts /\ LastOf(journal[c]).number = Count(journal[c])
        /\ Count(journal[c]) \in Entries(journal, c)
    BY <2>3, LastFacts
  <2> DEFINE last == LastOf(journal[c])
             id == <<c, last.number>>
  <2>5. last.status = "succeeded"
    BY <2>2, <2>3, <2>4 DEF CaseStatus, Attempts
  <2>6. outcome[id] = "succeeded"
    BY <2>4, <2>5 DEF IInv, OutcomeInv, RecordedIsReal, LastOf, Known
  <2>7. AuditsNow(c, last, FALSE)
    BY <2>1, <2>3, <2>5 DEF Changed, Settled, CaseStatus, Known
  <2>8. last.receipt # None
    BY <2>4, <2>5 DEF IInv, JournalInv, ValidJournal, ValidCase, ValidAttempt, LastOf, Entries
  <2> HIDE DEF last
  <2>9. Audits(last, receipts[id], contexts[id], deliveries[id], FALSE)
    BY <2>7 DEF AuditsNow
  <2> HIDE DEF id
  <2>10. /\ Readable(receipts[id])
         /\ Unchanged(last.receipt, Found(last, receipts[id], contexts[id], deliveries[id]).receipt)
         /\ receipts[id].status = "succeeded" =>
              Readable(deliveries[id]) /\ deliveries[id].receipt = receipts[id]
    BY <2>9 DEF Audits
  <2>11. Found(last, receipts[id], contexts[id], deliveries[id]).receipt = receipts[id]
    BY <2>4 DEF Found, Attempts, last
  <2>12. last.receipt = receipts[id]
    BY <2>8, <2>10, <2>11 DEF Unchanged
  <2>13. id \in AttemptIds
    BY <2>3, <2>4, LastFacts DEF id, last
  <2>14. receipts[id].status = "succeeded"
    BY <2>6, <2>10, <2>13 DEF IInv, OutcomeInv
  <2> QED BY <2>6, <2>10, <2>12, <2>14 DEF id, last
<1> QED BY <1>1, Invariance, PTL

-----------------------------------------------------------------------------
(* Beyond single attempts: what was saved is final, an outcome in doubt blocks *)
(* the batch, inspections that race with writers tell the truth, and Batch     *)
(* implements BatchPromise.  Every step does at most one thing to the journal: *)
(* it enters an attempt, settles one or questions one.  The theorems follow    *)
(* from that and from SafeInv.                                                 *)

-----------------------------------------------------------------------------
(* What a step does to the journal *)

Aside == <<skill, frozen, receipts, contexts, deliveries, runs, outcome, view, tampers>>

\* A process enters the next attempt of the case it is at, in its copy.
Enters(p) ==
  LET c == cursor[p] IN
  /\ At(p, "execute") /\ c \in Cases
  /\ Count(mem[p][c]) < MaxAttempts
  /\ {receipts[<<c, Count(mem[p][c]) + 1>>], contexts[<<c, Count(mem[p][c]) + 1>>],
      deliveries[<<c, Count(mem[p][c]) + 1>>]} = {None}
  /\ journal' = [mem[p] EXCEPT ![c] =
                   [mem[p][c] EXCEPT !.attempts = Append(@, NewAttempt(mem[p][c]))]]
  /\ ValidJournal(journal') /\ mem' = [mem EXCEPT ![p] = journal']
  /\ pc' = [pc EXCEPT ![p] = "verify"] /\ cursor' = [cursor EXCEPT ![p] = c]
  /\ UNCHANGED <<lock, job, held>>
  /\ UNCHANGED Aside

\* The latest attempt of a case gets the outcome its files state, after an audit.
Settles(c) ==
  /\ journal[c].attempts # <<>> /\ InDoubt(c)
  /\ AuditsNow(c, LastOf(journal[c]), TRUE)
  /\ journal' = [journal EXCEPT ![c] = WithLast(@, FoundNow(c, LastOf(journal[c])))]
  /\ ValidJournal(journal')
  /\ UNCHANGED Aside

\* The latest attempt of a case becomes unconfirmed: its files do not audit.
Questions(c) ==
  /\ journal[c].attempts # <<>> /\ InDoubt(c)
  /\ ~AuditsNow(c, LastOf(journal[c]), TRUE)
  /\ journal' = [journal EXCEPT ![c] =
                   WithLast(@, [LastOf(journal[c]) EXCEPT !.status = "unconfirmed"])]
  /\ ValidJournal(journal')
  /\ UNCHANGED Aside

\* The process at an attempt is at a case in doubt.
LEMMA AttemptInDoubt ==
  ASSUME IInv, NEW p \in Procs, pc[p] \in InAttempt
  PROVE  /\ cursor[p] \in Cases /\ mem[p] = journal
         /\ journal[cursor[p]].attempts # <<>> /\ InDoubt(cursor[p])
<1>1. /\ cursor[p] \in Cases /\ mem[p] = journal
      /\ journal[cursor[p]].attempts # <<>> /\ LastOf(journal[cursor[p]]).status = "running"
  BY AttemptFacts
<1> QED BY <1>1 DEF InDoubt, CaseStatus, Unknown

LEMMA UnconfirmQuestions ==
  ASSUME IInv, NEW p \in Procs, pc[p] \notin {"idle", "load", "execute"}, cursor[p] \in Cases,
         Current(p).attempts # <<>>, InDoubt(cursor[p]),
         ~AuditsNow(cursor[p], LastOf(Current(p)), TRUE), Unconfirm(p)
  PROVE  Questions(cursor[p])
<1>1. mem[p] = journal
  BY HolderFacts
<1> QED BY <1>1 DEF Questions, Unconfirm, Current, Aside, evidence, Return

LEMMA SaveSettles ==
  ASSUME IInv, NEW p \in Procs, pc[p] \notin {"idle", "load", "execute"}, cursor[p] \in Cases,
         Current(p).attempts # <<>>, InDoubt(cursor[p]),
         AuditsNow(cursor[p], LastOf(Current(p)), TRUE),
         SaveLast(p, FoundNow(cursor[p], LastOf(Current(p)))),
         UNCHANGED <<skill, frozen, evidence, history, view>>
  PROVE  Settles(cursor[p])
<1>1. mem[p] = journal
  BY HolderFacts
<1> QED BY <1>1 DEF Settles, SaveLast, Save, Current, Aside, evidence, history

\* Each action does to the journal what its code promises: nothing, or one of the three.
LEMMA JournalStep ==
  ASSUME IInv, DoubtInv, [Next]_vars
  PROVE  \/ UNCHANGED journal
         \/ \E p \in Procs : Enters(p)
         \/ \E c \in Cases : Settles(c) \/ Questions(c)
<1> DEFINE Goal == \/ UNCHANGED journal
                   \/ \E p \in Procs : Enters(p)
                   \/ \E c \in Cases : Settles(c) \/ Questions(c)
<1>1. CASE UNCHANGED vars
  BY <1>1 DEF vars, disk
<1>2. ASSUME NEW p \in Procs, NEW j \in Jobs, Begin(p, j) PROVE Goal
  BY <1>2 DEF Begin, disk
<1>3. ASSUME NEW p \in Procs, Busy(p) \/ Interrupt(p) \/ Stop(p) PROVE Goal
  BY <1>3 DEF Busy, Interrupt, Stop, disk
<1>4. ASSUME NEW p \in Procs, Advance(p) PROVE Goal
  <2>1. CASE Load(p) \/ Reconciled(p) \/ NextCase(p) \/ Choose(p) \/ Review(p) \/ TakeInterrupt(p)
    BY <2>1 DEF Load, Reconciled, NextCase, Choose, Review, TakeInterrupt, disk
  <2>2. CASE Snapshot(p) \/ StartVerification(p) \/ FinishVerification(p) \/ LoseVerification(p)
    BY <2>2 DEF Snapshot, StartVerification, FinishVerification, LoseVerification, disk
  <2>3. CASE Deliver(p) \/ WriteReceipt(p) \/ WriteContext(p)
    BY <2>3 DEF Deliver, WriteReceipt, WriteContext
  <2>4. CASE Reconcile(p)
    <3>1. pc[p] = "reconcile" /\ pc[p] \notin {"idle", "load", "execute"} /\ cursor[p] \in Cases
      BY <2>4 DEF Reconcile, At
    <3>2. mem[p] = journal
      BY <3>1, HolderFacts
    <3>3. CASE CheckOutcome(p) \/ SkipPending(p)
      BY <3>3 DEF CheckOutcome, SkipPending, disk
    <3>4. CASE Recover(p)
      <4>1. InDoubt(cursor[p]) /\ Current(p).attempts # <<>>
        BY <3>2, <3>4 DEF Recover, InDoubt, Current, CaseStatus, Unknown
      <4>2. UNCHANGED <<skill, frozen, evidence, history, view>>
        BY <3>4 DEF Recover, Proceed
      <4> QED BY <3>1, <3>4, <4>1, <4>2, SaveSettles DEF Recover
    <3>5. CASE GiveUp(p)
      <4>1. InDoubt(cursor[p]) /\ Current(p).attempts # <<>>
        BY <3>2, <3>5 DEF GiveUp, InDoubt, Current, CaseStatus, Unknown
      <4> QED BY <3>1, <3>5, <4>1, UnconfirmQuestions DEF GiveUp
    <3> QED BY <2>4, <3>3, <3>4, <3>5 DEF Reconcile
  <2>5. CASE Record(p)
    <3>1. pc[p] = "record" /\ pc[p] \in InAttempt /\ pc[p] \notin {"idle", "load", "execute"}
      BY <2>5 DEF Record, At, InAttempt
    <3>2. /\ cursor[p] \in Cases /\ mem[p] = journal /\ Current(p).attempts # <<>>
          /\ InDoubt(cursor[p])
      BY <3>1, AttemptInDoubt DEF Current
    <3>3. CASE AuditsNow(cursor[p], LastOf(Current(p)), TRUE)
      <4>1. UNCHANGED <<skill, frozen, evidence, history, view>>
        BY <2>5, <3>3 DEF Record, Proceed
      <4>2. SaveLast(p, FoundNow(cursor[p], LastOf(Current(p))))
        BY <2>5, <3>3 DEF Record
      <4> QED BY <3>1, <3>2, <3>3, <4>1, <4>2, SaveSettles
    <3>4. CASE ~AuditsNow(cursor[p], LastOf(Current(p)), TRUE)
      BY <2>5, <3>4 DEF Record
    <3> QED BY <3>3, <3>4
  <2>6. CASE Doubt(p)
    <3>1. pc[p] = "doubt" /\ pc[p] \in InAttempt /\ pc[p] \notin {"idle", "load", "execute"}
      BY <2>6 DEF Doubt, At, InAttempt
    <3>2. /\ cursor[p] \in Cases /\ mem[p] = journal /\ journal[cursor[p]].attempts # <<>>
          /\ Current(p).attempts # <<>> /\ InDoubt(cursor[p])
      BY <3>1, AttemptInDoubt DEF Current
    <3>3. receipts[CurrentId(p)] = None
      BY <3>1 DEF DoubtInv
    <3>4. CurrentId(p) = <<cursor[p], LastOf(Current(p)).number>>
      BY <3>2, LastFacts DEF CurrentId, Current
    <3>5. ~AuditsNow(cursor[p], LastOf(Current(p)), TRUE)
      BY <3>3, <3>4 DEF AuditsNow, Audits, Readable
    <3> QED BY <2>6, <3>1, <3>2, <3>5, UnconfirmQuestions DEF Doubt
  <2>7. CASE Execute(p)
    <3>1. pc[p] = "execute" /\ cursor[p] \in Cases /\ mem[p] \in Journals
      BY <2>7, HolderFacts DEF Execute, At, IInv, ControlInv
    <3> DEFINE c == cursor[p]
               case == mem[p][c]
               id == <<c, Count(case) + 1>>
               more == [case EXCEPT !.attempts = Append(@, NewAttempt(case))]
    <3>2. CASE /\ Count(case) < MaxAttempts
               /\ {receipts[id], contexts[id], deliveries[id]} = {None}
               /\ Save(p, [mem[p] EXCEPT ![c].attempts = Append(@, NewAttempt(case))])
               /\ Proceed(p, "verify", c)
               /\ UNCHANGED <<held, flag, token, history>>
      <4>1. [mem[p] EXCEPT ![c].attempts = Append(@, NewAttempt(case))] = [mem[p] EXCEPT ![c] = more]
        BY <3>1 DEF Journals
      <4>2. /\ journal' = [mem[p] EXCEPT ![c] = more] /\ ValidJournal(journal')
            /\ mem' = [mem EXCEPT ![p] = journal']
        BY <3>2, <4>1 DEF Save
      <4>3. Enters(p)
        BY <2>7, <3>1, <3>2, <4>2 DEF Execute, Enters, Aside, Proceed, Goto, evidence, history, At
      <4> QED BY <4>3
    <3>3. CASE UNCHANGED journal
      BY <3>3
    <3> QED BY <2>7, <3>2, <3>3 DEF Execute, Current
  <2> QED BY <1>4, <2>1, <2>2, <2>3, <2>4, <2>5, <2>6, <2>7 DEF Advance
<1>5. ASSUME NEW r \in Readers, Inspect(r) PROVE Goal
  BY <1>5 DEF Inspect, InspectOpen, InspectCase, InspectReport, LooksOn, disk
<1>6. CASE Tamper
  BY <1>6 DEF Tamper
<1> QED BY <1>1, <1>2, <1>3, <1>4, <1>5, <1>6 DEF Next

-----------------------------------------------------------------------------
(* What each of the three leaves as it was *)

\* The attempts of a case are numbered, the latest last.
LEMMA CaseFacts ==
  ASSUME IInv, NEW c \in Cases
  PROVE  /\ journal[c] \in CaseStates /\ ValidCase(journal[c])
         /\ Count(journal[c]) \in Nat /\ Entries(journal, c) = 1 .. Count(journal[c])
         /\ journal[c].attempts = <<>> <=> Count(journal[c]) = 0
         /\ \A n \in Entries(journal, c) :
              /\ journal[c].attempts[n] \in Attempts /\ journal[c].attempts[n].number = n
              /\ <<c, n>> \in AttemptIds
<1>1. journal[c] \in CaseStates /\ ValidCase(journal[c])
  BY DEF IInv, TypeOK, Journals, JournalInv, ValidJournal
<1>2. journal[c].attempts \in Seq(Attempts) /\ Count(journal[c]) <= MaxAttempts
  BY <1>1 DEF CaseStates, ValidCase
<1>3. \A n \in DOMAIN journal[c].attempts : journal[c].attempts[n].number = n
  BY <1>1 DEF ValidCase, ValidAttempt
<1> QED BY <1>1, <1>2, <1>3 DEF Count, Entries, AttemptIds, AttemptNumbers

\* Replacing the latest attempt of one case changes nothing else.
LEMMA ReplacedFacts ==
  ASSUME IInv, NEW c \in Cases, journal[c].attempts # <<>>, NEW attempt \in Attempts,
         journal' = [journal EXCEPT ![c] = WithLast(@, attempt)]
  PROVE  /\ \A d \in Cases : /\ Entries(journal', d) = Entries(journal, d)
                             /\ Count(journal'[d]) = Count(journal[d])
                             /\ journal'[d].input = journal[d].input
                             /\ journal'[d].generation = journal[d].generation
         /\ \A d \in Cases \ {c} : journal'[d] = journal[d]
         /\ \A n \in Entries(journal, c) : n # Count(journal[c]) =>
              journal'[c].attempts[n] = journal[c].attempts[n]
         /\ journal'[c].attempts[Count(journal[c])] = attempt
         /\ LastOf(journal'[c]) = attempt
         /\ CaseStatus(journal'[c]) = attempt.status
<1> DEFINE case == journal[c]
           more == WithLast(case, attempt)
<1>1. case \in CaseStates /\ journal \in Journals
  BY CaseFacts DEF IInv, TypeOK
<1>2. /\ more.input = case.input /\ more.generation = case.generation
      /\ Count(more) = Count(case) /\ DOMAIN more.attempts = DOMAIN case.attempts
      /\ more.attempts # <<>> /\ LastOf(more) = attempt
      /\ \A i \in DOMAIN case.attempts : i # Count(case) => more.attempts[i] = case.attempts[i]
  BY <1>1, WithLastCase
<1>3. journal'[c] = more /\ \A d \in Cases \ {c} : journal'[d] = journal[d]
  BY <1>1 DEF Journals
<1>4. more.attempts[Count(case)] = attempt
  BY <1>2 DEF LastOf
<1> HIDE DEF more
<1> QED BY <1>2, <1>3, <1>4 DEF Entries, CaseStatus

\* The latest attempt of a case is replaced.
Replaces(d, attempt) ==
  /\ journal[d].attempts # <<>>
  /\ journal' = [journal EXCEPT ![d] = WithLast(@, attempt)]

\* The same facts, read at any case.
LEMMA ReplacesAt ==
  ASSUME IInv, NEW d \in Cases, NEW attempt \in Attempts, Replaces(d, attempt), NEW c \in Cases
  PROVE  /\ Entries(journal', c) = Entries(journal, c) /\ Count(journal'[c]) = Count(journal[c])
         /\ journal'[c].input = journal[c].input /\ journal'[c].generation = journal[c].generation
         /\ c # d => journal'[c] = journal[c]
         /\ c = d => LastOf(journal'[c]) = attempt /\ CaseStatus(journal'[c]) = attempt.status
         /\ \A n \in Entries(journal, c) :
              journal'[c].attempts[n] =
                IF c = d /\ n = Count(journal[d]) THEN attempt ELSE journal[c].attempts[n]
<1>1. /\ \A e \in Cases : /\ Entries(journal', e) = Entries(journal, e)
                          /\ Count(journal'[e]) = Count(journal[e])
                          /\ journal'[e].input = journal[e].input
                          /\ journal'[e].generation = journal[e].generation
      /\ \A e \in Cases \ {d} : journal'[e] = journal[e]
      /\ \A n \in Entries(journal, d) : n # Count(journal[d]) =>
           journal'[d].attempts[n] = journal[d].attempts[n]
      /\ journal'[d].attempts[Count(journal[d])] = attempt
      /\ LastOf(journal'[d]) = attempt /\ CaseStatus(journal'[d]) = attempt.status
  BY ReplacedFacts DEF Replaces
<1>2. CASE c # d
  <2>1. journal'[c] = journal[c]
    BY <1>1, <1>2
  <2>2. \A n \in Entries(journal, c) : journal'[c].attempts[n] = journal[c].attempts[n]
    BY <2>1
  <2>3. Entries(journal', c) = Entries(journal, c)
    BY <1>1
  <2> QED BY <1>2, <2>1, <2>2, <2>3
<1>3. CASE c = d
  <2>1. \A n \in Entries(journal, d) :
          journal'[d].attempts[n] =
            IF n = Count(journal[d]) THEN attempt ELSE journal[d].attempts[n]
    BY <1>1
  <2> QED BY <1>1, <1>3, <2>1
<1> QED BY <1>2, <1>3

LEMMA ReplacedAt ==
  ASSUME IInv, NEW d \in Cases, journal[d].attempts # <<>>, NEW attempt \in Attempts,
         journal' = [journal EXCEPT ![d] = WithLast(@, attempt)], NEW c \in Cases
  PROVE  /\ Entries(journal', c) = Entries(journal, c) /\ Count(journal'[c]) = Count(journal[c])
         /\ journal'[c].input = journal[c].input /\ journal'[c].generation = journal[c].generation
         /\ c # d => journal'[c] = journal[c]
         /\ c = d => LastOf(journal'[c]) = attempt /\ CaseStatus(journal'[c]) = attempt.status
         /\ \A n \in Entries(journal, c) :
              journal'[c].attempts[n] =
                IF c = d /\ n = Count(journal[d]) THEN attempt ELSE journal[c].attempts[n]
<1>1. Replaces(d, attempt)
  BY DEF Replaces
<1> QED BY <1>1, ReplacesAt

\* What a settled attempt is replaced with.
LEMMA SettledFacts ==
  ASSUME IInv, NEW c \in Cases, Settles(c)
  PROVE  LET found == FoundNow(c, LastOf(journal[c])) IN
         /\ found \in Attempts /\ found.status \in Known
         /\ found.status = outcome[<<c, Count(journal[c])>>]
<1>1. journal[c].attempts # <<>> /\ AuditsNow(c, LastOf(journal[c]), TRUE)
  BY DEF Settles
<1> DEFINE id == <<c, Count(journal[c])>>
           a == LastOf(journal[c])
<1>2. a \in Attempts /\ a.number = Count(journal[c]) /\ id \in AttemptIds
  BY <1>1, LastFacts
<1>3. receipts[id] \in Receipts
  <2>1. receipts[id] \in File(Receipts)
    BY <1>2 DEF IInv, TypeOK
  <2>2. Readable(receipts[id])
    BY <1>1, <1>2 DEF AuditsNow, Audits
  <2> QED BY <2>1, <2>2 DEF File, Readable
<1>4. FoundNow(c, a).status = receipts[id].status
  BY <1>2 DEF FoundNow, Found, StatusOf, Attempts
<1> QED BY <1>1, <1>3, <1>4, FoundNowFacts DEF Receipts

LEMMA QuestionedFacts ==
  ASSUME IInv, NEW c \in Cases, Questions(c)
  PROVE  LET marked == [LastOf(journal[c]) EXCEPT !.status = "unconfirmed"] IN
         marked \in Attempts /\ marked.status = "unconfirmed"
<1>1. LastOf(journal[c]) \in Attempts
  BY LastFacts DEF Questions
<1> QED BY <1>1 DEF Attempts, Statuses, Unknown

\* Entering an attempt adds it to its case, and changes no other attempt.
LEMMA EnteredFacts ==
  ASSUME IInv, NEW p \in Procs, Enters(p)
  PROVE  LET c == cursor[p] IN
         /\ c \in Cases /\ mem[p] \in Journals /\ NewAttempt(mem[p][c]) \in Attempts
         /\ Count(mem[p][c]) = Count(journal[c])
         /\ <<c, Count(journal[c]) + 1>> \in AttemptIds
         /\ \A d \in Cases : /\ Entries(journal, d) \subseteq Entries(journal', d)
                             /\ journal'[d].input = mem[p][d].input
                             /\ journal'[d].generation = mem[p][d].generation
                             /\ \A n \in Entries(journal, d) :
                                  journal'[d].attempts[n] = journal[d].attempts[n]
         /\ \A d \in Cases \ {c} : journal'[d].attempts = journal[d].attempts
         /\ Count(journal'[c]) = Count(journal[c]) + 1
         /\ Entries(journal', c) = 1 .. Count(journal[c]) + 1
         /\ Entries(journal, c) = 1 .. Count(journal[c])
         /\ journal'[c].attempts[Count(journal[c]) + 1] = NewAttempt(mem[p][c])
         /\ LastOf(journal'[c]) = NewAttempt(mem[p][c])
         /\ CaseStatus(journal'[c]) = "running"
<1> DEFINE c == cursor[p]
           case == mem[p][c]
           attempt == NewAttempt(case)
           more == [case EXCEPT !.attempts = Append(@, attempt)]
<1>1. /\ c \in Cases /\ pc[p] = "execute" /\ Count(case) < MaxAttempts
      /\ journal' = [mem[p] EXCEPT ![c] = more]
  BY DEF Enters, At
<1>2. /\ mem[p] \in Journals /\ case \in CaseStates
      /\ \A d \in Cases : mem[p][d].attempts = journal[d].attempts
  BY <1>1, HolderFacts
<1>3. Count(case) \in Nat /\ Count(case) + 1 \in AttemptNumbers
  BY <1>1, <1>2 DEF Count, CaseStates, AttemptNumbers
<1>4. attempt \in Attempts /\ attempt.status = "running"
  BY <1>2, <1>3 DEF NewAttempt, Attempts, CaseStates, Statuses, Unknown
<1>5. case.attempts = journal[c].attempts /\ Count(case) = Count(journal[c])
  BY <1>1, <1>2 DEF Count
<1> HIDE DEF attempt
<1>6. /\ more.input = case.input /\ more.generation = case.generation
      /\ Count(more) = Count(case) + 1
      /\ DOMAIN more.attempts = 1 .. Count(case) + 1 /\ DOMAIN case.attempts = 1 .. Count(case)
      /\ more.attempts # <<>> /\ LastOf(more) = attempt
      /\ \A i \in 1 .. Count(case) : more.attempts[i] = case.attempts[i]
  BY <1>2, <1>4, AppendCase
<1> HIDE DEF more
<1>7. journal'[c] = more /\ \A d \in Cases \ {c} : journal'[d] = mem[p][d]
  BY <1>1, <1>2 DEF Journals
<1>8. more.attempts[Count(case) + 1] = attempt
  BY <1>6 DEF LastOf
<1>9. ASSUME NEW d \in Cases
      PROVE  /\ Entries(journal, d) \subseteq Entries(journal', d)
             /\ journal'[d].input = mem[p][d].input
             /\ journal'[d].generation = mem[p][d].generation
             /\ \A n \in Entries(journal, d) : journal'[d].attempts[n] = journal[d].attempts[n]
  <2>1. CASE d # c
    BY <1>2, <1>7, <2>1 DEF Entries
  <2>2. CASE d = c
    <3>1. Entries(journal, c) = 1 .. Count(case) /\ Entries(journal', c) = 1 .. Count(case) + 1
      BY <1>5, <1>6, <1>7 DEF Entries
    <3> HIDE DEF c, case
    <3> QED BY <1>3, <1>5, <1>6, <1>7, <2>2, <3>1 DEF case
  <2> QED BY <2>1, <2>2
<1>10. CaseStatus(journal'[c]) = "running" /\ LastOf(journal'[c]) = attempt
  BY <1>4, <1>6, <1>7 DEF CaseStatus
<1>11. <<c, Count(journal[c]) + 1>> \in AttemptIds
  BY <1>1, <1>3, <1>5 DEF AttemptIds
<1>12. /\ Entries(journal', c) = 1 .. Count(journal[c]) + 1
       /\ Entries(journal, c) = 1 .. Count(journal[c])
  BY <1>5, <1>6, <1>7 DEF Entries
<1>13. \A d \in Cases \ {c} : journal'[d].attempts = journal[d].attempts
  BY <1>2, <1>7
<1>14. /\ Count(journal'[c]) = Count(journal[c]) + 1
       /\ journal'[c].attempts[Count(journal[c]) + 1] = attempt
  BY <1>5, <1>6, <1>7, <1>8
<1> QED BY <1>1, <1>2, <1>4, <1>5, <1>9, <1>10, <1>11, <1>12, <1>13, <1>14 DEF attempt

\* No attempt disappears from the journal, and no known outcome is rewritten.
LEMMA JournalKeeps ==
  ASSUME IInv, DoubtInv, [Next]_vars, NEW c \in Cases, NEW n \in Entries(journal, c)
  PROVE  /\ n \in Entries(journal', c)
         /\ journal[c].attempts[n].status \in Known =>
              journal'[c].attempts[n] = journal[c].attempts[n]
<1>1. CASE UNCHANGED journal
  BY <1>1 DEF Entries
<1>2. CASE \E p \in Procs : Enters(p)
  BY <1>2, EnteredFacts
<1>3. ASSUME NEW d \in Cases, journal[d].attempts # <<>>, InDoubt(d), NEW attempt \in Attempts,
             journal' = [journal EXCEPT ![d] = WithLast(@, attempt)]
      PROVE  /\ n \in Entries(journal', c)
             /\ journal[c].attempts[n].status \in Known =>
                  journal'[c].attempts[n] = journal[c].attempts[n]
  <2>1. LastOf(journal[d]).status \notin Known
    BY <1>3 DEF InDoubt, CaseStatus, Known, Unknown
  <2>2. /\ Entries(journal', c) = Entries(journal, c)
        /\ \A m \in Entries(journal, c) :
             journal'[c].attempts[m] =
               IF c = d /\ m = Count(journal[d]) THEN attempt ELSE journal[c].attempts[m]
    BY <1>3, ReplacedAt
  <2>3. c = d /\ n = Count(journal[d]) => journal[c].attempts[n].status \notin Known
    BY <2>1 DEF LastOf
  <2> QED BY <2>2, <2>3
<1>4. CASE \E d \in Cases : Settles(d)
  BY <1>3, <1>4, SettledFacts DEF Settles
<1>5. CASE \E d \in Cases : Questions(d)
  BY <1>3, <1>5, QuestionedFacts DEF Questions
<1> QED BY <1>1, <1>2, <1>4, <1>5, JournalStep

-----------------------------------------------------------------------------
(* What a step does to the files *)

\* A process adds a file of evidence of the attempt it works on.
Writes(p) ==
  /\ pc[p] \in HasReceipt
  /\ \A id \in AttemptIds \ {CurrentId(p)} :
       receipts'[id] = receipts[id] /\ contexts'[id] = contexts[id] /\ deliveries'[id] = deliveries[id]
  /\ LET id == CurrentId(p) IN
       /\ receipts[id] \in {None, receipts'[id]}
       /\ contexts[id] \in {None, contexts'[id]}
       /\ deliveries[id] \in {None, deliveries'[id]}
  /\ UNCHANGED <<journal, skill, frozen, view>>

LEMMA EvidenceStep ==
  ASSUME IInv, [Next]_vars, tampers' = tampers
  PROVE  UNCHANGED evidence \/ \E p \in Procs : Writes(p)
<1> DEFINE Goal == UNCHANGED evidence \/ \E p \in Procs : Writes(p)
<1>1. CASE UNCHANGED vars
  BY <1>1 DEF vars, disk, evidence
<1>2. ASSUME NEW p \in Procs, NEW j \in Jobs, Begin(p, j) PROVE Goal
  BY <1>2 DEF Begin, disk, evidence
<1>3. ASSUME NEW p \in Procs, Busy(p) \/ Interrupt(p) \/ Stop(p) PROVE Goal
  BY <1>3 DEF Busy, Interrupt, Stop, disk, evidence
<1>4. ASSUME NEW p \in Procs, Advance(p) PROVE Goal
  <2>1. CASE Load(p) \/ Reconciled(p) \/ NextCase(p) \/ Choose(p) \/ Review(p) \/ TakeInterrupt(p)
    BY <2>1 DEF Load, Reconciled, NextCase, Choose, Review, TakeInterrupt, disk, evidence
  <2>2. CASE Reconcile(p)
    BY <2>2 DEF Reconcile, CheckOutcome, Recover, GiveUp, SkipPending, Unconfirm, disk, evidence
  <2>3. CASE Snapshot(p) \/ Execute(p) \/ Record(p) \/ Doubt(p)
    BY <2>3 DEF Snapshot, Execute, Record, Doubt, Unconfirm
  <2>4. CASE StartVerification(p) \/ FinishVerification(p) \/ LoseVerification(p)
    BY <2>4 DEF StartVerification, FinishVerification, LoseVerification, disk, evidence
  <2>5. CASE Deliver(p)
    <3>1. pc[p] \in HasReceipt /\ CurrentId(p) \in AttemptIds
      BY <2>5, WriterFacts DEF Deliver, At, HasReceipt
    <3> QED BY <2>5, <3>1, AttemptTypes DEF Deliver, Writes, Proceed
  <2>6. CASE WriteReceipt(p)
    <3>1. pc[p] \in HasReceipt /\ CurrentId(p) \in AttemptIds
      BY <2>6, WriterFacts DEF WriteReceipt, At, HasReceipt
    <3>2. CASE UNCHANGED receipts
      BY <2>6, <3>2 DEF WriteReceipt, evidence
    <3>3. CASE /\ receipts[CurrentId(p)] = None
               /\ receipts' = [receipts EXCEPT ![CurrentId(p)] = held[p]]
               /\ Proceed(p, "context", cursor[p])
      BY <2>6, <3>1, <3>3, AttemptTypes DEF WriteReceipt, Writes, Proceed
    <3> QED BY <2>6, <3>2, <3>3 DEF WriteReceipt
  <2>7. CASE WriteContext(p)
    <3>1. pc[p] \in HasReceipt /\ CurrentId(p) \in AttemptIds
      BY <2>7, WriterFacts DEF WriteContext, At, HasReceipt
    <3> DEFINE context == [receipt |-> held[p], input |-> held[p].input]
    <3>2. CASE UNCHANGED contexts
      BY <2>7, <3>2 DEF WriteContext, evidence
    <3>3. CASE /\ contexts[CurrentId(p)] = None
               /\ contexts' = [contexts EXCEPT ![CurrentId(p)] = context]
               /\ Proceed(p, "record", cursor[p])
      <4> HIDE DEF context
      <4> QED BY <2>7, <3>1, <3>3, AttemptTypes DEF WriteContext, Writes, Proceed
    <3> QED BY <2>7, <3>2, <3>3 DEF WriteContext
  <2> QED BY <1>4, <2>1, <2>2, <2>3, <2>4, <2>5, <2>6, <2>7 DEF Advance
<1>5. ASSUME NEW r \in Readers, Inspect(r) PROVE Goal
  BY <1>5 DEF Inspect, InspectOpen, InspectCase, InspectReport, LooksOn, disk, evidence
<1>6. CASE Tamper
  BY <1>6 DEF Tamper, IInv, TypeOK
<1> QED BY <1>1, <1>2, <1>3, <1>4, <1>5, <1>6 DEF Next

\* No step of the program replaces or removes a file of evidence.
LEMMA EvidenceStays ==
  ASSUME IInv, [Next]_vars, tampers' = tampers, NEW id \in AttemptIds
  PROVE  /\ receipts[id] # None => receipts'[id] = receipts[id]
         /\ contexts[id] # None => contexts'[id] = contexts[id]
         /\ deliveries[id] # None => deliveries'[id] = deliveries[id]
<1>1. CASE UNCHANGED evidence
  BY <1>1 DEF evidence
<1>2. CASE \E p \in Procs : Writes(p)
  <2>1. PICK p \in Procs : Writes(p)
    BY <1>2
  <2>2. CASE id = CurrentId(p)
    BY <2>1, <2>2 DEF Writes
  <2>3. CASE id # CurrentId(p)
    BY <2>1, <2>3 DEF Writes
  <2> QED BY <2>2, <2>3
<1> QED BY <1>1, <1>2, EvidenceStep

\* The files of an attempt that is not running do not change at all.
LEMMA EvidenceOfTheEnded ==
  ASSUME IInv, [Next]_vars, tampers' = tampers, NEW c \in Cases, NEW n \in Entries(journal, c),
         journal[c].attempts[n].status # "running"
  PROVE  /\ receipts'[<<c, n>>] = receipts[<<c, n>>]
         /\ contexts'[<<c, n>>] = contexts[<<c, n>>]
         /\ deliveries'[<<c, n>>] = deliveries[<<c, n>>]
<1>1. <<c, n>> \in AttemptIds
  BY CaseFacts
<1>2. ASSUME NEW p \in Procs, Writes(p) PROVE <<c, n>> # CurrentId(p)
  <2>1. pc[p] \in InAttempt
    BY <1>2 DEF Writes, HasReceipt, InAttempt
  <2>2. /\ CurrentId(p) = <<cursor[p], Count(journal[cursor[p]])>>
        /\ LastOf(journal[cursor[p]]).status = "running"
    BY <2>1, AttemptFacts
  <2> QED BY <2>2 DEF LastOf
<1>3. CASE UNCHANGED evidence
  BY <1>3 DEF evidence
<1>4. CASE \E p \in Procs : Writes(p)
  BY <1>1, <1>2, <1>4 DEF Writes
<1> QED BY <1>3, <1>4, EvidenceStep

\* No step of the program changes a frozen snapshot.
LEMMA SnapshotsStay ==
  ASSUME IInv, [Next]_vars, tampers' = tampers
  PROVE  /\ skill' = skill
         /\ \A k \in Cases \X Generations : frozen[k] # None => frozen'[k] = frozen[k]
<1> DEFINE Goal == /\ skill' = skill
                   /\ \A k \in Cases \X Generations : frozen[k] # None => frozen'[k] = frozen[k]
<1>1. CASE UNCHANGED vars
  BY <1>1 DEF vars, disk
<1>2. ASSUME NEW p \in Procs, NEW j \in Jobs, Begin(p, j) PROVE Goal
  BY <1>2 DEF Begin, disk
<1>3. ASSUME NEW p \in Procs, Busy(p) \/ Interrupt(p) \/ Stop(p) PROVE Goal
  BY <1>3 DEF Busy, Interrupt, Stop, disk
<1>4. ASSUME NEW p \in Procs, Advance(p) PROVE Goal
  <2>1. CASE Load(p) \/ Reconciled(p) \/ NextCase(p) \/ Choose(p) \/ Review(p) \/ TakeInterrupt(p)
    BY <2>1 DEF Load, Reconciled, NextCase, Choose, Review, TakeInterrupt, disk
  <2>2. CASE Reconcile(p)
    BY <2>2 DEF Reconcile, CheckOutcome, Recover, GiveUp, SkipPending, Unconfirm, disk
  <2>3. CASE Execute(p) \/ Record(p) \/ Doubt(p)
    BY <2>3 DEF Execute, Record, Doubt, Unconfirm
  <2>4. CASE StartVerification(p) \/ FinishVerification(p) \/ LoseVerification(p)
    BY <2>4 DEF StartVerification, FinishVerification, LoseVerification, disk
  <2>5. CASE Deliver(p) \/ WriteReceipt(p) \/ WriteContext(p)
    BY <2>5 DEF Deliver, WriteReceipt, WriteContext
  <2>6. CASE Snapshot(p)
    <3>1. frozen \in [Cases \X Generations -> Digests \cup {None}]
      BY DEF IInv, TypeOK
    <3> DEFINE k == <<cursor[p], Count(Current(p)) + 1>>
    <3>2. \/ UNCHANGED frozen
          \/ /\ frozen[k] \in {None, job[p].input}
             /\ frozen' = [frozen EXCEPT ![k] = job[p].input]
      BY <2>6 DEF Snapshot, Reusable
    <3>3. skill' = skill
      BY <2>6 DEF Snapshot
    <3> HIDE DEF k
    <3> QED BY <3>1, <3>2, <3>3
  <2> QED BY <1>4, <2>1, <2>2, <2>3, <2>4, <2>5, <2>6 DEF Advance
<1>5. ASSUME NEW r \in Readers, Inspect(r) PROVE Goal
  BY <1>5 DEF Inspect, InspectOpen, InspectCase, InspectReport, LooksOn, disk
<1>6. CASE Tamper
  BY <1>6 DEF Tamper, IInv, TypeOK
<1> QED BY <1>1, <1>2, <1>3, <1>4, <1>5, <1>6 DEF Next

-----------------------------------------------------------------------------
(* Which cases are in doubt *)

LEMMA DoubtEnd ==
  ASSUME IInv, DoubtInv, NEW p \in Procs, pc[p] # "idle", NEW code \in {None, 0, 2, 3, 5},
         Return(p, code)
  PROVE  DoubtInv'
<1>1. \A q \in Procs : pc'[q] = "idle"
  BY OthersIdle DEF Return, Goto, IInv, TypeOK
<1> QED BY <1>1 DEF DoubtInv, Return, InAttempt, HasReceipt

LEMMA DoubtAside ==
  ASSUME IInv, DoubtInv, UNCHANGED <<journal, pc, cursor, mem, runs, outcome>>,
         \A id \in AttemptIds : receipts[id] = None => receipts'[id] = None
  PROVE  DoubtInv'
<1>1. \A q \in Procs : pc[q] = "doubt" => CurrentId(q) \in AttemptIds
  BY AttemptFacts DEF InAttempt
<1>2. \A q \in Procs : CurrentId(q)' = CurrentId(q)
  BY DEF CurrentId, Current
<1> QED BY <1>1, <1>2 DEF DoubtInv, InDoubt

\* A step of a process to a label outside an attempt.
LEMMA DoubtMove ==
  ASSUME IInv, DoubtInv, NEW p \in Procs, pc[p] # "idle",
         NEW label \in {"reconcile", "next", "choose", "snapshot", "execute", "review", "stopped"},
         NEW case \in 1 .. NumCases + 1, Proceed(p, label, case), UNCHANGED <<runs, outcome>>,
         label = "reconcile" => \A c \in Cases : CaseStatus(journal'[c]) \in Unknown => c >= case,
         label \in {"next", "choose", "snapshot", "execute"} =>
           \A c \in Cases : CaseStatus(journal'[c]) \notin Unknown,
         label \in {"snapshot", "execute"} => CaseStatus(journal'[case]) # "succeeded"
  PROVE  DoubtInv'
<1>1. /\ pc'[p] = label /\ cursor'[p] = case
      /\ \A q \in Procs : q # p => pc'[q] = "idle"
  BY OthersIdle DEF Proceed, Goto, IInv, TypeOK
<1>2. "idle" \notin InAttempt \cup HasReceipt /\ label \notin InAttempt \cup HasReceipt
  BY DEF InAttempt, HasReceipt
<1> QED BY <1>1, <1>2 DEF DoubtInv, InDoubt

\* A step of a process within the attempt it makes.
LEMMA DoubtAttempt ==
  ASSUME IInv, DoubtInv, NEW p \in Procs, pc[p] \in InAttempt, NEW label \in InAttempt \ {"verify"},
         Proceed(p, label, cursor[p]), UNCHANGED <<journal, mem>>,
         \A id \in AttemptIds \ {CurrentId(p)} :
           runs'[id] = runs[id] /\ outcome'[id] = outcome[id],
         label \in {"running"} \cup HasReceipt => runs'[CurrentId(p)] # 0,
         outcome'[CurrentId(p)] \in Known => runs'[CurrentId(p)] # 0,
         label = "doubt" => receipts'[CurrentId(p)] = None
  PROVE  DoubtInv'
<1>1. pc[p] # "idle"
  BY DEF InAttempt
<1>2. /\ pc'[p] = label /\ cursor'[p] = cursor[p]
      /\ \A q \in Procs : q # p => pc'[q] = "idle"
  BY <1>1, OthersIdle DEF Proceed, Goto, IInv, TypeOK
<1>3. "idle" \notin InAttempt \cup HasReceipt \cup {"running"}
        /\ label \notin {"reconcile", "next", "choose", "snapshot", "execute"}
  BY DEF InAttempt, HasReceipt
<1>4. CurrentId(p)' = CurrentId(p)
  BY <1>2 DEF CurrentId, Current
<1>5. \A c \in Cases : InDoubt(c)' => c = cursor'[p]
  BY <1>2 DEF DoubtInv, InDoubt
<1>6. \A id \in AttemptIds : outcome'[id] \in Known => runs'[id] # 0
  BY DEF DoubtInv
<1> QED BY <1>2, <1>3, <1>4, <1>5, <1>6 DEF DoubtInv

\* After a settled attempt its case is not in doubt, and the others are as before.
LEMMA SettledDoubt ==
  ASSUME IInv, NEW c \in Cases, Settles(c), NEW d \in Cases, CaseStatus(journal'[d]) \in Unknown
  PROVE  d # c /\ InDoubt(d)
<1> DEFINE found == FoundNow(c, LastOf(journal[c]))
<1>1. found \in Attempts /\ found.status \in Known
  BY SettledFacts
<1>2. journal[c].attempts # <<>> /\ journal' = [journal EXCEPT ![c] = WithLast(@, found)]
  BY DEF Settles
<1> HIDE DEF found
<1>3. CaseStatus(journal'[c]) = found.status /\ \A e \in Cases \ {c} : journal'[e] = journal[e]
  BY <1>1, <1>2, ReplacedFacts
<1>4. Known \cap Unknown = {}
  BY DEF Known, Unknown
<1>5. d # c
  BY <1>1, <1>3, <1>4
<1> QED BY <1>3, <1>5 DEF InDoubt

LEMMA DoubtReconcile ==
  ASSUME IInv, DoubtInv, NEW p \in Procs, Reconcile(p)
  PROVE  DoubtInv'
<1>1. /\ pc[p] = "reconcile" /\ pc[p] # "idle" /\ pc[p] \notin {"idle", "load", "execute"}
      /\ cursor[p] \in Cases /\ cursor[p] + 1 \in 1 .. NumCases + 1
      /\ \A c \in Cases : InDoubt(c) => c >= cursor[p]
  BY DEF Reconcile, At, Cases, DoubtInv
<1>2. mem[p] = journal
  BY <1>1, HolderFacts
<1>3. \A c \in Cases : c >= cursor[p] /\ c # cursor[p] => c >= cursor[p] + 1
  BY <1>1 DEF Cases
<1>4. ASSUME Proceed(p, "reconcile", cursor[p] + 1), UNCHANGED <<journal, history>>,
             ~InDoubt(cursor[p])
      PROVE  DoubtInv'
  <2>1. \A c \in Cases : CaseStatus(journal'[c]) \in Unknown => c >= cursor[p] + 1
    BY <1>1, <1>3, <1>4 DEF InDoubt
  <2> QED BY <1>1, <1>4, <2>1, DoubtMove DEF history
<1>5. CASE CheckOutcome(p)
  <2>1. ~InDoubt(cursor[p])
    BY <1>2, <1>5 DEF CheckOutcome, Settled, Current, InDoubt, Known, Unknown
  <2> QED BY <1>1, <1>4, <1>5, <2>1, DoubtEnd DEF CheckOutcome, disk
<1>6. CASE SkipPending(p)
  <2>1. ~InDoubt(cursor[p])
    BY <1>2, <1>6 DEF SkipPending, Current, InDoubt, CaseStatus, Unknown
  <2> QED BY <1>4, <1>6, <2>1 DEF SkipPending, disk
<1>7. CASE GiveUp(p)
  BY <1>1, <1>7, DoubtEnd DEF GiveUp, Unconfirm
<1>8. CASE Recover(p)
  <2>1. InDoubt(cursor[p]) /\ Current(p).attempts # <<>>
    BY <1>2, <1>8 DEF Recover, InDoubt, Current, CaseStatus, Unknown
  <2>2. UNCHANGED <<skill, frozen, evidence, history, view>>
    BY <1>8 DEF Recover, Proceed
  <2>3. Settles(cursor[p])
    BY <1>1, <1>8, <2>1, <2>2, SaveSettles DEF Recover
  <2>4. \A c \in Cases : CaseStatus(journal'[c]) \in Unknown => c >= cursor[p] + 1
    BY <1>1, <1>3, <2>3, SettledDoubt
  <2>5. Proceed(p, "reconcile", cursor[p] + 1) /\ UNCHANGED <<runs, outcome>>
    BY <1>8 DEF Recover, history
  <2> QED BY <1>1, <2>4, <2>5, DoubtMove
<1> QED BY <1>5, <1>6, <1>7, <1>8 DEF Reconcile

LEMMA DoubtRecord ==
  ASSUME IInv, DoubtInv, NEW p \in Procs, Record(p)
  PROVE  DoubtInv'
<1>1. /\ pc[p] = "record" /\ pc[p] \in InAttempt /\ pc[p] \notin {"idle", "load", "execute"}
      /\ pc[p] # "idle"
  BY DEF Record, At, InAttempt
<1>2. /\ cursor[p] \in Cases /\ mem[p] = journal /\ Current(p).attempts # <<>>
      /\ InDoubt(cursor[p]) /\ \A c \in Cases : InDoubt(c) => c = cursor[p]
  BY <1>1, AttemptInDoubt DEF Current, DoubtInv
<1>3. CASE AuditsNow(cursor[p], LastOf(Current(p)), TRUE)
  <2>1. /\ UNCHANGED <<skill, frozen, evidence, history, view>>
        /\ SaveLast(p, FoundNow(cursor[p], LastOf(Current(p))))
    BY <1>3 DEF Record, Proceed
  <2>2. Settles(cursor[p])
    BY <1>1, <1>2, <1>3, <2>1, SaveSettles
  <2>3. \A c \in Cases : CaseStatus(journal'[c]) \notin Unknown
    BY <1>2, <2>2, SettledDoubt
  <2>4. 1 \in 1 .. NumCases + 1 /\ cursor[p] + 1 \in 1 .. NumCases + 1
    BY <1>2 DEF Cases
  <2>5. PICK label \in {"next", "review", "stopped"}, case \in 1 .. NumCases + 1 :
          Proceed(p, label, case)
    BY <1>3, <2>4 DEF Record
  <2>6. UNCHANGED <<runs, outcome>>
    BY <2>1 DEF history
  <2> QED BY <1>1, <2>3, <2>5, <2>6, DoubtMove
<1>4. CASE ~AuditsNow(cursor[p], LastOf(Current(p)), TRUE)
  BY <1>1, <1>4, DoubtEnd DEF Record
<1> QED BY <1>3, <1>4

LEMMA DoubtChoosing ==
  ASSUME IInv, DoubtInv, NEW p \in Procs,
         Reconciled(p) \/ NextCase(p) \/ Choose(p) \/ Snapshot(p)
  PROVE  DoubtInv'
<1>1. /\ pc[p] # "idle" /\ pc[p] \notin {"idle", "load", "execute"}
      /\ cursor[p] \in 1 .. NumCases + 1 /\ 1 \in 1 .. NumCases + 1
  <2>1. pc[p] \in {"reconcile", "next", "choose", "snapshot"}
    BY DEF Reconciled, NextCase, Choose, Snapshot, At
  <2>2. cursor[p] \in 1 .. NumCases + 1
    BY DEF IInv, TypeOK
  <2> QED BY <2>1, <2>2
<1>2. mem[p] = journal /\ job[p] \in Jobs
  BY <1>1, HolderFacts
<1>3. /\ UNCHANGED journal
      /\ UNCHANGED <<runs, outcome>>
  BY DEF Reconciled, NextCase, Choose, Snapshot, Return, disk, history
<1>4. \A c \in Cases : ~InDoubt(c)
  <2>1. CASE Reconciled(p)
    BY <2>1 DEF Reconciled, At, DoubtInv, Cases
  <2>2. CASE NextCase(p) \/ Choose(p) \/ Snapshot(p)
    BY <2>2 DEF NextCase, Choose, Snapshot, At, DoubtInv
  <2> QED BY <2>1, <2>2
<1>5. \A c \in Cases : CaseStatus(journal'[c]) \notin Unknown /\ CaseStatus(journal'[c]) = CaseStatus(journal[c])
  BY <1>3, <1>4 DEF InDoubt
<1>6. CASE Reconciled(p)
  <2>1. job[p].cmd = "retry" => job[p].case \in 1 .. NumCases + 1
    BY <1>2 DEF Jobs, Cases
  <2>2. PICK label \in {"next", "choose", "review"}, case \in 1 .. NumCases + 1 :
          Proceed(p, label, case)
    <3>1. job[p].cmd \in {"run", "retry", "reconcile"}
      BY <1>2 DEF Jobs
    <3>2. CASE job[p].cmd = "run"
      BY <1>1, <1>6, <3>2 DEF Reconciled
    <3>3. CASE job[p].cmd = "retry"
      BY <1>6, <2>1, <3>3 DEF Reconciled
    <3>4. CASE job[p].cmd = "reconcile"
      BY <1>1, <1>6, <3>4 DEF Reconciled
    <3> QED BY <3>1, <3>2, <3>3, <3>4
  <2> QED BY <1>1, <1>3, <1>5, <2>2, DoubtMove
<1>7. CASE NextCase(p)
  <2>1. CASE Proceed(p, "review", 1) \/ Proceed(p, "stopped", 1)
    BY <1>1, <1>3, <1>5, <2>1, DoubtMove
  <2>2. CASE Proceed(p, "execute", cursor[p]) /\ Current(p).attempts = <<>> /\ cursor[p] # NumCases + 1
    <3>1. CaseStatus(journal'[cursor[p]]) # "succeeded"
      BY <1>2, <1>3, <2>2 DEF Current, CaseStatus
    <3> QED BY <1>1, <1>3, <1>5, <2>2, <3>1, DoubtMove
  <2>3. CASE Proceed(p, "next", cursor[p] + 1) /\ cursor[p] # NumCases + 1
    <3>1. cursor[p] + 1 \in 1 .. NumCases + 1
      BY <1>1, <2>3
    <3> QED BY <1>1, <1>3, <1>5, <2>3, <3>1, DoubtMove
  <2> QED BY <1>7, <2>1, <2>2, <2>3 DEF NextCase
<1>8. CASE Choose(p)
  <2>1. CASE \E code \in {None, 0, 2, 3, 5} : Return(p, code)
    BY <1>1, <2>1, DoubtEnd
  <2>2. CASE /\ CaseStatus(Current(p)) \in {"failed", "cancelled"}
             /\ Proceed(p, IF job[p].input = None THEN "execute" ELSE "snapshot", cursor[p])
    <3>1. PICK label \in {"execute", "snapshot"} : Proceed(p, label, cursor[p])
      BY <2>2
    <3>2. CaseStatus(journal'[cursor[p]]) # "succeeded"
      BY <1>2, <1>3, <2>2 DEF Current
    <3> QED BY <1>1, <1>3, <1>5, <3>1, <3>2, DoubtMove
  <2> QED BY <1>8, <2>1, <2>2 DEF Choose
<1>9. CASE Snapshot(p)
  <2>1. CASE \E code \in {None, 0, 2, 3, 5} : Return(p, code)
    BY <1>1, <2>1, DoubtEnd
  <2>2. CASE Proceed(p, "execute", cursor[p])
    <3>1. CaseStatus(journal'[cursor[p]]) # "succeeded"
      BY <1>3, <1>9 DEF Snapshot, At, DoubtInv
    <3> QED BY <1>1, <1>3, <1>5, <2>2, <3>1, DoubtMove
  <2> QED BY <1>9, <2>1, <2>2 DEF Snapshot
<1> QED BY <1>6, <1>7, <1>8, <1>9

LEMMA DoubtExecute ==
  ASSUME IInv, DoubtInv, NEW p \in Procs, Execute(p)
  PROVE  DoubtInv'
<1>1. pc[p] = "execute" /\ pc[p] # "idle" /\ \A c \in Cases : ~InDoubt(c)
  BY DEF Execute, At, DoubtInv
<1>2. CASE Return(p, 2)
  BY <1>1, <1>2, DoubtEnd
<1>3. CASE ~Return(p, 2)
  <2>1. /\ Enters(p) /\ Proceed(p, "verify", cursor[p])
    <3> DEFINE c == cursor[p]
               case == mem[p][c]
               more == [case EXCEPT !.attempts = Append(@, NewAttempt(case))]
    <3>1. /\ mem[p] \in Journals /\ cursor[p] \in Cases
          /\ Save(p, [mem[p] EXCEPT ![c].attempts = Append(@, NewAttempt(case))])
      BY <1>1, <1>3, HolderFacts DEF Execute, IInv, ControlInv, Current
    <3>2. [mem[p] EXCEPT ![c].attempts = Append(@, NewAttempt(case))] = [mem[p] EXCEPT ![c] = more]
      BY <3>1 DEF Journals
    <3>3. /\ journal' = [mem[p] EXCEPT ![c] = more] /\ ValidJournal(journal')
          /\ mem' = [mem EXCEPT ![p] = journal']
      BY <3>1, <3>2 DEF Save
    <3>4. Proceed(p, "verify", cursor[p])
      BY <1>3 DEF Execute
    <3> QED BY <1>3, <3>1, <3>3, <3>4
            DEF Execute, Enters, Aside, Proceed, Goto, evidence, history, At, Current
  <2>2. /\ pc'[p] = "verify" /\ cursor'[p] = cursor[p]
        /\ \A q \in Procs : q # p => pc'[q] = "idle"
    BY <1>1, <2>1, OthersIdle DEF Proceed, Goto, IInv, TypeOK
  <2>3. \A d \in Cases \ {cursor[p]} : journal'[d].attempts = journal[d].attempts
    BY <2>1, EnteredFacts
  <2>4. \A d \in Cases : InDoubt(d)' => d = cursor'[p]
    BY <1>1, <2>2, <2>3 DEF InDoubt, CaseStatus, LastOf, Count
  <2>5. UNCHANGED <<runs, outcome>>
    BY <2>1 DEF Enters, Aside
  <2>6. "idle" \notin InAttempt \cup HasReceipt \cup {"running"} /\ "verify" \notin HasReceipt
    BY DEF InAttempt, HasReceipt
  <2> QED BY <2>2, <2>4, <2>5, <2>6 DEF DoubtInv
<1> QED BY <1>2, <1>3

\* The steps within an attempt: the work is started before its outcome is known,
\* and an outcome is lost only before a receipt is written.
LEMMA DoubtWithin ==
  ASSUME IInv, DoubtInv, NEW p \in Procs,
         \/ StartVerification(p) \/ FinishVerification(p) \/ LoseVerification(p)
         \/ Deliver(p) \/ WriteReceipt(p) \/ WriteContext(p)
  PROVE  DoubtInv'
<1> DEFINE id == CurrentId(p)
<1>1. pc[p] \in InAttempt /\ pc[p] # "idle"
  BY DEF StartVerification, FinishVerification, LoseVerification, Deliver, WriteReceipt,
         WriteContext, At, InAttempt
<1>2. /\ id \in AttemptIds
      /\ outcome[id] \in Known => runs[id] # 0
  BY <1>1, AttemptFacts DEF DoubtInv
<1>3. pc[p] \in {"running"} \cup HasReceipt => runs[id] # 0
  BY DEF DoubtInv
<1> HIDE DEF id
<1>4. CASE StartVerification(p)
  <2>1. /\ runs' = [runs EXCEPT ![id] = @ + 1] /\ Proceed(p, "running", cursor[p])
        /\ UNCHANGED <<journal, mem, outcome>>
    BY <1>4 DEF StartVerification, disk, id
  <2>2. runs'[id] # 0 /\ \A i \in AttemptIds \ {id} : runs'[i] = runs[i]
    BY <1>2, <2>1, AttemptTypes
  <2>3. "running" \in InAttempt \ {"verify"} /\ "running" # "doubt"
    BY DEF InAttempt
  <2> QED BY <1>1, <2>1, <2>2, <2>3, DoubtAttempt DEF id
<1>5. CASE FinishVerification(p)
  <2>1. PICK status \in Known :
          /\ outcome' = [outcome EXCEPT ![id] = status]
          /\ Proceed(p, IF status = "succeeded" THEN "deliver" ELSE "receipt", cursor[p])
    BY <1>5 DEF FinishVerification, Known, id
  <2>2. PICK label \in {"deliver", "receipt"} : Proceed(p, label, cursor[p])
    BY <2>1
  <2>3. UNCHANGED <<journal, mem, runs>> /\ pc[p] = "running"
    BY <1>5 DEF FinishVerification, disk, At
  <2>4. label \in InAttempt \ {"verify"} /\ label # "doubt"
    BY DEF InAttempt
  <2>5. \A i \in AttemptIds \ {id} : outcome'[i] = outcome[i]
    BY <2>1, AttemptTypes
  <2>6. runs'[id] # 0
    BY <1>3, <2>3
  <2> QED BY <1>1, <2>2, <2>3, <2>4, <2>5, <2>6, DoubtAttempt DEF id
<1>6. CASE LoseVerification(p)
  <2>1. /\ outcome' = [outcome EXCEPT ![id] = "lost"] /\ Proceed(p, "doubt", cursor[p])
        /\ UNCHANGED <<journal, mem, runs, receipts>> /\ pc[p] \in Unwritten
    BY <1>6 DEF LoseVerification, disk, id, Unwritten
  <2>2. outcome'[id] = "lost" /\ \A i \in AttemptIds \ {id} : outcome'[i] = outcome[i]
    BY <1>2, <2>1, AttemptTypes
  <2>3. "doubt" \in InAttempt \ {"verify"} /\ "doubt" \notin {"running"} \cup HasReceipt
          /\ "lost" \notin Known
    BY DEF InAttempt, HasReceipt, Known
  <2>4. receipts'[id] = None
    BY <2>1 DEF IInv, OutcomeInv, id
  <2> QED BY <1>1, <2>1, <2>2, <2>3, <2>4, DoubtAttempt DEF id
<1>7. CASE Deliver(p) \/ WriteReceipt(p) \/ WriteContext(p)
  <2>1. UNCHANGED journal /\ pc[p] \in HasReceipt
    BY <1>7 DEF Deliver, WriteReceipt, WriteContext, At, HasReceipt
  <2>2. CASE Return(p, 2)
    BY <1>1, <2>2, DoubtEnd
  <2>3. CASE ~Return(p, 2)
    <3>1. PICK label \in {"receipt", "context", "record"} : Proceed(p, label, cursor[p])
      BY <1>7, <2>3 DEF Deliver, WriteReceipt, WriteContext
    <3>2. UNCHANGED <<mem, runs, outcome>>
      BY <1>7, <2>3 DEF Deliver, WriteReceipt, WriteContext, history
    <3>3. label \in InAttempt \ {"verify"} /\ label # "doubt"
      BY DEF InAttempt
    <3>4. runs'[id] # 0
      BY <1>3, <2>1, <3>2
    <3> QED BY <1>1, <2>1, <3>1, <3>2, <3>3, <3>4, DoubtAttempt DEF id
  <2> QED BY <2>2, <2>3
<1> QED BY <1>4, <1>5, <1>6, <1>7

LEMMA DoubtStarting ==
  ASSUME IInv, DoubtInv, NEW p \in Procs, (\E j \in Jobs : Begin(p, j)) \/ Load(p)
  PROVE  DoubtInv'
<1>1. CASE \E j \in Jobs : Begin(p, j)
  <2>1. /\ pc' = [pc EXCEPT ![p] = "load"] /\ lock = None
        /\ UNCHANGED <<journal, runs, outcome, receipts>>
    BY <1>1 DEF Begin, LockFree, Goto, disk, history
  <2>2. \A q \in Procs : pc'[q] \in {"idle", "load"}
    BY <2>1 DEF IInv, TypeOK, ControlInv
  <2>3. {"idle", "load"} \cap (InAttempt \cup HasReceipt) = {}
    BY DEF InAttempt, HasReceipt
  <2> QED BY <2>1, <2>2, <2>3 DEF DoubtInv
<1>2. CASE Load(p)
  <2>1. pc[p] # "idle" /\ 1 \in 1 .. NumCases + 1
    BY <1>2 DEF Load, At
  <2>2. CASE Return(p, 2)
    BY <2>1, <2>2, DoubtEnd
  <2>3. CASE Proceed(p, "reconcile", 1) /\ UNCHANGED history
    <3>1. \A c \in Cases : CaseStatus(journal'[c]) \in Unknown => c >= 1
      BY DEF Cases
    <3> QED BY <2>1, <2>3, <3>1, DoubtMove DEF history
  <2> QED BY <1>2, <2>2, <2>3 DEF Load
<1> QED BY <1>1, <1>2

LEMMA DoubtInit == Init => DoubtInv
<1> SUFFICES ASSUME Init PROVE DoubtInv
  OBVIOUS
<1>1. \A q \in Procs : pc[q] = "idle"
  BY DEF Init
<1>2. \A id \in AttemptIds : outcome[id] = None
  BY DEF Init
<1>3. None \notin Known
  OBVIOUS
<1> QED BY <1>1, <1>2, <1>3 DEF DoubtInv, InAttempt, HasReceipt

LEMMA DoubtInvStep == IInv /\ DoubtInv /\ [Next]_vars => DoubtInv'
<1> SUFFICES ASSUME IInv, DoubtInv, [Next]_vars PROVE DoubtInv'
  OBVIOUS
<1>1. CASE UNCHANGED vars
  BY <1>1, DoubtAside DEF vars, disk, history
<1>2. ASSUME NEW p \in Procs, (\E j \in Jobs : Begin(p, j)) \/ Load(p) PROVE DoubtInv'
  BY <1>2, DoubtStarting
<1>3. ASSUME NEW p \in Procs, Busy(p) \/ Interrupt(p) \/ TakeInterrupt(p) PROVE DoubtInv'
  BY <1>3, DoubtAside DEF Busy, Interrupt, TakeInterrupt, disk, history
<1>4. ASSUME NEW p \in Procs, Stop(p) \/ Review(p) \/ Doubt(p) PROVE DoubtInv'
  <2>1. pc[p] # "idle"
    BY <1>4 DEF Stop, Review, Doubt, At
  <2>2. PICK code \in {None, 0, 2, 3, 5} : Return(p, code)
    BY <1>4 DEF Stop, Review, Doubt, Unconfirm
  <2> QED BY <2>1, <2>2, DoubtEnd
<1>5. ASSUME NEW p \in Procs, Advance(p) PROVE DoubtInv'
  BY <1>2, <1>3, <1>4, <1>5, DoubtReconcile, DoubtChoosing, DoubtExecute, DoubtWithin, DoubtRecord
     DEF Advance
<1>6. ASSUME NEW r \in Readers, Inspect(r) PROVE DoubtInv'
  BY <1>6, DoubtAside DEF Inspect, InspectOpen, InspectCase, InspectReport, LooksOn, disk, history
<1>7. CASE Tamper
  <2>1. UNCHANGED <<journal, pc, cursor, mem, runs, outcome>>
    BY <1>7 DEF Tamper
  <2>2. \A id \in AttemptIds : receipts[id] = None => receipts'[id] = None
    <3>1. receipts \in [AttemptIds -> File(Receipts)]
      BY AttemptTypes
    <3>2. \/ UNCHANGED receipts
          \/ \E id \in AttemptIds : \E f \in Edited(receipts[id]) :
               receipts[id] # None /\ receipts' = [receipts EXCEPT ![id] = f]
      BY <1>7 DEF Tamper, evidence
    <3> QED BY <3>1, <3>2
  <2> QED BY <2>1, <2>2, DoubtAside
<1> QED BY <1>1, <1>2, <1>3, <1>4, <1>5, <1>6, <1>7 DEF Next

-----------------------------------------------------------------------------
(* What an open inspection knows *)

\* Only an inspection changes what inspections have read.
LEMMA ViewStep ==
  ASSUME IInv, [Next]_vars
  PROVE  UNCHANGED view \/ \E r \in Readers : Inspect(r)
<1>1. CASE UNCHANGED vars
  BY <1>1 DEF vars
<1>2. ASSUME NEW p \in Procs, NEW j \in Jobs, Begin(p, j) PROVE UNCHANGED view
  BY <1>2 DEF Begin
<1>3. ASSUME NEW p \in Procs, Busy(p) \/ Interrupt(p) \/ Stop(p) PROVE UNCHANGED view
  BY <1>3 DEF Busy, Interrupt, Stop, Return
<1>4. ASSUME NEW p \in Procs, Advance(p) PROVE UNCHANGED view
  <2>1. CASE Load(p) \/ NextCase(p) \/ Choose(p) \/ Review(p) \/ TakeInterrupt(p)
    BY <2>1 DEF Load, NextCase, Choose, Review, TakeInterrupt, Return, Proceed
  <2>2. CASE Reconciled(p)
    <3>1. pc[p] = "reconcile"
      BY <2>2 DEF Reconciled, At
    <3>2. job[p].cmd \in {"run", "retry", "reconcile"}
      BY <3>1, HolderFacts DEF Jobs
    <3>3. \E label, case : Proceed(p, label, case)
      BY <2>2, <3>2 DEF Reconciled
    <3> QED BY <3>3 DEF Proceed
  <2>3. CASE Reconcile(p)
    BY <2>3 DEF Reconcile, CheckOutcome, Recover, GiveUp, SkipPending, Unconfirm, Return, Proceed
  <2>4. CASE Snapshot(p) \/ Execute(p) \/ Record(p) \/ Doubt(p)
    BY <2>4 DEF Snapshot, Execute, Record, Doubt, Unconfirm, Return, Proceed
  <2>5. CASE StartVerification(p) \/ FinishVerification(p) \/ LoseVerification(p)
    BY <2>5 DEF StartVerification, FinishVerification, LoseVerification, Proceed
  <2>6. CASE Deliver(p) \/ WriteReceipt(p) \/ WriteContext(p)
    BY <2>6 DEF Deliver, WriteReceipt, WriteContext, Return, Proceed
  <2> QED BY <1>4, <2>1, <2>2, <2>3, <2>4, <2>5, <2>6 DEF Advance
<1>5. CASE Tamper
  BY <1>5 DEF Tamper
<1> QED BY <1>1, <1>2, <1>3, <1>4, <1>5 DEF Next

LEMMA ViewInvStep ==
  ASSUME IInv, DoubtInv, ViewInv, [Next]_vars
  PROVE  ViewInv'
<1>1. CASE UNCHANGED view
  <2> SUFFICES ASSUME NEW r \in Readers, view[r] # None, NEW c \in Cases,
                      NEW n \in Entries(view[r].snap, c)
               PROVE  /\ n \in Entries(journal', c)
                      /\ view[r].snap[c].attempts[n].status \in Known =>
                           view[r].snap[c].attempts[n] = journal'[c].attempts[n]
    BY <1>1 DEF ViewInv, ValidJournal, Entries
  <2>1. /\ n \in Entries(journal, c)
        /\ view[r].snap[c].attempts[n].status \in Known =>
             view[r].snap[c].attempts[n] = journal[c].attempts[n]
    BY DEF ViewInv
  <2>2. /\ n \in Entries(journal', c)
        /\ journal[c].attempts[n].status \in Known =>
             journal'[c].attempts[n] = journal[c].attempts[n]
    BY <2>1, JournalKeeps
  <2> QED BY <2>1, <2>2
<1>2. ASSUME NEW r \in Readers, Inspect(r) PROVE ViewInv'
  <2> DEFINE Fits(snap) ==
        /\ ValidJournal(snap)
        /\ \A c \in Cases : \A n \in Entries(snap, c) :
             /\ n \in Entries(journal, c)
             /\ snap[c].attempts[n].status \in Known =>
                  snap[c].attempts[n] = journal[c].attempts[n]
  <2>1. UNCHANGED journal /\ view \in [Readers -> Views \cup {None}]
    BY <1>2 DEF Inspect, InspectOpen, InspectCase, InspectReport, LooksOn, disk, IInv, TypeOK
  <2>2. \A s \in Readers : view[s] # None => Fits(view[s].snap)
    BY DEF ViewInv
  <2>3. \A s \in Readers \ {r} : view'[s] = view[s]
    BY <1>2, <2>1 DEF Inspect, InspectOpen, InspectCase, InspectReport
  <2>4. view'[r] # None => Fits(view'[r].snap)
    <3>1. CASE InspectOpen(r)
      <4>1. Fits(journal)
        BY <3>1 DEF InspectOpen, Entries
      <4>2. view'[r].snap = journal
        BY <2>1, <3>1 DEF InspectOpen
      <4> QED BY <4>1, <4>2
    <3>2. CASE InspectCase(r)
      <4>1. view[r] # None /\ view'[r].snap = view[r].snap
        BY <2>1, <3>2 DEF InspectCase
      <4> QED BY <2>2, <4>1
    <3>3. CASE InspectReport(r)
      BY <2>1, <3>3 DEF InspectReport
    <3> QED BY <1>2, <3>1, <3>2, <3>3 DEF Inspect
  <2>5. \A s \in Readers : view'[s] # None => Fits(view'[s].snap)
    BY <2>2, <2>3, <2>4
  <2> QED BY <2>1, <2>5 DEF ViewInv, Entries
<1> QED BY <1>1, <1>2, ViewStep

-----------------------------------------------------------------------------
(* What the frozen snapshots hold while nobody edits them *)

\* Without an outside edit this is a step of the program.
LEMMA NoEdit ==
  ASSUME IInv, [Next]_vars, tampers' = 0
  PROVE  tampers = 0 /\ ~Tamper
<1>1. tampers \in Nat
  BY DEF IInv, TypeOK
<1>2. ~Tamper
  BY <1>1 DEF Tamper
<1>3. ASSUME UNCHANGED vars PROVE UNCHANGED tampers
  BY <1>3 DEF vars, history
<1>4. ASSUME NEW p \in Procs, NEW j \in Jobs, Begin(p, j) PROVE UNCHANGED tampers
  BY <1>4 DEF Begin, history
<1>5. ASSUME NEW p \in Procs, Busy(p) \/ Interrupt(p) \/ Stop(p) PROVE UNCHANGED tampers
  BY <1>5 DEF Busy, Interrupt, Stop, Return, history
<1>6. ASSUME NEW p \in Procs, Advance(p) PROVE UNCHANGED tampers
  <2>1. CASE Load(p) \/ Reconciled(p) \/ NextCase(p) \/ Choose(p) \/ Review(p) \/ TakeInterrupt(p)
    BY <2>1 DEF Load, Reconciled, NextCase, Choose, Review, TakeInterrupt, Return, history
  <2>2. CASE Reconcile(p)
    BY <2>2 DEF Reconcile, CheckOutcome, Recover, GiveUp, SkipPending, Unconfirm, Return, history
  <2>3. CASE Snapshot(p) \/ Execute(p) \/ Record(p) \/ Doubt(p)
    BY <2>3 DEF Snapshot, Execute, Record, Doubt, Unconfirm, Return, history
  <2>4. CASE StartVerification(p) \/ FinishVerification(p) \/ LoseVerification(p)
    BY <2>4 DEF StartVerification, FinishVerification, LoseVerification
  <2>5. CASE Deliver(p) \/ WriteReceipt(p) \/ WriteContext(p)
    BY <2>5 DEF Deliver, WriteReceipt, WriteContext, Return, history
  <2> QED BY <1>6, <2>1, <2>2, <2>3, <2>4, <2>5 DEF Advance
<1>7. ASSUME NEW r \in Readers, Inspect(r) PROVE UNCHANGED tampers
  BY <1>7 DEF Inspect, InspectOpen, InspectCase, InspectReport, LooksOn, history
<1> QED BY <1>2, <1>3, <1>4, <1>5, <1>6, <1>7 DEF Next

\* A process comes to "execute" with the copy it had, or with the inputs it just froze.
LEMMA ToExecute ==
  ASSUME IInv, [Next]_vars, tampers' = 0, NEW p \in Procs, pc'[p] = "execute"
  PROVE  /\ pc[p] \notin {"idle", "load"}
         /\ mem'[p] = mem[p] \/ (Snapshot(p) /\ ~Return(p, 2))
<1> DEFINE Goal == /\ pc[p] \notin {"idle", "load"}
                   /\ mem'[p] = mem[p] \/ (Snapshot(p) /\ ~Return(p, 2))
           Still == pc'[p] = pc[p] /\ mem'[p] = mem[p]
<1>1. Still => Goal
  OBVIOUS
<1>2. pc \in [Procs -> Labels] /\ mem \in [Procs -> Journals \cup {None}]
  BY DEF IInv, TypeOK
<1>3. CASE UNCHANGED vars
  BY <1>1, <1>3 DEF vars
<1>4. ASSUME NEW q \in Procs, NEW j \in Jobs, Begin(q, j) PROVE Goal
  BY <1>1, <1>2, <1>4 DEF Begin, Goto
<1>5. ASSUME NEW q \in Procs, NEW code, Return(q, code) PROVE Goal
  BY <1>1, <1>2, <1>5 DEF Return, Goto
<1>6. ASSUME NEW q \in Procs, Busy(q) \/ Interrupt(q) \/ TakeInterrupt(q) PROVE Goal
  BY <1>1, <1>6 DEF Busy, Interrupt, TakeInterrupt
<1>7. ASSUME NEW q \in Procs, NEW label \in Labels \ {"execute"}, NEW case, Proceed(q, label, case),
             q # p => mem'[p] = mem[p]
      PROVE  Goal
  BY <1>1, <1>2, <1>7 DEF Proceed, Goto
<1>8. ASSUME NEW q \in Procs, Advance(q) PROVE Goal
  <2>1. CASE Load(q)
    BY <1>2, <1>5, <1>7, <2>1 DEF Load, Labels
  <2>2. CASE Reconcile(q)
    BY <1>2, <1>5, <1>7, <2>2
       DEF Reconcile, CheckOutcome, Recover, GiveUp, SkipPending, Unconfirm, SaveLast, Save, Labels
  <2>3. CASE NextCase(q) \/ Choose(q)
    <3>1. CASE q = p
      BY <1>2, <1>5, <2>3, <3>1 DEF NextCase, Choose, At
    <3>2. CASE q # p
      BY <1>1, <1>2, <1>5, <2>3, <3>2 DEF NextCase, Choose, Proceed, Goto
    <3> QED BY <3>1, <3>2
  <2>4. CASE Reconciled(q)
    <3>1. UNCHANGED mem /\ pc[q] = "reconcile" /\ job[q] \in Jobs
      BY <2>4, HolderFacts DEF Reconciled, At
    <3>2. job[q].cmd \in {"run", "retry", "reconcile"}
      BY <3>1 DEF Jobs
    <3>3. PICK label \in {"next", "choose", "review"} : \E case : Proceed(q, label, case)
      <4>1. CASE job[q].cmd = "run"
        BY <2>4, <4>1 DEF Reconciled
      <4>2. CASE job[q].cmd = "retry"
        BY <2>4, <4>2 DEF Reconciled
      <4>3. CASE job[q].cmd = "reconcile"
        BY <2>4, <4>3 DEF Reconciled
      <4> QED BY <3>2, <4>1, <4>2, <4>3
    <3> QED BY <1>7, <3>1, <3>3 DEF Labels
  <2>5. CASE Snapshot(q)
    <3>1. CASE Return(q, 2)
      BY <1>5, <3>1
    <3>2. CASE q = p /\ ~Return(q, 2)
      BY <2>5, <3>2 DEF Snapshot, At
    <3>3. CASE q # p /\ ~Return(q, 2)
      BY <1>1, <1>2, <2>5, <3>3 DEF Snapshot, Proceed, Goto
    <3> QED BY <3>1, <3>2, <3>3
  <2>6. CASE Execute(q) \/ Record(q) \/ Doubt(q)
    BY <1>2, <1>5, <1>7, <2>6 DEF Execute, Record, Doubt, Unconfirm, SaveLast, Save, Labels
  <2>7. CASE StartVerification(q) \/ FinishVerification(q) \/ LoseVerification(q)
    <3>1. UNCHANGED mem /\ \E label \in Labels \ {"execute"} : Proceed(q, label, cursor[q])
      BY <2>7 DEF StartVerification, FinishVerification, LoseVerification, Labels
    <3> QED BY <1>7, <3>1
  <2>8. CASE Deliver(q) \/ WriteReceipt(q) \/ WriteContext(q)
    BY <1>5, <1>7, <2>8 DEF Deliver, WriteReceipt, WriteContext, Labels
  <2>9. CASE Review(q)
    BY <1>5, <2>9 DEF Review
  <2> QED BY <1>6, <1>8, <2>1, <2>2, <2>3, <2>4, <2>5, <2>6, <2>7, <2>8, <2>9 DEF Advance
<1>9. ASSUME NEW q \in Procs, Stop(q) PROVE Goal
  BY <1>5, <1>9 DEF Stop
<1>10. ASSUME NEW r \in Readers, Inspect(r) PROVE Goal
  BY <1>1, <1>10 DEF Inspect, InspectOpen, InspectCase, InspectReport, LooksOn
<1> QED BY <1>3, <1>4, <1>6, <1>8, <1>9, <1>10, NoEdit DEF Next

\* The snapshots of the journal's cases stay the inputs the journal names.
LEMMA FrozenJournalStep ==
  ASSUME IInv, DoubtInv, FrozenInv, [Next]_vars, tampers' = 0, NEW c \in Cases
  PROVE  /\ skill' = Package
         /\ frozen'[<<c, journal'[c].generation>>] = journal'[c].input
         /\ \A n \in Entries(journal', c) :
              journal'[c].attempts[n].input = frozen'[<<c, journal'[c].attempts[n].generation>>]
<1>1. tampers = 0 /\ tampers' = tampers
  BY NoEdit
<1>2. /\ skill' = skill
      /\ \A k \in Cases \X Generations : frozen[k] # None => frozen'[k] = frozen[k]
  BY <1>1, SnapshotsStay
<1>3. /\ skill = Package /\ frozen[<<c, journal[c].generation>>] = journal[c].input
      /\ \A n \in Entries(journal, c) :
           journal[c].attempts[n].input = frozen[<<c, journal[c].attempts[n].generation>>]
  BY <1>1 DEF FrozenInv, InputsAreFrozen, MaterialsUnchanged
<1>4. journal[c] \in CaseStates /\ \A n \in Entries(journal, c) : journal[c].attempts[n] \in Attempts
  BY CaseFacts
\* A digest that is on disk stays there.
<1>5. ASSUME NEW g \in Generations, NEW input \in Digests, frozen[<<c, g>>] = input
      PROVE  frozen'[<<c, g>>] = input
  BY <1>2, <1>5
<1>6. /\ frozen'[<<c, journal[c].generation>>] = journal[c].input
      /\ \A n \in Entries(journal, c) :
           journal[c].attempts[n].input = frozen'[<<c, journal[c].attempts[n].generation>>]
  BY <1>3, <1>4, <1>5 DEF CaseStates, Attempts
<1>7. CASE UNCHANGED journal
  BY <1>2, <1>3, <1>6, <1>7 DEF Entries
<1>8. ASSUME NEW d \in Cases, journal[d].attempts # <<>>, NEW attempt \in Attempts,
             attempt.input = LastOf(journal[d]).input,
             attempt.generation = LastOf(journal[d]).generation,
             journal' = [journal EXCEPT ![d] = WithLast(@, attempt)]
      PROVE  /\ frozen'[<<c, journal'[c].generation>>] = journal'[c].input
             /\ \A n \in Entries(journal', c) :
                  journal'[c].attempts[n].input = frozen'[<<c, journal'[c].attempts[n].generation>>]
  <2>1. /\ Entries(journal', c) = Entries(journal, c)
        /\ journal'[c].input = journal[c].input /\ journal'[c].generation = journal[c].generation
        /\ \A n \in Entries(journal, c) :
             journal'[c].attempts[n] =
               IF c = d /\ n = Count(journal[d]) THEN attempt ELSE journal[c].attempts[n]
    BY <1>8, ReplacedAt
  <2>2. \A n \in Entries(journal, c) :
          /\ journal'[c].attempts[n].input = journal[c].attempts[n].input
          /\ journal'[c].attempts[n].generation = journal[c].attempts[n].generation
    BY <1>8, <2>1 DEF LastOf
  <2> QED BY <1>6, <2>1, <2>2
<1>9. CASE \E d \in Cases : Settles(d)
  <2>1. PICK d \in Cases : Settles(d)
    BY <1>9
  <2> DEFINE found == FoundNow(d, LastOf(journal[d]))
  <2>2. found \in Attempts
    BY <2>1, SettledFacts
  <2>3. LastOf(journal[d]) \in Attempts
    BY <2>1, LastFacts DEF Settles
  <2>4. found.input = LastOf(journal[d]).input /\ found.generation = LastOf(journal[d]).generation
    BY <2>3 DEF FoundNow, Found, Attempts
  <2> HIDE DEF found
  <2>5. journal[d].attempts # <<>> /\ journal' = [journal EXCEPT ![d] = WithLast(@, found)]
    BY <2>1 DEF Settles, found
  <2> QED BY <1>2, <1>3, <1>8, <2>2, <2>4, <2>5
<1>10. CASE \E d \in Cases : Questions(d)
  <2>1. PICK d \in Cases : Questions(d)
    BY <1>10
  <2> DEFINE marked == [LastOf(journal[d]) EXCEPT !.status = "unconfirmed"]
  <2>2. marked \in Attempts
    BY <2>1, QuestionedFacts
  <2>3. LastOf(journal[d]) \in Attempts
    BY <2>1, LastFacts DEF Questions
  <2>4. marked.input = LastOf(journal[d]).input /\ marked.generation = LastOf(journal[d]).generation
    BY <2>3 DEF Attempts
  <2> HIDE DEF marked
  <2>5. journal[d].attempts # <<>> /\ journal' = [journal EXCEPT ![d] = WithLast(@, marked)]
    BY <2>1 DEF Questions, marked
  <2> QED BY <1>2, <1>3, <1>8, <2>2, <2>4, <2>5
<1>11. CASE \E p \in Procs : Enters(p)
  <2>1. PICK p \in Procs : Enters(p)
    BY <1>11
  <2> DEFINE e == cursor[p]
  <2>2. /\ e \in Cases /\ mem[p] \in Journals /\ UNCHANGED frozen
        /\ journal'[c].input = mem[p][c].input /\ journal'[c].generation = mem[p][c].generation
        /\ \A n \in Entries(journal, c) : journal'[c].attempts[n] = journal[c].attempts[n]
        /\ c # e => journal'[c].attempts = journal[c].attempts
        /\ Entries(journal', e) = 1 .. Count(journal[e]) + 1
        /\ Entries(journal, e) = 1 .. Count(journal[e])
        /\ journal'[e].attempts[Count(journal[e]) + 1] = NewAttempt(mem[p][e])
    BY <2>1, EnteredFacts DEF Enters, Aside
  <2>3. frozen[<<c, mem[p][c].generation>>] = mem[p][c].input
    <3>1. pc[p] \notin {"idle", "load"}
      BY <2>1 DEF Enters, At
    <3> QED BY <1>1, <3>1 DEF FrozenInv
  <2>4. Count(journal[e]) \in Nat
    BY <2>2, CaseFacts
  <2>5. ASSUME NEW n \in Entries(journal', c)
        PROVE  journal'[c].attempts[n].input = frozen'[<<c, journal'[c].attempts[n].generation>>]
    <3>1. CASE n \in Entries(journal, c)
      BY <1>6, <2>2, <3>1
    <3>2. CASE n \notin Entries(journal, c)
      <4>1. c = e
        BY <2>2, <2>5, <3>2 DEF Entries
      <4>2. n = Count(journal[e]) + 1
        BY <2>2, <2>4, <2>5, <3>2, <4>1
      <4>3. journal'[c].attempts[n] = NewAttempt(mem[p][c])
        BY <2>2, <4>1, <4>2
      <4> QED BY <2>2, <2>3, <4>3 DEF NewAttempt
    <3> QED BY <3>1, <3>2
  <2> QED BY <1>2, <1>3, <2>2, <2>3, <2>5
<1> QED BY <1>7, <1>9, <1>10, <1>11, JournalStep

LEMMA FrozenInvStep ==
  ASSUME IInv, DoubtInv, FrozenInv, [Next]_vars
  PROVE  FrozenInv'
<1>1. CASE tampers' # 0
  BY <1>1 DEF FrozenInv, InputsAreFrozen
<1>2. CASE tampers' = 0
  <2>1. InputsAreFrozen'
    <3>1. 1 \in Cases
      BY DEF Cases
    <3>2. \A c \in Cases :
            /\ skill' = Package
            /\ frozen'[<<c, journal'[c].generation>>] = journal'[c].input
            /\ \A n \in Entries(journal', c) :
                 journal'[c].attempts[n].input = frozen'[<<c, journal'[c].attempts[n].generation>>]
      BY <1>2, FrozenJournalStep
    <3> QED BY <3>1, <3>2 DEF InputsAreFrozen, MaterialsUnchanged, Entries
  <2>2. ASSUME NEW p \in Procs, pc'[p] \notin {"idle", "load"}, NEW c \in Cases
        PROVE  frozen'[<<c, mem'[p][c].generation>>] = mem'[p][c].input
    <3>1. CASE pc'[p] # "execute"
      <4>1. IInv'
        BY StepInv
      <4>2. mem'[p] = journal'
        BY <2>2, <3>1, <4>1 DEF IInv, CopyIsCurrent, At
      <4> QED BY <1>2, <4>2, FrozenJournalStep
    <3>2. CASE pc'[p] = "execute"
      <4>1. pc[p] \notin {"idle", "load"} /\ tampers = 0 /\ tampers' = tampers
        BY <1>2, <3>2, ToExecute, NoEdit
      <4>2. /\ frozen[<<c, mem[p][c].generation>>] = mem[p][c].input
            /\ mem[p][c] \in CaseStates /\ mem[p] \in Journals
        BY <4>1, HolderFacts DEF FrozenInv
      <4>3. frozen'[<<c, mem[p][c].generation>>] = mem[p][c].input
        BY <4>1, <4>2, SnapshotsStay DEF CaseStates
      <4>4. CASE mem'[p] = mem[p]
        BY <4>3, <4>4
      <4>5. CASE Snapshot(p) /\ ~Return(p, 2)
        <5> DEFINE d == cursor[p]
                   number == Count(Current(p)) + 1
                   input == job[p].input
        <5>1. /\ pc[p] = "snapshot" /\ d \in Cases /\ mem[p] = journal
              /\ frozen' = [frozen EXCEPT ![<<d, number>>] = input]
              /\ mem' = [mem EXCEPT ![p][d] = WithInput(@, number, input)]
          BY <4>5, HolderFacts DEF Snapshot, At, IInv, ControlInv
        <5>2. number \in Generations
          <6>1. Count(Current(p)) \in Nat /\ Count(Current(p)) < MaxAttempts
            BY <5>1, CaseFacts DEF Current, IInv, ControlInv
          <6> QED BY <6>1 DEF Generations
        <5>3. mem \in [Procs -> Journals \cup {None}]
          BY DEF IInv, TypeOK
        <5>4. /\ mem'[p][d] = WithInput(mem[p][d], number, input)
              /\ c # d => mem'[p][c] = mem[p][c]
          BY <4>2, <5>1, <5>3 DEF Journals
        <5>5. /\ mem'[p][d].generation = number /\ mem'[p][d].input = input
          <6>1. mem[p][d] \in CaseStates
            BY <5>1, CaseFacts
          <6> QED BY <5>4, <6>1 DEF WithInput, CaseStates
        <5>6. frozen'[<<d, number>>] = input
          <6>1. <<d, number>> \in Cases \X Generations /\ frozen \in [Cases \X Generations -> Digests \cup {None}]
            BY <5>1, <5>2 DEF IInv, TypeOK
          <6> HIDE DEF d, number, input
          <6> QED BY <5>1, <6>1
        <5> HIDE DEF d, number, input
        <5>7. CASE c = d
          BY <5>5, <5>6, <5>7
        <5>8. CASE c # d
          BY <4>3, <5>4, <5>8
        <5> QED BY <5>7, <5>8
      <4> QED BY <1>2, <3>2, <4>4, <4>5, ToExecute
    <3> QED BY <3>1, <3>2
  <2> QED BY <2>1, <2>2 DEF FrozenInv
<1> QED BY <1>1, <1>2

-----------------------------------------------------------------------------
(* What an audit depends on *)

\* An audit that opens the delivered artifacts asks for all that the other does.
LEMMA PhysicalAudits ==
  ASSUME NEW a, NEW r, NEW x, NEW d, Audits(a, r, x, d, TRUE)
  PROVE  Audits(a, r, x, d, FALSE)
  BY DEF Audits

\* What was found audits against the files it was found in.
LEMMA FoundAudits ==
  ASSUME NEW a \in Attempts, NEW r, NEW x, NEW d, Audits(a, r, x, d, TRUE)
  PROVE  Audits(Found(a, r, x, d), r, x, d, TRUE)
<1> DEFINE f == Found(a, r, x, d)
           g == Found(f, r, x, d)
<1>1. /\ f.status = r.status /\ f.receipt = r /\ f.context = x /\ f.input = a.input
      /\ f.delivery = IF r.status = "succeeded" THEN d.receipt ELSE a.delivery
      /\ DOMAIN f = DOMAIN a /\ f = [k \in DOMAIN a |-> f[k]]
  BY DEF Found, StatusOf, Attempts
<1>2. DOMAIN a = {"number", "status", "input", "generation", "receipt", "context", "delivery"}
  BY DEF Attempts
<1>3. /\ g.status = r.status /\ g.receipt = r /\ g.context = x
      /\ g.delivery = IF r.status = "succeeded" THEN d.receipt ELSE f.delivery
  BY <1>1, <1>2 DEF Found, StatusOf
<1>4. Unchanged(f.receipt, g.receipt) /\ Unchanged(f.context, g.context)
        /\ Unchanged(f.delivery, g.delivery)
  BY <1>1, <1>3 DEF Unchanged
<1>5. /\ Readable(r) /\ Readable(x) /\ x.receipt = r /\ r.skill = Package /\ x.input = a.input
      /\ r.status = "succeeded" => Readable(d) /\ d.receipt = r /\ d.whole
  BY DEF Audits
<1> HIDE DEF f
<1> QED BY <1>1, <1>3, <1>4, <1>5 DEF Audits, f

\* Whether an attempt in doubt would audit does not depend on the doubt.
LEMMA MarkedAudits ==
  ASSUME NEW a \in Attempts, a.status \in Unknown, NEW r, NEW x, NEW d,
         Audits([a EXCEPT !.status = "unconfirmed"], r, x, d, TRUE)
  PROVE  Audits(a, r, x, d, TRUE)
<1> DEFINE m == [a EXCEPT !.status = "unconfirmed"]
<1>1. /\ m.receipt = a.receipt /\ m.context = a.context /\ m.delivery = a.delivery
      /\ m.input = a.input
  BY DEF Attempts
<1>2. a.status \notin Known
  BY DEF Known, Unknown
<1>3. /\ Found(m, r, x, d).receipt = Found(a, r, x, d).receipt
      /\ Found(m, r, x, d).context = Found(a, r, x, d).context
      /\ Found(m, r, x, d).delivery = Found(a, r, x, d).delivery
  BY DEF Found, Attempts
<1>4. Audits(m, r, x, d, TRUE)
  OBVIOUS
<1> HIDE DEF m
<1> QED BY <1>1, <1>2, <1>3, <1>4 DEF Audits

\* The audit of an attempt against its files as they are after the step.
AuditsLater(c, attempt) ==
  Audits(attempt, receipts'[<<c, attempt.number>>], contexts'[<<c, attempt.number>>],
         deliveries'[<<c, attempt.number>>], TRUE)

\* The audit of an attempt that is not running gives the same answer after a step.
LEMMA AuditStays ==
  ASSUME IInv, [Next]_vars, tampers' = tampers, NEW c \in Cases, NEW n \in Entries(journal, c),
         journal[c].attempts[n].status # "running"
  PROVE  AuditsLater(c, journal[c].attempts[n]) <=> AuditsNow(c, journal[c].attempts[n], TRUE)
<1> DEFINE a == journal[c].attempts[n]
<1>1. a.number = n
  BY CaseFacts
<1>2. /\ receipts'[<<c, n>>] = receipts[<<c, n>>] /\ contexts'[<<c, n>>] = contexts[<<c, n>>]
      /\ deliveries'[<<c, n>>] = deliveries[<<c, n>>]
  BY EvidenceOfTheEnded
<1> HIDE DEF a
<1>3. AuditsLater(c, a) <=> AuditsNow(c, a, TRUE)
  BY <1>1, <1>2 DEF AuditsLater, AuditsNow
<1> QED BY <1>3 DEF a

-----------------------------------------------------------------------------
(* Recorded outcomes audit, unconfirmed ones do not *)

\* A settled attempt audits with the outcome it was settled with.
LEMMA SettledAudits ==
  ASSUME IInv, NEW d \in Cases, Settles(d)
  PROVE  AuditsLater(d, FoundNow(d, LastOf(journal[d])))
<1> DEFINE a == LastOf(journal[d])
           r == receipts[<<d, a.number>>]
           x == contexts[<<d, a.number>>]
           y == deliveries[<<d, a.number>>]
<1>1. /\ a \in Attempts /\ UNCHANGED <<receipts, contexts, deliveries>>
      /\ Audits(a, r, x, y, TRUE) /\ FoundNow(d, a) = Found(a, r, x, y)
  BY LastFacts DEF Settles, Aside, AuditsNow, FoundNow
<1>2. FoundNow(d, a).number = a.number
  BY <1>1 DEF Found, Attempts
<1>3. Audits(FoundNow(d, a), r, x, y, TRUE)
  <2>1. \A aa \in Attempts : \A rr, xx, yy :
          Audits(aa, rr, xx, yy, TRUE) => Audits(Found(aa, rr, xx, yy), rr, xx, yy, TRUE)
    BY FoundAudits
  <2> HIDE DEF r, x, y, a
  <2>2. Audits(Found(a, r, x, y), r, x, y, TRUE)
    BY <1>1, <2>1, Zenon
  <2> QED BY <1>1, <2>2
<1>4. /\ receipts'[<<d, FoundNow(d, a).number>>] = r /\ contexts'[<<d, FoundNow(d, a).number>>] = x
      /\ deliveries'[<<d, FoundNow(d, a).number>>] = y
  BY <1>1, <1>2
<1> HIDE DEF r, x, y, a
<1>5. AuditsLater(d, FoundNow(d, a))
  BY <1>3, <1>4 DEF AuditsLater
<1> QED BY <1>5 DEF a

\* A questioned attempt does not audit.
LEMMA QuestionedFails ==
  ASSUME IInv, NEW d \in Cases, Questions(d)
  PROVE  ~AuditsLater(d, [LastOf(journal[d]) EXCEPT !.status = "unconfirmed"])
<1> DEFINE a == LastOf(journal[d])
           marked == [a EXCEPT !.status = "unconfirmed"]
           r == receipts[<<d, a.number>>]
           x == contexts[<<d, a.number>>]
           y == deliveries[<<d, a.number>>]
<1>1. /\ a \in Attempts /\ UNCHANGED <<receipts, contexts, deliveries>>
      /\ ~Audits(a, r, x, y, TRUE) /\ a.status \in Unknown
  BY LastFacts DEF Questions, Aside, AuditsNow, InDoubt, CaseStatus
<1>2. marked.number = a.number
  BY <1>1 DEF Attempts
<1>3. ~Audits(marked, r, x, y, TRUE)
  <2> HIDE DEF r, x, y, a
  <2> QED BY <1>1, MarkedAudits
<1>4. /\ receipts'[<<d, marked.number>>] = r /\ contexts'[<<d, marked.number>>] = x
      /\ deliveries'[<<d, marked.number>>] = y
  BY <1>1, <1>2
<1> HIDE DEF r, x, y, marked
<1>5. ~AuditsLater(d, marked)
  BY <1>3, <1>4 DEF AuditsLater
<1> QED BY <1>5 DEF marked

\* A case that is settled or questioned has its latest attempt replaced.
LEMMA SettlesReplaces ==
  ASSUME IInv, NEW d \in Cases, Settles(d)
  PROVE  \E found \in Attempts :
           /\ found = FoundNow(d, LastOf(journal[d])) /\ Replaces(d, found)
           /\ found.status \in Known /\ found.status = outcome[<<d, Count(journal[d])>>]
<1>1. /\ FoundNow(d, LastOf(journal[d])) \in Attempts
      /\ FoundNow(d, LastOf(journal[d])).status \in Known
      /\ FoundNow(d, LastOf(journal[d])).status = outcome[<<d, Count(journal[d])>>]
  BY SettledFacts
<1>2. Replaces(d, FoundNow(d, LastOf(journal[d])))
  BY DEF Settles, Replaces
<1> QED BY <1>1, <1>2

LEMMA QuestionsReplaces ==
  ASSUME IInv, NEW d \in Cases, Questions(d)
  PROVE  \E marked \in Attempts :
           /\ marked = [LastOf(journal[d]) EXCEPT !.status = "unconfirmed"] /\ Replaces(d, marked)
           /\ marked.status = "unconfirmed"
<1> DEFINE marked == [LastOf(journal[d]) EXCEPT !.status = "unconfirmed"]
<1>1. marked \in Attempts /\ marked.status = "unconfirmed"
  BY QuestionedFacts
<1>2. Replaces(d, marked)
  BY DEF Questions, Replaces
<1> HIDE DEF marked
<1>3. \E m \in Attempts : m = marked /\ Replaces(d, m) /\ m.status = "unconfirmed"
  BY <1>1, <1>2
<1> QED BY <1>3 DEF marked

LEMMA RecordedAuditStep ==
  ASSUME IInv, DoubtInv, AuditInv, [Next]_vars, tampers' = 0, NEW c \in Cases,
         NEW n \in Entries(journal', c), journal'[c].attempts[n].status \in Known
  PROVE  AuditsLater(c, journal'[c].attempts[n])
<1>1. tampers = 0 /\ tampers' = tampers
  BY NoEdit
<1>2. ASSUME n \in Entries(journal, c), journal'[c].attempts[n] = journal[c].attempts[n]
      PROVE  AuditsLater(c, journal'[c].attempts[n])
  <2>1. /\ journal[c].attempts[n].status \in Known
        /\ journal[c].attempts[n].status # "running"
    BY <1>2 DEF Known
  <2>2. AuditsNow(c, journal[c].attempts[n], TRUE)
    BY <1>1, <1>2, <2>1 DEF AuditInv
  <2> QED BY <1>1, <1>2, <2>1, <2>2, AuditStays
<1>3. CASE UNCHANGED journal
  BY <1>2, <1>3 DEF Entries
<1>4. CASE \E d \in Cases : Settles(d)
  <2>1. PICK d \in Cases : Settles(d)
    BY <1>4
  <2>2. PICK found \in Attempts : found = FoundNow(d, LastOf(journal[d])) /\ Replaces(d, found)
    BY <2>1, SettlesReplaces
  <2>3. AuditsLater(d, found)
    BY <2>1, <2>2, SettledAudits
  <2>5. /\ Entries(journal', c) = Entries(journal, c)
        /\ \A m \in Entries(journal, c) :
             journal'[c].attempts[m] =
               IF c = d /\ m = Count(journal[d]) THEN found ELSE journal[c].attempts[m]
    BY <2>2, ReplacesAt
  <2>6. CASE c = d /\ n = Count(journal[d])
    BY <2>3, <2>5, <2>6
  <2>7. CASE ~(c = d /\ n = Count(journal[d]))
    BY <1>2, <2>5, <2>7
  <2> QED BY <2>6, <2>7
<1>5. CASE \E d \in Cases : Questions(d)
  <2>1. PICK d \in Cases : Questions(d)
    BY <1>5
  <2>2. PICK marked \in Attempts : Replaces(d, marked) /\ marked.status = "unconfirmed"
    BY <2>1, QuestionsReplaces
  <2>3. marked.status \notin Known
    BY <2>2 DEF Known
  <2>4. /\ Entries(journal', c) = Entries(journal, c)
        /\ \A m \in Entries(journal, c) :
             journal'[c].attempts[m] =
               IF c = d /\ m = Count(journal[d]) THEN marked ELSE journal[c].attempts[m]
    BY <2>2, ReplacesAt
  <2> QED BY <1>2, <2>3, <2>4
<1>6. CASE \E p \in Procs : Enters(p)
  <2>1. PICK p \in Procs : Enters(p)
    BY <1>6
  <2> DEFINE e == cursor[p]
  <2>2. /\ e \in Cases
        /\ \A m \in Entries(journal, c) : journal'[c].attempts[m] = journal[c].attempts[m]
        /\ c # e => journal'[c].attempts = journal[c].attempts
        /\ Entries(journal', e) = 1 .. Count(journal[e]) + 1
        /\ Entries(journal, e) = 1 .. Count(journal[e])
        /\ journal'[e].attempts[Count(journal[e]) + 1] = NewAttempt(mem[p][e])
    BY <2>1, EnteredFacts
  <2>3. CASE n \in Entries(journal, c)
    BY <1>2, <2>2, <2>3
  <2>4. CASE n \notin Entries(journal, c)
    <3>1. c = e
      BY <2>2, <2>4 DEF Entries
    <3>2. n = Count(journal[e]) + 1
      BY <2>2, <2>4, <3>1, CaseFacts
    <3>3. journal'[c].attempts[n].status = "running"
      BY <2>2, <3>1, <3>2 DEF NewAttempt
    <3> QED BY <3>3 DEF Known
  <2> QED BY <2>3, <2>4
<1> QED BY <1>3, <1>4, <1>5, <1>6, JournalStep

LEMMA UnconfirmedAuditStep ==
  ASSUME IInv, DoubtInv, AuditInv, [Next]_vars, tampers' = 0, NEW c \in Cases,
         CaseStatus(journal'[c]) = "unconfirmed"
  PROVE  ~AuditsLater(c, LastOf(journal'[c]))
<1>1. tampers = 0 /\ tampers' = tampers
  BY NoEdit
<1>2. ASSUME CaseStatus(journal[c]) = "unconfirmed", LastOf(journal'[c]) = LastOf(journal[c])
      PROVE  ~AuditsLater(c, LastOf(journal'[c]))
  <2> DEFINE n == Count(journal[c])
  <2>1. journal[c].attempts # <<>> /\ LastOf(journal[c]).status = "unconfirmed"
    BY <1>2 DEF CaseStatus
  <2>2. /\ n \in Entries(journal, c) /\ LastOf(journal[c]) = journal[c].attempts[n]
        /\ journal[c].attempts[n].status # "running"
    BY <2>1, LastFacts DEF LastOf
  <2>3. ~AuditsNow(c, LastOf(journal[c]), TRUE)
    BY <1>1, <1>2 DEF AuditInv, NothingWrittenOff
  <2> HIDE DEF n
  <2>4. AuditsLater(c, journal[c].attempts[n]) <=> AuditsNow(c, journal[c].attempts[n], TRUE)
    BY <1>1, <2>2, AuditStays
  <2> QED BY <1>2, <2>2, <2>3, <2>4
<1>3. CASE UNCHANGED journal
  BY <1>2, <1>3
<1>4. CASE \E d \in Cases : Settles(d)
  <2>1. PICK d \in Cases : Settles(d)
    BY <1>4
  <2>2. PICK found \in Attempts : Replaces(d, found) /\ found.status \in Known
    BY <2>1, SettlesReplaces
  <2>4. /\ c # d => journal'[c] = journal[c]
        /\ c = d => CaseStatus(journal'[c]) = found.status
    BY <2>2, ReplacesAt
  <2>5. c # d
    BY <2>2, <2>4 DEF Known
  <2> QED BY <1>2, <2>4, <2>5
<1>5. CASE \E d \in Cases : Questions(d)
  <2>1. PICK d \in Cases : Questions(d)
    BY <1>5
  <2>2. PICK marked \in Attempts :
          marked = [LastOf(journal[d]) EXCEPT !.status = "unconfirmed"] /\ Replaces(d, marked)
    BY <2>1, QuestionsReplaces
  <2>3. ~AuditsLater(d, marked)
    BY <2>1, <2>2, QuestionedFails
  <2>5. /\ c # d => journal'[c] = journal[c]
        /\ c = d => LastOf(journal'[c]) = marked
    BY <2>2, ReplacesAt
  <2>6. CASE c = d
    BY <2>3, <2>5, <2>6
  <2>7. CASE c # d
    BY <1>2, <2>5, <2>7
  <2> QED BY <2>6, <2>7
<1>6. CASE \E p \in Procs : Enters(p)
  <2>1. PICK p \in Procs : Enters(p)
    BY <1>6
  <2>2. /\ c # cursor[p] => journal'[c].attempts = journal[c].attempts
        /\ c = cursor[p] => CaseStatus(journal'[c]) = "running"
    BY <2>1, EnteredFacts
  <2>3. journal'[c].attempts = journal[c].attempts
    BY <2>2
  <2> QED BY <1>2, <2>3 DEF CaseStatus, LastOf, Count
<1> QED BY <1>3, <1>4, <1>5, <1>6, JournalStep

-----------------------------------------------------------------------------
(* What inspections report *)

\* A known outcome that an inspection read is still the journal's.
LEMMA SnapFacts ==
  ASSUME IInv, ViewInv, NEW r \in Readers, view[r] # None, NEW c \in Cases,
         Settled(view[r].snap[c])
  PROVE  LET last == LastOf(view[r].snap[c]) IN
         /\ last.number \in Entries(journal, c) /\ last = journal[c].attempts[last.number]
         /\ last.status \in Known
<1> DEFINE case == view[r].snap[c]
           n == Count(case)
<1>1. view[r] \in Views
  BY DEF IInv, TypeOK
<1>2. case \in CaseStates /\ case.attempts # <<>> /\ LastOf(case).status \in Known
  BY <1>1 DEF Views, Journals, Settled, CaseStatus, Known
<1>3. n \in DOMAIN case.attempts
  BY <1>2 DEF Count, CaseStates
<1>4. ValidCase(case)
  BY DEF ViewInv, ValidJournal
<1>5. LastOf(case) = case.attempts[n] /\ case.attempts[n].number = n
  BY <1>3, <1>4 DEF LastOf, ValidCase, ValidAttempt
<1>6. n \in Entries(journal, c) /\ case.attempts[n] = journal[c].attempts[n]
  BY <1>2, <1>3, <1>5 DEF ViewInv, Entries
<1> HIDE DEF case, n
<1>7. /\ LastOf(case).number \in Entries(journal, c)
      /\ LastOf(case) = journal[c].attempts[LastOf(case).number]
      /\ LastOf(case).status \in Known
  BY <1>2, <1>5, <1>6
<1> QED BY <1>7 DEF case

\* An inspection that finds a changed case does so after an outside edit.
LEMMA NoFalseAlarmStep ==
  ASSUME IInv, ViewInv, AuditInv, [Next]_vars, tampers' = 0,
         NEW s \in Readers, view'[s] # None
  PROVE  view'[s].changed = {}
<1>1. tampers = 0
  BY NoEdit
<1>2. view \in [Readers -> Views \cup {None}]
  BY DEF IInv, TypeOK
<1>3. \A r \in Readers : view[r] # None => view[r].changed = {}
  BY <1>1 DEF AuditInv, NoFalseAlarm
<1>4. CASE UNCHANGED view
  BY <1>3, <1>4
<1>5. CASE \E r \in Readers : Inspect(r)
  <2>1. PICK r \in Readers : Inspect(r)
    BY <1>5
  <2>2. CASE InspectOpen(r)
    BY <1>2, <1>3, <2>2 DEF InspectOpen
  <2>3. CASE InspectReport(r)
    BY <1>2, <1>3, <2>3 DEF InspectReport
  <2>4. CASE InspectCase(r)
    <3> DEFINE c == view[r].next
               case == view[r].snap[c]
    <3>1. view[r] # None /\ c \in Cases
      BY <2>4 DEF InspectCase
    <3>2. ASSUME Settled(case) PROVE AuditsNow(c, LastOf(case), FALSE)
      <4>1. /\ LastOf(case).number \in Entries(journal, c)
            /\ LastOf(case) = journal[c].attempts[LastOf(case).number]
            /\ LastOf(case).status \in Known
        BY <3>1, <3>2, SnapFacts
      <4>2. AuditsNow(c, LastOf(case), TRUE)
        BY <1>1, <3>1, <4>1 DEF AuditInv
      <4> HIDE DEF c, case
      <4> QED BY <4>2, PhysicalAudits DEF AuditsNow
    <3> DEFINE lost == Settled(case) /\ ~AuditsNow(c, LastOf(case), FALSE)
    <3>3. ~lost
      BY <3>2
    <3>4. view' = [view EXCEPT ![r] =
                     [snap |-> @.snap, next |-> c + 1,
                      changed |-> IF lost THEN @.changed \cup {c} ELSE @.changed]]
      BY <2>4 DEF InspectCase
    <3> HIDE DEF lost, case, c
    <3> QED BY <1>2, <1>3, <3>1, <3>3, <3>4
  <2> QED BY <2>1, <2>2, <2>3, <2>4 DEF Inspect
<1> QED BY <1>4, <1>5, ViewStep

LEMMA AuditInvStep ==
  ASSUME IInv, DoubtInv, ViewInv, AuditInv, [Next]_vars
  PROVE  AuditInv'
<1>1. ASSUME tampers' = 0, NEW c \in Cases, NEW n \in Entries(journal', c),
             journal'[c].attempts[n].status \in Known
      PROVE  AuditsNow(c, journal[c].attempts[n], TRUE)'
  BY <1>1, RecordedAuditStep DEF AuditsLater, AuditsNow
<1>2. ASSUME tampers' = 0, NEW c \in Cases, CaseStatus(journal'[c]) = "unconfirmed"
      PROVE  ~AuditsNow(c, LastOf(journal[c]), TRUE)'
  BY <1>2, UnconfirmedAuditStep DEF AuditsLater, AuditsNow
<1>3. ASSUME tampers' = 0, NEW s \in Readers, view'[s] # None PROVE view'[s].changed = {}
  BY <1>3, NoFalseAlarmStep
<1> QED BY <1>1, <1>2, <1>3 DEF AuditInv, NothingWrittenOff, NoFalseAlarm, Entries

-----------------------------------------------------------------------------
(* SafeInv is an invariant *)

LEMMA SafeInit == Init => SafeInv
<1> SUFFICES ASSUME Init PROVE SafeInv
  OBVIOUS
<1>1. DoubtInv
  BY DoubtInit
<1>2. \A r \in Readers : view[r] = None
  BY DEF Init
<1>3. /\ skill = Package /\ \A p \in Procs : pc[p] = "idle"
      /\ \A c \in Cases : /\ journal[c].attempts = <<>> /\ journal[c].input = BaseInput[c]
                          /\ journal[c].generation = 0 /\ frozen[<<c, 0>>] = BaseInput[c]
  <2>1. \A c \in Cases : <<c, 0>> \in Cases \X Generations
    BY DEF Generations
  <2>2. \A k \in Cases \X Generations : k[2] = 0 => frozen[k] = BaseInput[k[1]]
    BY DEF Init
  <2>3. \A c \in Cases : frozen[<<c, 0>>] = BaseInput[c]
    BY <2>1, <2>2
  <2>4. \A c \in Cases : /\ journal[c].attempts = <<>> /\ journal[c].input = BaseInput[c]
                          /\ journal[c].generation = 0
    BY DEF Init, FreshJournal
  <2> QED BY <2>3, <2>4 DEF Init
<1>4. \A c \in Cases : Entries(journal, c) = {} /\ CaseStatus(journal[c]) = "pending"
  <2>1. DOMAIN <<>> = {}
    OBVIOUS
  <2> QED BY <1>3, <2>1 DEF Entries, CaseStatus
<1>5. FrozenInv
  BY <1>3, <1>4 DEF FrozenInv, InputsAreFrozen, MaterialsUnchanged
<1>6. ViewInv /\ AuditInv
  BY <1>2, <1>4 DEF ViewInv, AuditInv, NothingWrittenOff, NoFalseAlarm
<1> QED BY <1>1, <1>5, <1>6 DEF SafeInv

LEMMA SafeInvStep == IInv /\ SafeInv /\ [Next]_vars => SafeInv'
  BY DoubtInvStep, ViewInvStep, FrozenInvStep, AuditInvStep DEF SafeInv

\* In every reachable state the cases in doubt, the open inspections, the frozen
\* inputs and the saved evidence are as SafeInv says.
THEOREM SafeInvariance == Spec => [](IInv /\ SafeInv)
<1>1. Init => IInv /\ SafeInv
  BY InitInv, SafeInit
<1>2. IInv /\ SafeInv /\ [Next]_vars => (IInv /\ SafeInv)'
  BY StepInv, SafeInvStep
<1> QED BY <1>1, <1>2, PTL DEF Spec

-----------------------------------------------------------------------------
(* The properties *)

\* A run whose receipt, context and delivery were all saved is recovered, not
\* left unconfirmed: reconcile and the end of an attempt both audit first.
THEOREM EvidenceIsUsed == Spec => []NothingWrittenOff
<1>1. SafeInv => NothingWrittenOff
  BY DEF SafeInv, AuditInv
<1> QED BY <1>1, SafeInvariance, PTL

\* The inputs the journal names are the frozen ones, also after a crash between
\* freezing the inputs of a retry and saving the journal.
THEOREM InputsStayFrozen == Spec => []InputsAreFrozen
<1>1. SafeInv => InputsAreFrozen
  BY DEF SafeInv, FrozenInv
<1> QED BY <1>1, SafeInvariance, PTL

\* An inspection that races with writers reports changed evidence only if
\* somebody changed something.
THEOREM InspectionRaisesNoFalseAlarm == Spec => []NoFalseAlarm
<1>1. SafeInv => NoFalseAlarm
  BY DEF SafeInv, AuditInv
<1> QED BY <1>1, SafeInvariance, PTL

\* A case that an inspection reports complete did succeed, although the journal
\* it read may be old.
THEOREM InspectionTellsTheTruth == Spec => []InspectionIsTrue
<1>1. IInv /\ SafeInv => InspectionIsTrue
  <2> SUFFICES ASSUME IInv, SafeInv, NEW r \in Readers, view[r] # None,
                      ReviewStatus(view[r].snap, view[r].changed) = "complete", NEW c \in Cases
               PROVE  outcome[<<c, LastOf(view[r].snap[c]).number>>] = "succeeded"
    BY DEF InspectionIsTrue
  <2> DEFINE case == view[r].snap[c]
  <2>1. CaseStatus(case) \notin Statuses \ {"succeeded"}
    BY DEF ReviewStatus, JournalStatus
  <2>2. case \in CaseStates
    BY DEF IInv, TypeOK, Views, Journals
  <2>3. case.attempts # <<>>
    BY <2>1 DEF CaseStatus, Statuses
  <2>4. LastOf(case) \in Attempts
    BY <2>2, <2>3 DEF LastOf, Count, CaseStates
  <2>5. LastOf(case).status = "succeeded" /\ Settled(case)
    BY <2>1, <2>3, <2>4 DEF CaseStatus, Attempts, Settled, Known
  <2>6. /\ LastOf(case).number \in Entries(journal, c)
        /\ LastOf(case) = journal[c].attempts[LastOf(case).number]
        /\ LastOf(case).status \in Known
    BY <2>5, SnapFacts DEF SafeInv
  <2>7. RecordedIsReal
    BY DEF IInv, OutcomeInv
  <2> HIDE DEF case
  <2>8. outcome[<<c, LastOf(case).number>>] = "succeeded"
    BY <2>5, <2>6, <2>7 DEF RecordedIsReal
  <2> QED BY <2>8 DEF case
<1> QED BY <1>1, SafeInvariance, PTL

-----------------------------------------------------------------------------
(* What a step may never do *)

\* The step of SavedIsFinal.
SavedStep ==
  /\ tampers' = tampers =>
       /\ \A id \in AttemptIds :
            /\ receipts[id] # None => receipts'[id] = receipts[id]
            /\ contexts[id] # None => contexts'[id] = contexts[id]
            /\ deliveries[id] # None => deliveries'[id] = deliveries[id]
       /\ \A k \in Cases \X Generations : frozen[k] # None => frozen'[k] = frozen[k]
  /\ \A c \in Cases : \A n \in Entries(journal, c) :
       /\ n \in Entries(journal', c)
       /\ journal[c].attempts[n].status \in Known =>
            journal'[c].attempts[n] = journal[c].attempts[n]

\* Whatever commands run, stop or race, evidence and frozen inputs are never
\* replaced, no attempt disappears, and a known outcome is never rewritten.
THEOREM SavedStaysFinal == Spec => SavedIsFinal
<1>1. IInv /\ SafeInv /\ [Next]_vars => [SavedStep]_vars
  <2> SUFFICES ASSUME IInv, SafeInv, [Next]_vars PROVE SavedStep
    OBVIOUS
  <2>1. DoubtInv
    BY DEF SafeInv
  <2>2. ASSUME tampers' = tampers, NEW id \in AttemptIds
        PROVE  /\ receipts[id] # None => receipts'[id] = receipts[id]
               /\ contexts[id] # None => contexts'[id] = contexts[id]
               /\ deliveries[id] # None => deliveries'[id] = deliveries[id]
    BY <2>2, EvidenceStays
  <2>3. ASSUME tampers' = tampers, NEW k \in Cases \X Generations, frozen[k] # None
        PROVE  frozen'[k] = frozen[k]
    BY <2>3, SnapshotsStay
  <2>4. ASSUME NEW c \in Cases, NEW n \in Entries(journal, c)
        PROVE  /\ n \in Entries(journal', c)
               /\ journal[c].attempts[n].status \in Known =>
                    journal'[c].attempts[n] = journal[c].attempts[n]
    BY <2>1, <2>4, JournalKeeps
  <2> QED BY <2>2, <2>3, <2>4 DEF SavedStep
<1> QED BY <1>1, SafeInvariance, PTL DEF Spec, SavedIsFinal, SavedStep

\* The step of UnknownBlocksTheBatch.
BlockedStep ==
  (\E c \in Cases : CaseStatus(journal[c]) \in Unknown) =>
    \A c \in Cases : Count(journal'[c]) = Count(journal[c])

\* While the outcome of any case is unknown, no command starts an attempt.
THEOREM UnknownBlocks == Spec => UnknownBlocksTheBatch
<1>1. IInv /\ SafeInv /\ [Next]_vars => [BlockedStep]_vars
  <2> SUFFICES ASSUME IInv, SafeInv, [Next]_vars, NEW d \in Cases, InDoubt(d), NEW c \in Cases
               PROVE  Count(journal'[c]) = Count(journal[c])
    BY DEF BlockedStep, InDoubt
  <2>1. DoubtInv
    BY DEF SafeInv
  <2>2. CASE UNCHANGED journal
    BY <2>2
  <2>3. CASE \E p \in Procs : Enters(p)
    BY <2>1, <2>3 DEF Enters, At, DoubtInv
  <2>4. CASE \E e \in Cases : Settles(e)
    BY <2>4, SettlesReplaces, ReplacesAt
  <2>5. CASE \E e \in Cases : Questions(e)
    BY <2>5, QuestionsReplaces, ReplacesAt
  <2> QED BY <2>1, <2>2, <2>3, <2>4, <2>5, JournalStep
<1> QED BY <1>1, SafeInvariance, PTL DEF Spec, UnknownBlocksTheBatch, BlockedStep

-----------------------------------------------------------------------------
(* Refinement *)

\* What BatchPromise sees of a journal and of the executions.
LedgerOf(state) ==
  [c \in Cases |-> [n \in Entries(state, c) |-> state[c].attempts[n].status]]
Done == {id \in AttemptIds : runs[id] # 0}

\* Only the start of a verification executes anything.
LEMMA RunsStep ==
  ASSUME IInv, [Next]_vars
  PROVE  UNCHANGED runs \/ \E p \in Procs : StartVerification(p)
<1>1. CASE UNCHANGED vars
  BY <1>1 DEF vars, history
<1>2. ASSUME NEW p \in Procs, NEW j \in Jobs, Begin(p, j) PROVE UNCHANGED runs
  BY <1>2 DEF Begin, history
<1>3. ASSUME NEW p \in Procs, Busy(p) \/ Interrupt(p) \/ Stop(p) PROVE UNCHANGED runs
  BY <1>3 DEF Busy, Interrupt, Stop, Return, history
<1>4. ASSUME NEW p \in Procs, Advance(p), ~StartVerification(p) PROVE UNCHANGED runs
  <2>1. CASE Load(p) \/ Reconciled(p) \/ NextCase(p) \/ Choose(p) \/ Review(p) \/ TakeInterrupt(p)
    BY <2>1 DEF Load, Reconciled, NextCase, Choose, Review, TakeInterrupt, Return, history
  <2>2. CASE Reconcile(p)
    BY <2>2 DEF Reconcile, CheckOutcome, Recover, GiveUp, SkipPending, Unconfirm, Return, history
  <2>3. CASE Snapshot(p) \/ Execute(p) \/ Record(p) \/ Doubt(p)
    BY <2>3 DEF Snapshot, Execute, Record, Doubt, Unconfirm, Return, history
  <2>4. CASE FinishVerification(p) \/ LoseVerification(p)
    BY <2>4 DEF FinishVerification, LoseVerification
  <2>5. CASE Deliver(p) \/ WriteReceipt(p) \/ WriteContext(p)
    BY <2>5 DEF Deliver, WriteReceipt, WriteContext, Return, history
  <2> QED BY <1>4, <2>1, <2>2, <2>3, <2>4, <2>5 DEF Advance
<1>5. ASSUME NEW r \in Readers, Inspect(r) PROVE UNCHANGED runs
  BY <1>5 DEF Inspect, InspectOpen, InspectCase, InspectReport, LooksOn, history
<1>6. CASE Tamper
  BY <1>6 DEF Tamper
<1> QED BY <1>1, <1>2, <1>3, <1>4, <1>5, <1>6 DEF Next

\* The ledger lists the statuses of a case's attempts, the case's own status last.
LEMMA LedgerFacts ==
  ASSUME IInv, NEW c \in Cases
  PROVE  LET entries == LedgerOf(journal)[c] IN
         /\ entries \in Seq(Statuses) /\ Len(entries) = Count(journal[c])
         /\ DOMAIN entries = Entries(journal, c)
         /\ entries = <<>> <=> journal[c].attempts = <<>>
         /\ entries # <<>> => entries[Len(entries)] = CaseStatus(journal[c])
<1> DEFINE k == Count(journal[c])
           entries == [n \in 1 .. k |-> journal[c].attempts[n].status]
<1>1. /\ k \in Nat /\ Entries(journal, c) = 1 .. k
      /\ journal[c].attempts = <<>> <=> k = 0
      /\ \A n \in 1 .. k : journal[c].attempts[n] \in Attempts
  BY CaseFacts
<1>2. \A n \in 1 .. k : journal[c].attempts[n].status \in Statuses
  BY <1>1 DEF Attempts
<1>3. LedgerOf(journal)[c] = entries
  BY <1>1 DEF LedgerOf
<1>4. k # 0 => entries[k] = CaseStatus(journal[c])
  BY <1>1 DEF CaseStatus, LastOf
<1>5. entries \in Seq(Statuses) /\ Len(entries) = k /\ DOMAIN entries = 1 .. k
  <2> HIDE DEF k
  <2> QED BY <1>1, <1>2
<1> HIDE DEF entries
<1>6. entries = <<>> <=> k = 0
  BY <1>5
<1> QED BY <1>1, <1>3, <1>4, <1>5, <1>6

\* A case is in doubt for the promise exactly when it is here.
LEMMA PromiseDoubt ==
  ASSUME IInv, NEW c \in Cases
  PROVE  Promise!InDoubt(c) <=> InDoubt(c)
<1> DEFINE entries == LedgerOf(journal)[c]
<1>1. /\ entries = <<>> <=> journal[c].attempts = <<>>
      /\ entries # <<>> => entries[Len(entries)] = CaseStatus(journal[c])
  BY LedgerFacts
<1>2. Promise!InDoubt(c) <=> entries # <<>> /\ entries[Len(entries)] \in Unknown
  BY DEF Promise!InDoubt, Promise!Latest, Promise!Doubted, Unknown, LedgerOf
<1>3. journal[c].attempts = <<>> => ~InDoubt(c)
  BY DEF InDoubt, CaseStatus, Unknown
<1> HIDE DEF entries
<1> QED BY <1>1, <1>2, <1>3 DEF InDoubt

\* Replacing the latest attempt of a case replaces its status in the ledger.
LEMMA LedgerReplaced ==
  ASSUME IInv, NEW c \in Cases, NEW attempt \in Attempts, Replaces(c, attempt)
  PROVE  LedgerOf(journal')
           = [LedgerOf(journal) EXCEPT ![c][Len(LedgerOf(journal)[c])] = attempt.status]
<1> DEFINE k == Count(journal[c])
           old == LedgerOf(journal)[c]
           new == [old EXCEPT ![k] = attempt.status]
<1>1. /\ \A d \in Cases : Entries(journal', d) = Entries(journal, d)
      /\ \A d \in Cases : d # c => journal'[d] = journal[d]
      /\ \A n \in Entries(journal, c) :
           journal'[c].attempts[n] = IF n = k THEN attempt ELSE journal[c].attempts[n]
  BY ReplacesAt
<1>2. Len(old) = k /\ DOMAIN old = Entries(journal, c)
      /\ old = [n \in Entries(journal, c) |-> journal[c].attempts[n].status]
  BY LedgerFacts DEF LedgerOf
<1>3. LedgerOf(journal')[c] = [n \in Entries(journal, c) |-> journal'[c].attempts[n].status]
  BY <1>1 DEF LedgerOf
<1>4. LedgerOf(journal')[c] = new
  <2> HIDE DEF k, old
  <2>1. \A n \in Entries(journal, c) :
          journal'[c].attempts[n].status = IF n = k THEN attempt.status ELSE journal[c].attempts[n].status
    BY <1>1
  <2> QED BY <1>2, <1>3, <2>1
<1>5. \A d \in Cases : d # c => LedgerOf(journal')[d] = LedgerOf(journal)[d]
  BY <1>1 DEF LedgerOf
<1>6. /\ LedgerOf(journal') = [d \in Cases |-> LedgerOf(journal')[d]]
      /\ LedgerOf(journal) = [d \in Cases |-> LedgerOf(journal)[d]]
  BY DEF LedgerOf
<1>7. LedgerOf(journal') = [LedgerOf(journal) EXCEPT ![c] = new]
  <2> HIDE DEF new
  <2> QED BY <1>4, <1>5, <1>6
<1> QED BY <1>2, <1>7

\* Entering an attempt appends to the ledger of its case.
LEMMA LedgerEntered ==
  ASSUME IInv, NEW p \in Procs, Enters(p)
  PROVE  LedgerOf(journal') = [LedgerOf(journal) EXCEPT ![cursor[p]] = Append(@, "running")]
<1> DEFINE c == cursor[p]
           k == Count(journal[c])
           old == LedgerOf(journal)[c]
           new == LedgerOf(journal')[c]
<1>1. /\ c \in Cases
      /\ \A d \in Cases \ {c} : journal'[d].attempts = journal[d].attempts
      /\ \A n \in Entries(journal, c) : journal'[c].attempts[n] = journal[c].attempts[n]
      /\ Entries(journal', c) = 1 .. k + 1 /\ Entries(journal, c) = 1 .. k
      /\ journal'[c].attempts[k + 1].status = "running"
  <2>1. /\ c \in Cases
        /\ \A d \in Cases \ {c} : journal'[d].attempts = journal[d].attempts
        /\ \A n \in Entries(journal, c) : journal'[c].attempts[n] = journal[c].attempts[n]
        /\ Entries(journal', c) = 1 .. k + 1 /\ Entries(journal, c) = 1 .. k
        /\ journal'[c].attempts[k + 1] = NewAttempt(mem[p][c])
    BY EnteredFacts
  <2>2. NewAttempt(mem[p][c]).status = "running"
    BY DEF NewAttempt
  <2> HIDE DEF k, c
  <2> QED BY <2>1, <2>2
<1>2. k \in Nat /\ old \in Seq(Statuses) /\ Len(old) = k
  BY <1>1, CaseFacts, LedgerFacts
<1>3. /\ old = [n \in 1 .. k |-> journal[c].attempts[n].status]
      /\ new = [n \in 1 .. k + 1 |-> journal'[c].attempts[n].status]
  BY <1>1 DEF LedgerOf
<1>4. new = Append(old, "running")
  <2>1. Append(old, "running") \in Seq(Statuses) /\ Len(Append(old, "running")) = k + 1
    BY <1>2 DEF Statuses, Unknown
  <2>2. \A n \in 1 .. k + 1 : new[n] = Append(old, "running")[n]
    <3> SUFFICES ASSUME NEW n \in 1 .. k + 1 PROVE new[n] = Append(old, "running")[n]
      OBVIOUS
    <3>1. CASE n = k + 1
      BY <1>1, <1>2, <1>3, <3>1
    <3>2. CASE n # k + 1
      <4>1. n \in 1 .. k
        BY <1>2, <3>2
      <4>2. new[n] = old[n]
        BY <1>1, <1>3, <4>1
      <4> QED BY <1>2, <4>1, <4>2
    <3> QED BY <3>1, <3>2
  <2>3. \A n \in 1 .. k + 1 : Append(old, "running")[n] \in Statuses
    <3> HIDE DEF old, k
    <3> QED BY <1>2, <2>1
  <2>4. new = [n \in 1 .. k + 1 |-> new[n]]
    BY <1>3
  <2> HIDE DEF new, old, k
  <2>5. new \in Seq(Statuses) /\ Len(new) = k + 1
    BY <1>2, <2>2, <2>3, <2>4
  <2> QED BY <2>1, <2>2, <2>5
<1>5. \A d \in Cases : d # c => LedgerOf(journal')[d] = LedgerOf(journal)[d]
  BY <1>1 DEF LedgerOf, Entries
<1>6. /\ LedgerOf(journal') = [d \in Cases |-> LedgerOf(journal')[d]]
      /\ LedgerOf(journal) = [d \in Cases |-> LedgerOf(journal)[d]]
  BY DEF LedgerOf
<1> QED BY <1>1, <1>4, <1>5, <1>6

\* Every step is one of the promise, or invisible to it.
LEMMA BatchPromiseStep ==
  ASSUME IInv, DoubtInv, [Next]_vars
  PROVE  [Promise!PromiseNext]_(Promise!promiseVars)
<1> DEFINE ledger == LedgerOf(journal)
           later == LedgerOf(journal')
<1>1. CASE UNCHANGED journal /\ UNCHANGED runs
  BY <1>1 DEF Promise!promiseVars, Entries
<1>2. ASSUME NEW p \in Procs, StartVerification(p)
      PROVE  \E c \in Cases : Promise!Perform(c)
  <2>0. pc[p] = "verify" /\ pc[p] \in InAttempt
    BY <1>2 DEF StartVerification, At, InAttempt
  <2>1. PICK c \in Cases, id \in AttemptIds : c = cursor[p] /\ id = CurrentId(p)
    BY <2>0, AttemptFacts
  <2>2. /\ mem[p] = journal /\ journal[c].attempts # <<>>
        /\ LastOf(journal[c]).status = "running" /\ id = <<c, Count(journal[c])>>
    BY <2>0, <2>1, AttemptFacts
  <2>3. runs[id] = 0 /\ runs \in [AttemptIds -> Nat]
    BY <2>0, <2>1 DEF IInv, RunsInv, TypeOK, At
  <2>4. runs' = [runs EXCEPT ![id] = @ + 1] /\ UNCHANGED journal
    BY <1>2, <2>1 DEF StartVerification, disk
  <2>5. id \notin Done /\ Done' = Done \cup {id}
    <3>1. runs'[id] = 1 /\ \A i \in AttemptIds : i # id => runs'[i] = runs[i]
      BY <2>3, <2>4
    <3>2. \A i : i \in Done' <=> i \in Done \cup {id}
      BY <2>3, <3>1 DEF Done
    <3> QED BY <2>3, <3>2 DEF Done
  <2>6. /\ ledger[c] # <<>> /\ Len(ledger[c]) = Count(journal[c])
        /\ ledger[c][Len(ledger[c])] = "running"
    BY <2>2, LedgerFacts DEF CaseStatus
  <2>7. later = ledger
    BY <2>4
  <2>8. Promise!Perform(c)
    BY <2>2, <2>5, <2>6, <2>7 DEF Promise!Perform, Promise!Latest, LedgerOf, Done
  <2> QED BY <2>8
<1>3. ASSUME NEW p \in Procs, Enters(p)
      PROVE  \E c \in Cases : Promise!Enter(c)
  <2>0. PICK c \in Cases : c = cursor[p]
    BY <1>3, EnteredFacts
  <2>1. /\ Count(journal[c]) < MaxAttempts /\ UNCHANGED runs
        /\ CaseStatus(journal[c]) # "succeeded" /\ \A d \in Cases : ~InDoubt(d)
    BY <1>3, <2>0, EnteredFacts DEF Enters, At, DoubtInv, Aside
  <2>2. \A d \in Cases : ~Promise!InDoubt(d)
    BY <2>1, PromiseDoubt
  <2>3. CaseStatus(journal[c]) \in {"pending", "failed", "cancelled"}
    <3>1. CASE journal[c].attempts = <<>>
      BY <3>1 DEF CaseStatus
    <3>2. CASE journal[c].attempts # <<>>
      <4>1. CaseStatus(journal[c]) \in Statuses
        BY <2>1, <3>2, LastFacts DEF CaseStatus, Attempts
      <4> QED BY <2>1, <4>1 DEF InDoubt, Statuses, Known
    <3> QED BY <3>1, <3>2
  <2>4. journal[c].attempts # <<>> => CaseStatus(journal[c]) # "pending"
    <3> SUFFICES ASSUME journal[c].attempts # <<>> PROVE LastOf(journal[c]).status # "pending"
      BY DEF CaseStatus
    <3>1. Count(journal[c]) \in Entries(journal, c) /\ ValidCase(journal[c])
      BY <2>1, LastFacts, CaseFacts
    <3> QED BY <3>1 DEF ValidCase, ValidAttempt, LastOf, Entries
  <2>5. /\ Len(ledger[c]) < MaxAttempts
        /\ ledger[c] = <<>> \/ ledger[c][Len(ledger[c])] \in {"failed", "cancelled"}
    BY <2>1, <2>3, <2>4, LedgerFacts
  <2>6. later = [ledger EXCEPT ![c] = Append(@, "running")]
    BY <1>3, <2>0, LedgerEntered
  <2>7. Promise!Enter(c)
    BY <2>1, <2>2, <2>5, <2>6 DEF Promise!Enter, Promise!Latest, LedgerOf
  <2> QED BY <2>7
<1>4. ASSUME NEW c \in Cases, Settles(c)
      PROVE  \E status \in Promise!Final : Promise!Settle(c, status)
  <2>1. PICK found \in Attempts :
          /\ Replaces(c, found) /\ found.status \in Known
          /\ found.status = outcome[<<c, Count(journal[c])>>]
    BY <1>4, SettlesReplaces
  <2>2. journal[c].attempts # <<>> /\ InDoubt(c) /\ UNCHANGED runs
    BY <1>4 DEF Settles, Aside
  <2>3. <<c, Count(journal[c])>> \in Done
    BY <2>1, <2>2, LastFacts DEF DoubtInv, Done
  <2>4. later = [ledger EXCEPT ![c][Len(ledger[c])] = found.status]
    BY <2>1, LedgerReplaced
  <2>5. Promise!InDoubt(c) /\ Len(ledger[c]) = Count(journal[c])
    BY <2>2, PromiseDoubt, LedgerFacts
  <2>6. Promise!Settle(c, found.status)
    BY <2>2, <2>3, <2>4, <2>5 DEF Promise!Settle, LedgerOf, Done
  <2> QED BY <2>1, <2>6 DEF Promise!Final, Known
<1>5. ASSUME NEW c \in Cases, Questions(c)
      PROVE  Promise!Question(c)
  <2>1. PICK marked \in Attempts : Replaces(c, marked) /\ marked.status = "unconfirmed"
    BY <1>5, QuestionsReplaces
  <2>2. InDoubt(c) /\ UNCHANGED runs
    BY <1>5 DEF Questions, Aside
  <2>3. later = [ledger EXCEPT ![c][Len(ledger[c])] = "unconfirmed"]
    BY <2>1, LedgerReplaced
  <2>4. Promise!InDoubt(c)
    BY <2>2, PromiseDoubt
  <2> QED BY <2>2, <2>3, <2>4 DEF Promise!Question, LedgerOf
<1>6. UNCHANGED journal \/ UNCHANGED runs
  BY JournalStep DEF Enters, Settles, Questions, Aside
<1>7. CASE UNCHANGED journal
  BY <1>1, <1>2, <1>7, RunsStep DEF Promise!PromiseNext
<1> QED BY <1>3, <1>4, <1>5, <1>7, JournalStep DEF Promise!PromiseNext, Enters

\* Batch implements BatchPromise: whatever commands run, race, crash or find
\* edited files, the journal and the executions behave as the promise says.
THEOREM BatchKeepsPromise == Spec => KeepsPromise
<1>1. Init => Promise!PromiseInit
  <2> SUFFICES ASSUME Init PROVE Promise!PromiseInit
    OBVIOUS
  <2>1. \A c \in Cases : journal[c].attempts = <<>>
    BY DEF Init, FreshJournal
  <2>2. \A c \in Cases : Entries(journal, c) = {}
    <3>1. DOMAIN <<>> = {}
      OBVIOUS
    <3> QED BY <2>1, <3>1 DEF Entries
  <2>3. \A c \in Cases : [n \in Entries(journal, c) |-> journal[c].attempts[n].status] = <<>>
    BY <2>2
  <2>4. {id \in AttemptIds : runs[id] # 0} = {}
    BY DEF Init
  <2> QED BY <2>3, <2>4 DEF Promise!PromiseInit
<1>2. IInv /\ SafeInv /\ [Next]_vars => [Promise!PromiseNext]_(Promise!promiseVars)
  BY BatchPromiseStep DEF SafeInv
<1> QED BY <1>1, <1>2, SafeInvariance, PTL DEF Spec, KeepsPromise, Promise!PromiseSpec
=============================================================================
