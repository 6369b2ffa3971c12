----------------------------- MODULE TapeProofs ------------------------------
(***************************************************************************)
(* Machine-checked proofs about TapeStore, for every number of writers,    *)
(* readers, events and power losses.                                       *)
(***************************************************************************)
EXTENDS TapeInv, TLAPS

USE BoundsAssumption, ValuesAssumption

-----------------------------------------------------------------------------
(* The file and the lock *)

\* Sequence numbers are numbers, and no event is a fragment.
LEMMA EventTypes == \A e \in Events : e.sequence \in Nat /\ e # Fragment /\ e # Finish
<1>1. \A e \in Events : e.sequence \in Nat
  BY DEF Events
<1> QED BY <1>1

\* What the type of the file says of its texts.
LEMMA TextTypes ==
  ASSUME TypeOK
  PROVE  /\ Len(file) \in Nat /\ DOMAIN file = 1 .. Len(file)
         /\ \A i \in 1 .. Len(file) :
              /\ file[i] \in Pieces
              /\ file[i].event \in Events \cup {Fragment}
              /\ file[i].ended \in BOOLEAN
              /\ file[i].event # Fragment => file[i].event.sequence \in Nat
<1>1. file \in Seq(Pieces)
  BY DEF TypeOK
<1>2. Len(file) \in Nat /\ DOMAIN file = 1 .. Len(file) /\ \A i \in 1 .. Len(file) : file[i] \in Pieces
  BY <1>1
<1>3. \A x \in Pieces : x.event \in Events \cup {Fragment} /\ x.ended \in BOOLEAN
  BY DEF Pieces
<1> QED BY <1>2, <1>3, EventTypes

\* The parts of the invariant that speak of the files, the acknowledgements and the readers.
FilesInv ==
  /\ Numbered
  /\ RepairIsEnough
  /\ AckInv
  /\ FinishedIsComplete
  /\ \A r \in Readers : ReaderInv(r)

LEMMA InitInv == Init => IInv
<1> SUFFICES ASSUME Init
             PROVE  IInv
  OBVIOUS
<1>1. /\ file = <<>> /\ synced = 0 /\ count = 0 /\ finished = FALSE /\ lock = None
      /\ written = {} /\ recovered = {} /\ losses = 0 /\ Len(file) = 0
  BY DEF Init
<1>2. \A w \in Writers : pc[w] = "idle" /\ job[w] = Finish
  BY DEF Init
<1>3. \A r \in Readers : reading[r] = None
  BY DEF Init
<1>4. TypeOK
  <2>1. file \in Seq(Pieces)
    BY <1>1
  <2>2. pc \in [Writers -> Labels] /\ job \in [Writers -> Events \cup {Finish}]
    BY DEF Init, Labels
  <2>3. reading \in [Readers -> Iterators \cup {None}]
    BY DEF Init
  <2>4. synced \in 0 .. Len(file) /\ count \in Nat /\ losses \in 0 .. MaxLosses
    BY <1>1
  <2>5. finished \in BOOLEAN /\ lock \in Writers \cup {None}
    BY <1>1
  <2>6. written \in SUBSET Events /\ recovered \in SUBSET Events
    BY <1>1
  <2> QED BY <2>1, <2>2, <2>3, <2>4, <2>5, <2>6 DEF TypeOK
<1>5. Numbered /\ RepairIsEnough /\ AckInv /\ FinishedIsComplete
  BY <1>1 DEF Numbered, RepairIsEnough, AckInv, FinishedIsComplete
<1>6. LockHeld /\ \A w \in Writers : WriterInv(w)
  BY <1>1, <1>2 DEF LockHeld, WriterInv
<1>7. \A r \in Readers : ReaderInv(r)
  BY <1>3 DEF ReaderInv
<1> QED BY <1>4, <1>5, <1>6, <1>7 DEF IInv

\* A writer that is not idle holds the lock, and all others are idle.
LEMMA Holder ==
  ASSUME LockHeld, NEW w \in Writers, pc[w] # "idle"
  PROVE  lock = w /\ \A v \in Writers : v # w => pc[v] = "idle"
BY DEF LockHeld

\* A step of the holder that keeps the lock.
LEMMA HolderMoves ==
  ASSUME TypeOK, LockHeld, NEW w \in Writers, NEW label \in Labels \ {"idle"},
         pc[w] # "idle", pc' = [pc EXCEPT ![w] = label], lock' = lock
  PROVE  /\ LockHeld' /\ pc' \in [Writers -> Labels] /\ pc'[w] = label
         /\ \A v \in Writers : v # w => WriterInv(v)'
<1>1. lock = w /\ \A v \in Writers : v # w => pc[v] = "idle"
  BY Holder
<1>2. pc' \in [Writers -> Labels] /\ pc'[w] = label
  BY DEF TypeOK
<1>3. \A v \in Writers : v # w => pc'[v] = "idle"
  BY <1>1 DEF TypeOK
<1>4. LockHeld'
  BY <1>1, <1>2, <1>3 DEF LockHeld
<1> QED BY <1>2, <1>3, <1>4 DEF WriterInv

\* A step that releases the lock.
LEMMA HolderLeaves ==
  ASSUME TypeOK, LockHeld, NEW w \in Writers, pc[w] # "idle", Unlock(w)
  PROVE  /\ LockHeld' /\ pc' \in [Writers -> Labels] /\ lock' \in Writers \cup {None}
         /\ \A v \in Writers : WriterInv(v)'
<1>1. lock = w /\ \A v \in Writers : v # w => pc[v] = "idle"
  BY Holder
<1>2. \A v \in Writers : pc'[v] = "idle"
  BY <1>1 DEF Unlock, Goto, TypeOK
<1>3. pc' \in [Writers -> Labels] /\ lock' = None
  BY DEF Unlock, Goto, TypeOK, Labels
<1>4. LockHeld'
  BY <1>2, <1>3 DEF LockHeld
<1> QED BY <1>2, <1>3, <1>4 DEF WriterInv

\* Steps that leave the files, the acknowledgements and the readers alone.
LEMMA SameFiles ==
  ASSUME IInv, UNCHANGED <<disk, reading, history>>
  PROVE  FilesInv'
BY DEF IInv, FilesInv, Numbered, RepairIsEnough, AckInv, Kept, Holds, FinishedIsComplete,
       Readable, ParsesAt, ReaderInv, disk, manifest, history

\* Steps that write to the end of a file the manifest counts except for its last text.
LEMMA WriteStep ==
  ASSUME IInv, ~finished, UNCHANGED <<synced, manifest, reading, history>>,
         count <= Len(file), file' \in Seq(Pieces), Len(file') = count + 1,
         \A i \in 1 .. count : file'[i] = file[i] /\ file[i].event # Fragment,
         file'[count + 1].event # Fragment => file'[count + 1].event.sequence = count
  PROVE  FilesInv' /\ synced' \in 0 .. Len(file')
<1>1. /\ count \in Nat /\ synced \in 0 .. Len(file) /\ Len(file) \in Nat /\ Len(file) <= count + 1
      /\ written \in SUBSET Events /\ recovered \in SUBSET Events /\ losses \in Nat
      /\ count' = count /\ synced' = synced /\ finished' = finished
      /\ written' = written /\ recovered' = recovered /\ losses' = losses /\ reading' = reading
  BY DEF IInv, TypeOK, RepairIsEnough, manifest, history
<1>2. Numbered'
  <2> SUFFICES ASSUME NEW i \in 1 .. count + 1
               PROVE  IF file'[i].event = Fragment THEN i = count + 1
                      ELSE file'[i].event.sequence = i - 1
    BY DEF Numbered
  <2>1. CASE i = count + 1
    BY <1>1, <2>1
  <2>2. CASE i \in 1 .. count
    <3>1. i \in 1 .. Len(file)
      BY <1>1, <2>2
    <3>2. file'[i] = file[i] /\ file[i].event # Fragment
      BY <2>2
    <3>3. file[i].event.sequence = i - 1
      BY <3>1, <3>2 DEF IInv, Numbered
    <3> QED BY <3>2, <3>3
  <2> QED BY <1>1, <2>1, <2>2
<1>3. RepairIsEnough'
  BY <1>1 DEF RepairIsEnough
<1>4. \A e \in Events : e.sequence < count /\ Holds(e) => Holds(e)'
  BY <1>1, EventTypes DEF Holds
<1>5. \A e \in recovered : e.sequence < count /\ Holds(e)
  <2> SUFFICES ASSUME NEW e \in recovered
               PROVE  e.sequence < count /\ Holds(e)
    OBVIOUS
  <2>1. Kept(e) /\ e.sequence \in Nat
    BY <1>1, EventTypes DEF IInv, AckInv
  <2> QED BY <1>1, <2>1 DEF Kept
<1>6. AckInv'
  BY <1>1, <1>4, <1>5 DEF IInv, AckInv, Kept
<1>7. FinishedIsComplete'
  BY <1>1 DEF FinishedIsComplete
<1>8. \A r \in Readers : ReaderInv(r)'
  <2> SUFFICES ASSUME NEW r \in Readers, reading[r] # None
               PROVE  ReaderInv(r)'
    BY <1>1 DEF ReaderInv
  <2>1. reading[r] \in Iterators /\ ReaderInv(r)
    BY DEF IInv, TypeOK
  <2>2. Len(reading[r].got) \in Nat /\ reading[r].count \in Nat
    BY <2>1 DEF Iterators
  <2> QED BY <1>1, <2>1, <2>2 DEF ReaderInv
<1> QED BY <1>1, <1>2, <1>3, <1>6, <1>7, <1>8 DEF FilesInv

\* Every variable but the file, and what the actions keep of it.
LEMMA VarTypes ==
  ASSUME IInv
  PROVE  /\ TypeOK /\ Numbered /\ LockHeld /\ RepairIsEnough /\ AckInv /\ FinishedIsComplete
         /\ count \in Nat /\ synced \in 0 .. Len(file) /\ Len(file) \in Nat
         /\ Len(file) <= count + 1
BY DEF IInv, TypeOK, RepairIsEnough

-----------------------------------------------------------------------------
(* Writers *)

LEMMA LockStep ==
  ASSUME IInv, NEW w \in Writers, NEW request \in Events \cup {Finish}, Lock(w, request)
  PROVE  IInv'
<1>1. /\ pc[w] = "idle" /\ lock = None /\ lock' = w /\ job' = [job EXCEPT ![w] = request]
      /\ pc' = [pc EXCEPT ![w] = "locked"] /\ UNCHANGED <<disk, reading, history>>
  BY DEF Lock, At, Goto
<1>2. FilesInv'
  BY <1>1, SameFiles
<1>3. TypeOK'
  BY <1>1 DEF IInv, TypeOK, Labels, disk, manifest, history
<1>4. \A v \in Writers : pc[v] = "idle"
  BY <1>1 DEF IInv, LockHeld
<1>5. pc'[w] = "locked" /\ \A v \in Writers : v # w => pc'[v] = "idle"
  BY <1>1, <1>4 DEF IInv, TypeOK
<1>6. LockHeld' /\ \A v \in Writers : WriterInv(v)'
  BY <1>1, <1>5 DEF LockHeld, WriterInv
<1> QED BY <1>2, <1>3, <1>6 DEF IInv, FilesInv

\* Refuse and Stop: the call ends and leaves everything as it is.
LEMMA LeaveStep ==
  ASSUME IInv, NEW w \in Writers, pc[w] # "idle", Unlock(w),
         UNCHANGED <<disk, job, reading, history>>
  PROVE  IInv'
<1>1. FilesInv'
  BY SameFiles
<1>2. /\ LockHeld' /\ pc' \in [Writers -> Labels] /\ lock' \in Writers \cup {None}
      /\ \A v \in Writers : WriterInv(v)'
  BY HolderLeaves DEF IInv
<1>3. TypeOK'
  BY <1>2 DEF IInv, TypeOK, disk, manifest, history
<1> QED BY <1>1, <1>2, <1>3 DEF IInv, FilesInv

LEMMA ReturnStep ==
  ASSUME IInv, NEW w \in Writers, Return(w)
  PROVE  IInv'
<1>1. /\ pc[w] \in {"counted", "repaired"} /\ Unlock(w)
      /\ UNCHANGED <<disk, job, reading, losses>>
      /\ written' = IF pc[w] = "counted" /\ job[w] # Finish THEN written \cup {job[w]} ELSE written
      /\ recovered' = IF pc[w] = "repaired" THEN recovered \cup {job[w]} ELSE recovered
  BY DEF Return, At
<1>2. /\ LockHeld' /\ pc' \in [Writers -> Labels] /\ lock' \in Writers \cup {None}
      /\ \A v \in Writers : WriterInv(v)'
  BY <1>1, HolderLeaves DEF IInv
<1>3. WriterInv(w) /\ job[w] \in Events \cup {Finish}
  BY DEF IInv, TypeOK
<1>4. written' \in SUBSET Events /\ recovered' \in SUBSET Events
  BY <1>1, <1>3 DEF IInv, TypeOK, WriterInv
<1>5. TypeOK'
  BY <1>1, <1>2, <1>4 DEF IInv, TypeOK, disk, manifest
<1>6. Numbered' /\ RepairIsEnough' /\ FinishedIsComplete'
  BY <1>1 DEF IInv, Numbered, RepairIsEnough, FinishedIsComplete, Readable, ParsesAt, disk, manifest
<1>7. \A e \in written' : e.sequence < synced /\ e.sequence < count /\ Holds(e)
  BY <1>1, <1>3 DEF IInv, AckInv, WriterInv
<1>8. \A e \in recovered' : Kept(e)
  BY <1>1, <1>3 DEF IInv, AckInv, WriterInv, Kept
<1>9. AckInv'
  BY <1>1, <1>7, <1>8 DEF AckInv, Kept, Holds, disk, manifest
<1>10. written \cup recovered \subseteq written' \cup recovered'
  BY <1>1
<1>11. \A r \in Readers : ReaderInv(r)'
  BY <1>1, <1>10 DEF IInv, ReaderInv, disk, manifest
<1> QED BY <1>2, <1>5, <1>6, <1>9, <1>11 DEF IInv

\* The file is counted completely, or but for its last text, when a writer may go on.
LEMMA StartLineStep ==
  ASSUME IInv, NEW w \in Writers, StartLine(w)
  PROVE  IInv'
<1> DEFINE text == [event |-> Fragment, ended |-> FALSE]
<1>1. /\ pc[w] = "locked" /\ job[w] # Finish /\ Writable /\ Len(file) = count
      /\ job[w].sequence = count /\ file' = Append(file, text)
      /\ pc' = [pc EXCEPT ![w] = "line"]
      /\ UNCHANGED <<synced, manifest, lock, job, reading, history>>
  BY DEF StartLine, At, Goto
<1>2. text \in Pieces /\ text.event = Fragment
  BY DEF Pieces
<1> HIDE DEF text
<1>3. file \in Seq(Pieces) /\ count \in Nat /\ synced \in 0 .. Len(file) /\ Len(file) \in Nat
  BY DEF IInv, TypeOK
<1>4. /\ file' \in Seq(Pieces) /\ Len(file') = count + 1 /\ file'[count + 1] = text
      /\ \A i \in 1 .. count : file'[i] = file[i]
  BY <1>1, <1>2, <1>3
<1>5. ~finished /\ \A i \in 1 .. count : file[i].event # Fragment
  BY <1>1 DEF Writable, Readable, ParsesAt
<1>6. FilesInv' /\ synced' \in 0 .. Len(file')
  BY <1>1, <1>2, <1>3, <1>4, <1>5, WriteStep
<1>7. /\ LockHeld' /\ pc' \in [Writers -> Labels] /\ pc'[w] = "line"
      /\ \A v \in Writers : v # w => WriterInv(v)'
  BY <1>1, HolderMoves DEF IInv, Labels
<1>8. WriterInv(w)'
  BY <1>1, <1>2, <1>3, <1>4, <1>5, <1>7 DEF WriterInv, manifest
<1>9. TypeOK'
  BY <1>1, <1>4, <1>6, <1>7 DEF IInv, TypeOK, manifest, history
<1> QED BY <1>6, <1>7, <1>8, <1>9 DEF IInv, FilesInv

\* EndObject and EndLine: the last text becomes the event of the call.
LEMMA EndTextStep ==
  ASSUME IInv, NEW w \in Writers, pc[w] \in {"line", "newline"}, NEW ended \in BOOLEAN,
         file' = [file EXCEPT ![Len(file)] = [event |-> job[w], ended |-> ended]],
         NEW label \in {"newline", "sync"}, pc' = [pc EXCEPT ![w] = label],
         UNCHANGED <<synced, manifest, lock, job, reading, history>>
  PROVE  IInv'
<1> DEFINE text == [event |-> job[w], ended |-> ended]
<1>1. /\ job[w] # Finish /\ ~finished /\ job[w].sequence = count
      /\ Len(file) = count + 1 /\ synced < Len(file)
  BY DEF IInv, WriterInv
<1>2. text \in Pieces /\ text.event = job[w] /\ job[w] \in Events
  BY <1>1 DEF IInv, TypeOK, Pieces
<1> HIDE DEF text
<1>3. file' = [file EXCEPT ![Len(file)] = text]
  BY DEF text
<1>4. file \in Seq(Pieces) /\ count \in Nat /\ synced \in 0 .. Len(file) /\ Len(file) \in Nat
  BY DEF IInv, TypeOK
<1>5. /\ file' \in Seq(Pieces) /\ Len(file') = count + 1 /\ file'[count + 1] = text
      /\ \A i \in 1 .. count : file'[i] = file[i]
  BY <1>1, <1>2, <1>3, <1>4
<1>6. \A i \in 1 .. count : file[i].event # Fragment
  BY <1>1, <1>4 DEF IInv, Numbered
<1>7. file'[count + 1].event # Fragment => file'[count + 1].event.sequence = count
  BY <1>1, <1>2, <1>5
<1>8. FilesInv' /\ synced' \in 0 .. Len(file')
  BY <1>1, <1>4, <1>5, <1>6, <1>7, WriteStep
<1>9. /\ LockHeld' /\ pc' \in [Writers -> Labels] /\ pc'[w] = label
      /\ \A v \in Writers : v # w => WriterInv(v)'
  BY HolderMoves DEF IInv, Labels
<1>10. WriterInv(w)'
  BY <1>1, <1>2, <1>4, <1>5, <1>9 DEF WriterInv, manifest
<1>11. TypeOK'
  BY <1>5, <1>8, <1>9 DEF IInv, TypeOK, manifest, history
<1> QED BY <1>8, <1>9, <1>10, <1>11 DEF IInv, FilesInv

LEMMA SyncStep ==
  ASSUME IInv, NEW w \in Writers, Sync(w)
  PROVE  IInv'
<1>1. /\ pc[w] = "sync" /\ synced' = Len(file) /\ pc' = [pc EXCEPT ![w] = "manifest"]
      /\ UNCHANGED <<file, manifest, lock, job, reading, history>>
  BY DEF Sync, At, Goto
<1>2. Len(file) \in Nat /\ synced \in 0 .. Len(file) /\ synced' \in 0 .. Len(file)
  BY <1>1, VarTypes
<1>3. /\ LockHeld' /\ pc' \in [Writers -> Labels] /\ pc'[w] = "manifest"
      /\ \A v \in Writers : v # w => WriterInv(v)'
  BY <1>1, HolderMoves DEF IInv, Labels
<1>4. WriterInv(w)'
  BY <1>1, <1>3 DEF IInv, WriterInv, manifest
<1>5. TypeOK'
  BY <1>1, <1>2, <1>3 DEF IInv, TypeOK, manifest, history
<1>6. \A e \in written : e.sequence < synced'
  <2> SUFFICES ASSUME NEW e \in written
               PROVE  e.sequence < Len(file)
    BY <1>1
  <2>1. e.sequence \in Nat /\ e.sequence < synced
    BY EventTypes DEF IInv, AckInv, TypeOK
  <2> QED BY <1>2, <2>1
<1>7. AckInv'
  BY <1>1, <1>6 DEF IInv, AckInv, Kept, Holds, manifest, history
<1>8. Numbered' /\ RepairIsEnough' /\ FinishedIsComplete'
  BY <1>1 DEF IInv, Numbered, RepairIsEnough, FinishedIsComplete, Readable, ParsesAt, manifest, history
<1>9. \A r \in Readers : ReaderInv(r)'
  BY <1>1 DEF IInv, ReaderInv, manifest, history
<1> QED BY <1>3, <1>4, <1>5, <1>7, <1>8, <1>9 DEF IInv

\* Steps that write the manifest: the count goes up to the length of the file, or stays.
LEMMA ManifestStep ==
  ASSUME IInv, UNCHANGED <<file, synced, reading, history>>,
         count' = Len(file), count <= Len(file), finished' \in BOOLEAN,
         finished' => finished \/ Readable
  PROVE  FilesInv' /\ count' \in Nat
<1>1. /\ count \in Nat /\ Len(file) \in Nat /\ Len(file) <= count + 1
      /\ written \in SUBSET Events /\ recovered \in SUBSET Events
  BY DEF IInv, TypeOK, RepairIsEnough
<1>2. Numbered' /\ RepairIsEnough'
  BY <1>1 DEF IInv, Numbered, RepairIsEnough
<1>3. AckInv'
  <2>1. \A e \in Events : e.sequence \in Nat
    BY EventTypes
  <2>2. \A e \in written \cup recovered : e.sequence < count => e.sequence < count'
    BY <1>1, <2>1
  <2> QED BY <2>2 DEF IInv, AckInv, Kept, Holds, history
<1>4. FinishedIsComplete'
  BY <1>1 DEF IInv, FinishedIsComplete, Readable, ParsesAt, history
<1>5. \A r \in Readers : ReaderInv(r)'
  <2> SUFFICES ASSUME NEW r \in Readers, reading[r] # None
               PROVE  ReaderInv(r)'
    BY DEF ReaderInv
  <2>1. reading[r] \in Iterators /\ ReaderInv(r)
    BY DEF IInv, TypeOK
  <2>2. reading[r].count \in Nat /\ reading[r].count <= count
    BY <2>1 DEF Iterators, ReaderInv
  <2>3. reading[r].count <= count'
    BY <1>1, <2>2
  <2> QED BY <2>1, <2>3 DEF ReaderInv, history
<1> QED BY <1>1, <1>2, <1>3, <1>4, <1>5 DEF FilesInv

LEMMA CountEventStep ==
  ASSUME IInv, NEW w \in Writers, CountEvent(w)
  PROVE  IInv'
<1>1. /\ pc[w] = "manifest" /\ count' = count + 1 /\ pc' = [pc EXCEPT ![w] = "counted"]
      /\ UNCHANGED <<file, synced, finished, lock, job, reading, history>>
  BY DEF CountEvent, At, Goto
<1>2. /\ job[w] # Finish /\ ~finished /\ job[w].sequence = count /\ Len(file) = count + 1
      /\ file[Len(file)].event = job[w] /\ synced = Len(file)
  BY <1>1 DEF IInv, WriterInv
<1>3. count \in Nat /\ Len(file) \in Nat
  BY VarTypes
<1>4. FilesInv' /\ count' \in Nat
  BY <1>1, <1>2, <1>3, ManifestStep DEF IInv, TypeOK
<1>5. /\ LockHeld' /\ pc' \in [Writers -> Labels] /\ pc'[w] = "counted"
      /\ \A v \in Writers : v # w => WriterInv(v)'
  BY <1>1, HolderMoves DEF IInv, Labels
<1>6. WriterInv(w)'
  BY <1>1, <1>2, <1>3, <1>5 DEF WriterInv, Holds
<1>7. TypeOK'
  BY <1>1, <1>4, <1>5 DEF IInv, TypeOK, history
<1> QED BY <1>4, <1>5, <1>6, <1>7 DEF IInv, FilesInv

LEMMA SealTapeStep ==
  ASSUME IInv, NEW w \in Writers, SealTape(w)
  PROVE  IInv'
<1>1. /\ pc[w] = "locked" /\ job[w] = Finish /\ Writable /\ count' = Len(file)
      /\ finished' = TRUE /\ pc' = [pc EXCEPT ![w] = "counted"]
      /\ UNCHANGED <<file, synced, lock, job, reading, history>>
  BY DEF SealTape, At, Goto
<1>2. count \in Nat /\ Len(file) \in Nat /\ count <= Len(file) /\ Readable
  BY <1>1, VarTypes DEF Writable
<1>3. FilesInv' /\ count' \in Nat
  BY <1>1, <1>2, ManifestStep
<1>4. /\ LockHeld' /\ pc' \in [Writers -> Labels] /\ pc'[w] = "counted"
      /\ \A v \in Writers : v # w => WriterInv(v)'
  BY <1>1, HolderMoves DEF IInv, Labels
<1>5. WriterInv(w)'
  BY <1>1, <1>4 DEF WriterInv
<1>6. TypeOK'
  BY <1>1, <1>3, <1>4 DEF IInv, TypeOK, history
<1> QED BY <1>3, <1>4, <1>5, <1>6 DEF IInv, FilesInv

LEMMA RepairStep ==
  ASSUME IInv, NEW w \in Writers, Repair(w)
  PROVE  IInv'
<1> DEFINE label == IF file[Len(file)].event = job[w] THEN "repaired" ELSE "locked"
<1>1. /\ pc[w] = "locked" /\ job[w] # Finish /\ Writable /\ Len(file) = count + 1
      /\ count' = count + 1 /\ pc' = [pc EXCEPT ![w] = label]
      /\ UNCHANGED <<file, synced, finished, lock, job, reading, history>>
  BY DEF Repair, At
<1>2. label \in Labels \ {"idle"} /\ label \in {"locked", "repaired"}
  BY DEF Labels
<1>3. count \in Nat /\ Len(file) \in Nat /\ finished \in BOOLEAN
  BY VarTypes DEF TypeOK
<1>4. FilesInv' /\ count' \in Nat
  BY <1>1, <1>3, ManifestStep
<1>5. label = "repaired" => /\ file[Len(file)].event = job[w]
                            /\ job[w].sequence = Len(file) - 1
  BY <1>1, <1>3 DEF Writable, Readable, ParsesAt
<1> HIDE DEF label
<1>6. /\ LockHeld' /\ pc' \in [Writers -> Labels] /\ pc'[w] = label
      /\ \A v \in Writers : v # w => WriterInv(v)'
  BY <1>1, <1>2, HolderMoves DEF IInv
<1>7. WriterInv(w)'
  BY <1>1, <1>2, <1>3, <1>5, <1>6 DEF WriterInv, Holds
<1>8. TypeOK'
  BY <1>1, <1>4, <1>6 DEF IInv, TypeOK, history
<1> QED BY <1>4, <1>6, <1>7, <1>8 DEF IInv, FilesInv

-----------------------------------------------------------------------------
(* Readers *)

\* Steps of a reader change its iterator alone.
LEMMA ReaderStep ==
  ASSUME IInv, NEW r \in Readers, NEW it \in Iterators \cup {None},
         reading' = [reading EXCEPT ![r] = it],
         UNCHANGED <<disk, lock, pc, job, history>>,
         ReaderInv(r)'
  PROVE  IInv'
<1>1. \A q \in Readers : ReaderInv(q)'
  <2> SUFFICES ASSUME NEW q \in Readers, q # r
               PROVE  ReaderInv(q)'
    OBVIOUS
  <2>1. reading'[q] = reading[q]
    BY DEF IInv, TypeOK
  <2> QED BY <2>1 DEF IInv, ReaderInv, disk, manifest, history
<1>2. TypeOK'
  BY DEF IInv, TypeOK, disk, manifest, history
<1>3. Numbered' /\ RepairIsEnough' /\ FinishedIsComplete' /\ AckInv'
  BY DEF IInv, Numbered, RepairIsEnough, FinishedIsComplete, Readable, ParsesAt,
         AckInv, Kept, Holds, disk, manifest, history
<1>4. LockHeld' /\ \A w \in Writers : WriterInv(w)'
  BY DEF IInv, LockHeld, WriterInv, Holds, disk, manifest, history
<1> QED BY <1>1, <1>2, <1>3, <1>4 DEF IInv

LEMMA OpenStep ==
  ASSUME IInv, NEW r \in Readers, Open(r)
  PROVE  IInv'
<1> DEFINE it == [got |-> <<>>, count |-> count, since |-> written \cup recovered, done |-> FALSE]
<1>1. reading' = [reading EXCEPT ![r] = it] /\ UNCHANGED <<disk, lock, pc, job, history>>
  BY DEF Open
<1>2. it \in Iterators
  BY DEF IInv, TypeOK, Iterators
<1>3. reading'[r] = it
  BY <1>1 DEF IInv, TypeOK
<1>4. \A e \in it.since : e.sequence < count
  BY DEF IInv, AckInv, Kept
<1>5. Len(it.got) = 0 /\ it.count = count /\ it.since = written \cup recovered /\ ~it.done
  OBVIOUS
<1> HIDE DEF it
<1>6. ReaderInv(r)'
  BY <1>1, <1>3, <1>4, <1>5, VarTypes DEF ReaderInv, disk, manifest, history
<1> QED BY <1>1, <1>2, <1>6, ReaderStep

LEMMA ReadEventStep ==
  ASSUME IInv, NEW r \in Readers, ReadEvent(r)
  PROVE  IInv'
<1> DEFINE old == reading[r]
           event == file[Len(old.got) + 1].event
           it == WithNext(old, event)
<1>1. /\ old # None /\ ~old.done /\ NextIsEvent(r)
      /\ reading' = [reading EXCEPT ![r] = it] /\ UNCHANGED <<disk, lock, pc, job, history>>
  BY DEF ReadEvent, Reads, NextLine
<1>2. old \in Iterators /\ ReaderInv(r)
  BY <1>1 DEF IInv, TypeOK
<1>3. old.got \in Seq(Events) /\ Len(old.got) \in Nat /\ old.count \in Nat
  BY <1>2 DEF Iterators
<1>4. /\ Len(old.got) + 1 <= Len(file) /\ Len(old.got) + 1 <= old.count
      /\ event # Fragment
  BY <1>1 DEF NextIsEvent, NextLine, ParsesAt
<1>5. event \in Events
  BY <1>3, <1>4, TextTypes DEF IInv
<1> HIDE DEF event
<1>6. it \in Iterators
  <2>1. Append(old.got, event) \in Seq(Events)
    BY <1>3, <1>5
  <2> QED BY <1>2, <2>1 DEF Iterators, WithNext
<1>7. /\ it.got = Append(old.got, event) /\ it.count = old.count /\ it.since = old.since
      /\ it.done = old.done
  BY <1>2 DEF Iterators, WithNext
<1>8. reading'[r] = it
  BY <1>1 DEF IInv, TypeOK
<1> HIDE DEF it
<1>9. /\ Len(it.got) = Len(old.got) + 1
      /\ \A i \in 1 .. Len(it.got) : it.got[i] = IF i = Len(it.got) THEN event ELSE old.got[i]
  BY <1>3, <1>5, <1>7
<1>10. \A i \in 1 .. Len(it.got) : it.got[i] = file[i].event /\ it.got[i] # Fragment
  <2> SUFFICES ASSUME NEW i \in 1 .. Len(it.got)
               PROVE  it.got[i] = file[i].event /\ it.got[i] # Fragment
    OBVIOUS
  <2>1. CASE i = Len(it.got)
    BY <1>4, <1>9, <2>1 DEF event
  <2>2. CASE i # Len(it.got)
    <3>1. i \in 1 .. Len(old.got)
      BY <1>3, <1>9, <2>2
    <3> QED BY <1>1, <1>2, <1>9, <2>2, <3>1 DEF ReaderInv
  <2> QED BY <2>1, <2>2
<1> HIDE DEF old
<1>11. ReaderInv(r)'
  <2>1. Len(it.got) <= it.count /\ Len(it.got) <= Len(file) /\ ~it.done
    BY <1>1, <1>4, <1>7, <1>9
  <2>2. /\ it.count <= count /\ it.since \subseteq written \cup recovered
        /\ \A e \in it.since : e.sequence < it.count
    BY <1>1, <1>2, <1>7 DEF ReaderInv, old
  <2> QED BY <1>1, <1>8, <1>10, <2>1, <2>2 DEF ReaderInv, disk, manifest, history
<1> QED BY <1>1, <1>6, <1>11, ReaderStep

LEMMA ReadEndStep ==
  ASSUME IInv, NEW r \in Readers, ReadEnd(r)
  PROVE  IInv'
<1> DEFINE old == reading[r]
           it == [old EXCEPT !.done = TRUE]
<1>1. /\ old # None /\ NextIsEnd(r)
      /\ reading' = [reading EXCEPT ![r] = it] /\ UNCHANGED <<disk, lock, pc, job, history>>
  BY DEF ReadEnd, Reads
<1>2. old \in Iterators /\ ReaderInv(r)
  BY <1>1 DEF IInv, TypeOK
<1>3. /\ it \in Iterators /\ it.got = old.got /\ it.count = old.count /\ it.since = old.since
      /\ Len(old.got) \in Nat /\ old.count \in Nat
  <2>1. it \in Iterators
    BY <1>2 DEF Iterators
  <2>2. it.got = old.got /\ it.count = old.count /\ it.since = old.since
    BY <1>2 DEF Iterators
  <2>3. Len(old.got) \in Nat /\ old.count \in Nat
    BY <1>2 DEF Iterators
  <2> QED BY <2>1, <2>2, <2>3
<1>4. Len(old.got) = old.count
  BY <1>1, <1>2, <1>3 DEF NextIsEnd, NextLine, ReaderInv
<1>5. reading'[r] = it
  BY <1>1 DEF IInv, TypeOK
<1> HIDE DEF it
<1>6. ReaderInv(r)'
  BY <1>1, <1>2, <1>3, <1>4, <1>5 DEF ReaderInv, disk, manifest, history
<1> QED BY <1>1, <1>3, <1>6, ReaderStep

LEMMA ReadErrorStep ==
  ASSUME IInv, NEW r \in Readers, ReadError(r)
  PROVE  IInv'
<1>1. reading' = [reading EXCEPT ![r] = None] /\ UNCHANGED <<disk, lock, pc, job, history>>
  BY DEF ReadError
<1>2. reading \in [Readers -> Iterators \cup {None}]
  BY DEF IInv, TypeOK
<1>3. reading'[r] = None
  BY <1>1, <1>2
<1>4. ReaderInv(r)'
  BY <1>3 DEF ReaderInv
<1> QED BY <1>1, <1>4, ReaderStep

-----------------------------------------------------------------------------
(* Power losses *)

\* A cut file keeps its texts, but for the last one, if that was not synced.
LEMMA CutFacts ==
  ASSUME TypeOK, NEW n \in synced .. Len(file), NEW f \in Cuts(n)
  PROVE  /\ f \in Seq(Pieces) /\ Len(f) = n
         /\ \A i \in 1 .. n :
              f[i].event = file[i].event \/ (i = n /\ synced < n /\ f[i].event = Fragment)
<1> DEFINE kept == SubSeq(file, 1, n)
<1>1. file \in Seq(Pieces) /\ synced \in Nat /\ n \in Nat /\ n <= Len(file) /\ synced <= n
  BY DEF TypeOK
<1>2. kept \in Seq(Pieces) /\ Len(kept) = n /\ \A i \in 1 .. n : kept[i] = file[i]
  BY <1>1
<1> HIDE DEF kept
<1>3. CASE f = kept
  BY <1>2, <1>3
<1>4. CASE n # synced /\ \E text \in {Fragment, file[n].event} :
                            f = [kept EXCEPT ![n] = [event |-> text, ended |-> FALSE]]
  <2>1. PICK text \in {Fragment, file[n].event} :
               f = [kept EXCEPT ![n] = [event |-> text, ended |-> FALSE]]
    BY <1>4
  <2>2. n \in 1 .. Len(file) /\ synced < n
    BY <1>1, <1>4
  <2>3. text \in Events \cup {Fragment}
    BY <2>1, <2>2, TextTypes
  <2> DEFINE piece == [event |-> text, ended |-> FALSE]
  <2>4. piece \in Pieces /\ piece.event = text
    BY <2>3 DEF Pieces
  <2> HIDE DEF piece
  <2>5. f = [kept EXCEPT ![n] = piece]
    BY <2>1 DEF piece
  <2>6. f \in Seq(Pieces) /\ Len(f) = n /\ f[n] = piece /\ \A i \in 1 .. n : i # n => f[i] = kept[i]
    BY <1>1, <1>2, <2>2, <2>4, <2>5
  <2> QED BY <1>2, <2>1, <2>2, <2>4, <2>6
<1> QED BY <1>3, <1>4 DEF Cuts, kept

LEMMA PowerLossStep ==
  ASSUME IInv, PowerLoss
  PROVE  IInv'
<1>1. /\ losses < MaxLosses /\ losses' = losses + 1 /\ lock' = None
      /\ pc' = [w \in Writers |-> "idle"] /\ reading' = [r \in Readers |-> None]
      /\ UNCHANGED <<manifest, job, written, recovered>>
  BY DEF PowerLoss
<1>2. PICK n \in synced .. Len(file) : file' \in Cuts(n) /\ synced' = n
  BY DEF PowerLoss
<1>3. /\ file' \in Seq(Pieces) /\ Len(file') = n
      /\ \A i \in 1 .. n :
           file'[i].event = file[i].event \/ (i = n /\ synced < n /\ file'[i].event = Fragment)
  BY <1>2, CutFacts DEF IInv
<1>4. /\ synced \in Nat /\ n \in Nat /\ n <= Len(file) /\ synced <= n /\ Len(file) \in Nat
      /\ count \in Nat /\ Len(file) <= count + 1 /\ count' = count /\ finished' = finished
      /\ losses \in Nat /\ losses' \in Nat /\ losses' > 0 /\ losses' \in 0 .. MaxLosses
      /\ written \in SUBSET Events /\ recovered \in SUBSET Events
      /\ written' = written /\ recovered' = recovered
  BY <1>1, VarTypes DEF TypeOK, manifest
<1>5. TypeOK'
  <2>1. pc' \in [Writers -> Labels] /\ reading' \in [Readers -> Iterators \cup {None}]
    BY <1>1 DEF Labels
  <2>2. synced' \in 0 .. Len(file')
    BY <1>2, <1>3, <1>4
  <2> QED BY <1>1, <1>3, <1>4, <2>1, <2>2 DEF IInv, TypeOK
<1>6. LockHeld' /\ \A w \in Writers : WriterInv(w)'
  BY <1>1 DEF LockHeld, WriterInv
<1>7. \A r \in Readers : ReaderInv(r)'
  BY <1>1 DEF ReaderInv
<1>8. RepairIsEnough' /\ FinishedIsComplete'
  BY <1>3, <1>4 DEF RepairIsEnough, FinishedIsComplete
<1>9. Numbered'
  <2> SUFFICES ASSUME NEW i \in 1 .. n
               PROVE  IF file'[i].event = Fragment THEN i = n
                      ELSE file'[i].event.sequence = i - 1
    BY <1>3 DEF Numbered
  <2>1. i \in 1 .. Len(file)
    BY <1>4
  <2>2. IF file[i].event = Fragment THEN i = Len(file) ELSE file[i].event.sequence = i - 1
    BY <2>1 DEF IInv, Numbered
  <2> QED BY <1>3, <1>4, <2>2
<1>10. \A e \in written : e.sequence < synced' /\ e.sequence < count' /\ Holds(e)'
  <2> SUFFICES ASSUME NEW e \in written
               PROVE  e.sequence < synced' /\ e.sequence < count' /\ Holds(e)'
    OBVIOUS
  <2>1. e.sequence \in Nat /\ e.sequence < synced /\ e.sequence < count /\ Holds(e)
    BY <1>4, EventTypes DEF IInv, AckInv
  <2>2. e.sequence + 1 \in 1 .. n /\ e.sequence + 1 <= synced
    BY <1>4, <2>1
  <2>3. file'[e.sequence + 1].event = file[e.sequence + 1].event
    BY <1>3, <1>4, <2>2
  <2> QED BY <1>2, <1>3, <1>4, <2>1, <2>2, <2>3 DEF Holds
<1>11. \A e \in recovered : Kept(e)'
  <2> SUFFICES ASSUME NEW e \in recovered
               PROVE  Kept(e)'
    OBVIOUS
  <2>1. e.sequence \in Nat /\ Kept(e)
    BY <1>4, EventTypes DEF IInv, AckInv
  <2>2. CASE n < e.sequence + 1
    BY <1>3, <1>4, <2>1, <2>2 DEF Kept
  <2>3. CASE e.sequence + 1 <= n
    <3>1. e.sequence + 1 \in 1 .. n
      BY <1>4, <2>1, <2>3
    <3>2. CASE Holds(e)
      BY <1>3, <1>4, <2>1, <3>1, <3>2 DEF Kept, Holds
    <3>3. CASE ~Holds(e)
      BY <1>3, <1>4, <2>1, <2>3, <3>1, <3>3 DEF Kept
    <3> QED BY <3>2, <3>3
  <2> QED BY <1>4, <2>1, <2>2, <2>3
<1> QED BY <1>4, <1>5, <1>6, <1>7, <1>8, <1>9, <1>10, <1>11 DEF IInv, AckInv

-----------------------------------------------------------------------------
(* The theorems *)

LEMMA StepInv == IInv /\ [Next]_vars => IInv'
<1> SUFFICES ASSUME IInv, [Next]_vars
             PROVE  IInv'
  OBVIOUS
<1>1. ASSUME NEW w \in Writers, NEW request \in Events \cup {Finish}, Lock(w, request)
      PROVE  IInv'
  BY <1>1, LockStep
<1>2. ASSUME NEW w \in Writers, Refuse(w) \/ Stop(w)
      PROVE  IInv'
  BY <1>2, LeaveStep DEF Refuse, Stop, At
<1>3. ASSUME NEW w \in Writers, EndObject(w)
      PROVE  IInv'
  BY <1>3, EndTextStep DEF EndObject, At, Goto
<1>4. ASSUME NEW w \in Writers, EndLine(w)
      PROVE  IInv'
  BY <1>4, EndTextStep DEF EndLine, At, Goto
<1>5. ASSUME NEW w \in Writers, Work(w)
      PROVE  IInv'
  BY <1>2, <1>3, <1>4, <1>5, RepairStep, StartLineStep, SyncStep, CountEventStep, SealTapeStep,
     ReturnStep DEF Work
<1>6. ASSUME NEW r \in Readers, Open(r) \/ Read(r)
      PROVE  IInv'
  BY <1>6, OpenStep, ReadEventStep, ReadEndStep, ReadErrorStep DEF Read
<1>7. CASE PowerLoss
  BY <1>7, PowerLossStep
<1>8. CASE UNCHANGED vars
  <2>1. FilesInv'
    BY <1>8, SameFiles DEF vars
  <2>2. TypeOK' /\ LockHeld' /\ \A w \in Writers : WriterInv(w)'
    BY <1>8 DEF IInv, TypeOK, LockHeld, WriterInv, Holds, vars, disk, manifest, history
  <2> QED BY <2>1, <2>2 DEF IInv, FilesInv
<1> QED BY <1>1, <1>2, <1>5, <1>6, <1>7, <1>8 DEF Next

\* The inductive invariant of TapeStore holds in every reachable state.
THEOREM TapeInvariance == Spec => []IInv
<1> QED BY InitInv, StepInv, PTL DEF Spec

\* What an append wrote and acknowledged stays in the file, through crashes and power losses.
THEOREM AcceptedEventsStay == Spec => []AcceptedIsKept
<1>1. IInv => AcceptedIsKept
  BY DEF IInv, AckInv, Kept, AcceptedIsKept
<1> QED BY <1>1, TapeInvariance, PTL

\* The file is never more than one event ahead of the manifest, which is what the next append
\* or finish can repair.
THEOREM OneRepairSuffices == Spec => []RepairIsEnough
<1>1. IInv => RepairIsEnough
  BY DEF IInv
<1> QED BY <1>1, TapeInvariance, PTL

\* A finished Tape can be read and has the events its manifest counts, unless power was lost.
THEOREM FinishedTapesAreComplete == Spec => []FinishedIsComplete
<1>1. IInv => FinishedIsComplete
  BY DEF IInv
<1> QED BY <1>1, TapeInvariance, PTL

\* A read that ended without an error returned all events acknowledged before it began, in
\* order and without a gap, although it took no lock.
THEOREM CompletedReadsAreComplete == Spec => []ReadIsComplete
<1>1. IInv => ReadIsComplete
  <2> SUFFICES ASSUME IInv, NEW r \in Readers, reading[r] # None, reading[r].done
               PROVE  /\ \A i \in 1 .. Len(reading[r].got) : reading[r].got[i].sequence = i - 1
                      /\ \A e \in reading[r].since :
                           \E i \in 1 .. Len(reading[r].got) : reading[r].got[i] = e
    BY DEF ReadIsComplete
  <2> DEFINE it == reading[r]
  <2>1. it \in Iterators /\ ReaderInv(r)
    BY DEF IInv, TypeOK
  <2>2. Len(it.got) \in Nat /\ it.count \in Nat
    BY <2>1 DEF Iterators
  <2>3. /\ Len(it.got) = it.count /\ Len(it.got) <= Len(file)
        /\ \A i \in 1 .. Len(it.got) : it.got[i] = file[i].event /\ it.got[i] # Fragment
        /\ it.since \subseteq written \cup recovered
        /\ \A e \in it.since : e.sequence < it.count
    BY <2>1 DEF ReaderInv
  <2> HIDE DEF it
  <2>4. \A i \in 1 .. Len(it.got) : i \in 1 .. Len(file) /\ it.got[i].sequence = i - 1
    <3> SUFFICES ASSUME NEW i \in 1 .. Len(it.got)
                 PROVE  i \in 1 .. Len(file) /\ it.got[i].sequence = i - 1
      OBVIOUS
    <3>1. Len(file) \in Nat /\ Numbered
      BY VarTypes
    <3>2. i \in 1 .. Len(file)
      BY <2>2, <2>3, <3>1
    <3>3. it.got[i] = file[i].event /\ file[i].event # Fragment
      BY <2>3
    <3>4. file[i].event.sequence = i - 1
      BY <3>1, <3>2, <3>3 DEF Numbered
    <3> QED BY <3>2, <3>3, <3>4
  <2>5. ASSUME NEW e \in it.since
        PROVE  \E i \in 1 .. Len(it.got) : it.got[i] = e
    <3>1. e.sequence \in Nat /\ e.sequence < it.count /\ (e \in written \/ e \in recovered)
      BY <2>3, EventTypes DEF IInv, TypeOK
    <3>2. e.sequence + 1 \in 1 .. Len(it.got)
      BY <2>2, <2>3, <3>1
    <3>3. Holds(e) \/ (Len(file) = e.sequence + 1 /\ file[Len(file)].event = Fragment)
      BY <2>2, <2>3, <3>1, <3>2, VarTypes DEF AckInv, Kept
    <3>4. it.got[e.sequence + 1] = e
      BY <2>3, <3>2, <3>3 DEF Holds
    <3> QED BY <3>2, <3>4
  <2> QED BY <2>4, <2>5 DEF it
<1> QED BY <1>1, TapeInvariance, PTL

\* No step changes a finished Tape: only a power loss can take something from it.
FinalStep == finished => finished' /\ count' = count /\ (losses' = losses => file' = file)

THEOREM FinishedTapesAreFinal == Spec => FinishedIsFinal
<1>1. IInv /\ [Next]_vars => [FinalStep]_vars
  <2> SUFFICES ASSUME IInv, [Next]_vars, finished
               PROVE  finished' /\ count' = count /\ (losses' = losses => file' = file)
    BY DEF FinalStep
  <2>1. ASSUME NEW w \in Writers
        PROVE  ~Repair(w) /\ ~StartLine(w) /\ ~SealTape(w)
    BY DEF Repair, StartLine, SealTape, Writable
  <2>2. ASSUME NEW w \in Writers
        PROVE  ~EndObject(w) /\ ~EndLine(w) /\ ~CountEvent(w)
    BY DEF IInv, WriterInv, EndObject, EndLine, CountEvent, At
  <2>3. ASSUME NEW w \in Writers, NEW request \in Events \cup {Finish}, Lock(w, request)
        PROVE  UNCHANGED disk
    BY <2>3 DEF Lock
  <2>4. ASSUME NEW w \in Writers, Work(w) \/ Stop(w)
        PROVE  UNCHANGED <<file, manifest>>
    BY <2>1, <2>2, <2>4 DEF Work, Refuse, Sync, Return, Stop, disk
  <2>5. ASSUME NEW r \in Readers, Open(r) \/ Read(r)
        PROVE  UNCHANGED disk
    BY <2>5 DEF Open, Read, ReadEvent, ReadEnd, ReadError
  <2>6. CASE PowerLoss
    <3>1. losses' = losses + 1 /\ losses \in Nat /\ UNCHANGED manifest
      BY <2>6 DEF PowerLoss, IInv, TypeOK
    <3> QED BY <3>1 DEF manifest
  <2>7. CASE UNCHANGED vars
    BY <2>7 DEF vars, disk, manifest
  <2> QED BY <2>3, <2>4, <2>5, <2>6, <2>7 DEF Next, disk, manifest
<1> QED BY <1>1, TapeInvariance, PTL DEF Spec, FinishedIsFinal, FinalStep

-----------------------------------------------------------------------------
(* Refinement *)

\* The events the manifest counts, and one more.
LEMMA LogGrows ==
  ASSUME NEW texts, NEW n \in Nat
  PROVE  [i \in 1 .. n + 1 |-> texts[i].event]
           = Append([i \in 1 .. n |-> texts[i].event], texts[n + 1].event)
<1> DEFINE short == [i \in 1 .. n |-> texts[i].event]
           long == [i \in 1 .. n + 1 |-> texts[i].event]
           S == {texts[i].event : i \in 1 .. n + 1}
<1>1. short \in Seq(S) /\ Len(short) = n /\ texts[n + 1].event \in S
  BY DEF short
<1>2. long \in Seq(S) /\ Len(long) = n + 1
  BY DEF long
<1>3. \A i \in 1 .. n + 1 : long[i] = Append(short, texts[n + 1].event)[i]
  BY <1>1
<1> HIDE DEF short, long, S
<1>4. Append(short, texts[n + 1].event) \in Seq(S)
      /\ Len(Append(short, texts[n + 1].event)) = n + 1
  BY <1>1
<1> QED BY <1>2, <1>3, <1>4 DEF short, long

\* What the abstract log sees does not change if the counted texts do not.
LEMMA LogStays ==
  ASSUME IInv, losses = 0, count' = count,
         \A i \in 1 .. count : file'[i] = file[i]
  PROVE  [i \in 1 .. count |-> file[i].event]' = [i \in 1 .. count |-> file[i].event]
BY VarTypes

LEMMA OnlyPowerLossIsLoss ==
  ASSUME [Next]_vars
  PROVE  losses' = losses \/ PowerLoss
<1>1. ASSUME NEW w \in Writers, Work(w)
      PROVE  losses' = losses
  BY <1>1 DEF Work, Writable, Refuse, Repair, StartLine, EndObject, EndLine, Sync, CountEvent,
              SealTape, Return, history
<1>2. ASSUME NEW w \in Writers, Stop(w) \/ \E request \in Events \cup {Finish} : Lock(w, request)
      PROVE  losses' = losses
  BY <1>2 DEF Stop, Lock, history
<1>3. ASSUME NEW r \in Readers, Open(r) \/ Read(r)
      PROVE  losses' = losses
  BY <1>3 DEF Open, Read, ReadEvent, ReadEnd, ReadError, history
<1>4. CASE UNCHANGED vars
  BY <1>4 DEF vars, history
<1> QED BY <1>1, <1>2, <1>3, <1>4 DEF Next

LEMMA LogStep ==
  ASSUME IInv, [Next]_vars, losses' = 0
  PROVE  [Promise!LogNext]_(Promise!logVars)
<1> DEFINE log == [i \in 1 .. count |-> file[i].event]
<1>0. losses = 0 /\ ~PowerLoss
  BY OnlyPowerLossIsLoss DEF PowerLoss, IInv, TypeOK
<1>1. losses = 0 /\ ~PowerLoss /\ count \in Nat /\ Len(file) \in Nat /\ count <= Len(file)
  BY <1>0, VarTypes DEF IInv, TypeOK, RepairIsEnough
<1>2. ASSUME UNCHANGED <<file, count, finished, written, recovered>>
      PROVE  UNCHANGED Promise!logVars
  BY <1>2 DEF Promise!logVars
<1>3. ASSUME NEW w \in Writers, StartLine(w) \/ EndObject(w) \/ EndLine(w)
      PROVE  UNCHANGED Promise!logVars
  <2>1. UNCHANGED <<manifest, history>>
    BY <1>3 DEF StartLine, EndObject, EndLine
  <2>2. \A i \in 1 .. count : file'[i] = file[i]
    <3>1. CASE StartLine(w)
      BY <1>1, <3>1 DEF StartLine, IInv, TypeOK
    <3>2. CASE EndObject(w) \/ EndLine(w)
      <4>1. Len(file) = count + 1
        BY <3>2 DEF EndObject, EndLine, At, IInv, WriterInv
      <4>2. \E text : file' = [file EXCEPT ![Len(file)] = text]
        BY <3>2 DEF EndObject, EndLine
      <4> QED BY <1>1, <4>1, <4>2 DEF IInv, TypeOK
    <3> QED BY <1>3, <3>1, <3>2
  <2>3. log' = log
    BY <1>1, <2>1, <2>2, LogStays DEF manifest
  <2> QED BY <2>1, <2>3 DEF Promise!logVars, manifest, history
<1>4. ASSUME NEW w \in Writers, CountEvent(w) \/ Repair(w)
      PROVE  \E e \in Events : Promise!Add(e)
  <2>1. /\ ~finished /\ Len(file) = count + 1 /\ count' = count + 1
        /\ UNCHANGED <<file, finished, history>>
    BY <1>4 DEF CountEvent, Repair, Writable, At, IInv, WriterInv
  <2>2. \E e \in Events : e = file[count + 1].event /\ e.sequence = count
    <3>1. CASE CountEvent(w)
      BY <2>1, <3>1 DEF CountEvent, At, IInv, TypeOK, WriterInv
    <3>2. CASE Repair(w)
      <4>1. ParsesAt(count + 1)
        BY <1>1, <2>1, <3>2 DEF Repair, Writable, Readable
      <4>2. file[count + 1].event \in Events \cup {Fragment}
        BY <1>1, <2>1, TextTypes DEF IInv
      <4> QED BY <1>1, <4>1, <4>2 DEF ParsesAt
    <3> QED BY <1>4, <3>1, <3>2
  <2> PICK e \in Events : e = file[count + 1].event /\ e.sequence = count
    BY <2>2
  <2>3. log' = Append(log, e)
    BY <1>1, <2>1, LogGrows
  <2>4. Len(log) = count
    BY <1>1
  <2> HIDE DEF log
  <2>5. Promise!Add(e)
    BY <2>1, <2>3, <2>4 DEF Promise!Add, log, history
  <2> QED BY <2>5
<1>5. ASSUME NEW w \in Writers, SealTape(w)
      PROVE  Promise!Seal
  <2>1. /\ ~finished /\ finished' = TRUE /\ Len(file) \in {count, count + 1} /\ count' = Len(file)
        /\ Readable /\ UNCHANGED <<file, history>>
    BY <1>5 DEF SealTape, Writable
  <2>2. CASE Len(file) = count
    <3>1. log' = log
      BY <1>1, <2>1, <2>2, LogStays
    <3> HIDE DEF log
    <3> QED BY <2>1, <3>1 DEF Promise!Seal, log, history
  <2>3. CASE Len(file) = count + 1
    <3> DEFINE e == file[count + 1].event
    <3>1. ParsesAt(count + 1) /\ e \in Events \cup {Fragment}
      BY <1>1, <2>1, <2>3, TextTypes DEF IInv, Readable
    <3>2. e \in Events /\ e.sequence = count
      BY <1>1, <3>1 DEF ParsesAt
    <3>3. log' = Append(log, e)
      BY <1>1, <2>1, <2>3, LogGrows
    <3>4. Len(log) = count
      BY <1>1
    <3> HIDE DEF e, log
    <3> QED BY <2>1, <3>2, <3>3, <3>4 DEF Promise!Seal, log, history
  <2> QED BY <2>1, <2>2, <2>3
<1>6. ASSUME NEW w \in Writers, Return(w)
      PROVE  [Promise!LogNext]_(Promise!logVars)
  <2>1. /\ UNCHANGED <<file, count, finished>> /\ pc[w] \in {"counted", "repaired"} /\ WriterInv(w)
        /\ written' = IF pc[w] = "counted" /\ job[w] # Finish THEN written \cup {job[w]} ELSE written
        /\ recovered' = IF pc[w] = "repaired" THEN recovered \cup {job[w]} ELSE recovered
    BY <1>6 DEF Return, At, disk, manifest, IInv
  <2>2. log' = log
    BY <2>1
  <2>3. CASE job[w] = Finish
    <3>1. UNCHANGED <<written, recovered>>
      BY <2>1, <2>3 DEF WriterInv
    <3> QED BY <1>2, <2>1, <3>1
  <2>4. CASE job[w] # Finish
    <3>1. /\ job[w] \in Events /\ job[w].sequence \in Nat /\ job[w].sequence < count
          /\ file[job[w].sequence + 1].event = job[w]
      BY <2>1, <2>4, EventTypes DEF WriterInv, Holds, IInv, TypeOK
    <3>2. /\ Len(log) = count /\ job[w].sequence + 1 \in 1 .. count
          /\ log[job[w].sequence + 1] = job[w]
      BY <1>1, <3>1
    <3>3. (written \cup recovered)' = (written \cup recovered) \cup {job[w]}
      BY <2>1, <2>4
    <3> HIDE DEF log
    <3>4. Promise!Acknowledge(job[w])
      BY <2>1, <2>2, <3>2, <3>3 DEF Promise!Acknowledge, log
    <3> QED BY <3>1, <3>4 DEF Promise!LogNext
  <2> QED BY <2>3, <2>4
<1>7. ASSUME NEW w \in Writers, NEW request \in Events \cup {Finish}, Lock(w, request)
      PROVE  UNCHANGED Promise!logVars
  BY <1>2, <1>7 DEF Lock, disk, manifest, history
<1>8. ASSUME NEW w \in Writers, Refuse(w) \/ Stop(w) \/ Sync(w)
      PROVE  UNCHANGED Promise!logVars
  BY <1>2, <1>8 DEF Refuse, Stop, Sync, disk, manifest, history
<1>9. ASSUME NEW r \in Readers, Open(r) \/ Read(r)
      PROVE  UNCHANGED Promise!logVars
  BY <1>2, <1>9 DEF Open, Read, ReadEvent, ReadEnd, ReadError, disk, manifest, history
<1>10. CASE UNCHANGED vars
  BY <1>2, <1>10 DEF vars, disk, manifest, history
<1> HIDE DEF log
<1>11. ASSUME NEW w \in Writers, Work(w)
       PROVE  [Promise!LogNext]_(Promise!logVars)
  BY <1>3, <1>4, <1>5, <1>6, <1>8, <1>11 DEF Work, Promise!LogNext
<1> QED BY <1>1, <1>7, <1>8, <1>9, <1>10, <1>11 DEF Next

LEMMA LogInitially == Init => Promise!LogInit
<1> SUFFICES ASSUME Init
             PROVE  Promise!LogInit
  OBVIOUS
<1>1. count = 0 /\ finished = FALSE /\ written \cup recovered = {}
  BY DEF Init
<1>2. [i \in 1 .. count |-> file[i].event] = <<>>
  BY <1>1
<1> QED BY <1>1, <1>2 DEF Promise!LogInit

\* As long as the machine keeps its power, the store is the abstract append-only log, whatever
\* processes die between two writes and whatever writes fail.
THEOREM StoreKeepsLog == Spec => KeepsLog
<1>1. IInv /\ [Next]_vars => [losses' = 0 => [Promise!LogNext]_(Promise!logVars)]_vars
  BY LogStep
<1> QED BY <1>1, LogInitially, TapeInvariance, PTL DEF Spec, KeepsLog
=============================================================================
