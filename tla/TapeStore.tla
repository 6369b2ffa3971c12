----------------------------- MODULE TapeStore ------------------------------
(***************************************************************************)
(* The store of one Tape: events.jsonl, manifest.json and .store.lock, and *)
(* the processes that append events, finish the Tape or read it.  An       *)
(* append writes to three places in turn (the line, its newline, the       *)
(* manifest) and a process can die, or a write can fail, between any two   *)
(* of them; the machine can lose power.  The next append or finish repairs *)
(* what it finds.  Readers take no lock.                                   *)
(***************************************************************************)
EXTENDS Naturals, Sequences

CONSTANTS
  Writers,     \* processes that append events or finish the Tape
  Readers,     \* processes that read it
  Bodies,      \* what an event can say besides its sequence number
  MaxEvents,   \* bound: sequence numbers a caller uses
  MaxLosses,   \* bound: power losses in one behaviour
  None,
  Fragment,    \* a proper prefix of the JSON text of an event
  Finish       \* the request to finish the Tape

Events == [sequence : 0 .. MaxEvents - 1, body : Bodies]

ASSUME BoundsAssumption == MaxEvents \in Nat /\ MaxLosses \in Nat
ASSUME ValuesAssumption == Fragment \notin Events /\ Finish \notin Events /\ None \notin Writers

VARIABLES
  file,        \* events.jsonl: the texts written to it, each with or without its newline
  synced,      \* how many of them a power loss cannot take away
  count,       \* manifest.json: event_count
  finished,    \* manifest.json: finished_at_ms is set
  lock,        \* the process that holds .store.lock
  pc,          \* where a writer is
  job,         \* the event it appends, or Finish
  reading,     \* the EventIter of a reader
  \* history
  written,     \* events whose append wrote them and returned Ok
  recovered,   \* events whose append found them written and returned Ok
  losses       \* power losses so far

manifest == <<count, finished>>
disk     == <<file, synced, manifest>>
history  == <<written, recovered, losses>>
vars     == <<disk, lock, pc, job, reading, history>>

Pieces == [event : Events \cup {Fragment}, ended : BOOLEAN]

Labels == {"idle", "locked", "line", "newline", "sync", "manifest", "counted", "repaired"}

\* `count` is the manifest's event_count when the reader opened the Tape, `since` (history)
\* the events that were acknowledged by then.
Iterators == [got : Seq(Events), count : Nat, since : SUBSET Events, done : BOOLEAN]

TypeOK ==
  /\ file \in Seq(Pieces)
  /\ synced \in 0 .. Len(file)
  /\ count \in Nat
  /\ finished \in BOOLEAN
  /\ lock \in Writers \cup {None}
  /\ pc \in [Writers -> Labels]
  /\ job \in [Writers -> Events \cup {Finish}]
  /\ reading \in [Readers -> Iterators \cup {None}]
  /\ written \in SUBSET Events
  /\ recovered \in SUBSET Events
  /\ losses \in 0 .. MaxLosses

\* A Tape as TapeStore::create leaves it.
Init ==
  /\ file = <<>>
  /\ synced = 0
  /\ count = 0
  /\ finished = FALSE
  /\ lock = None
  /\ pc = [w \in Writers |-> "idle"]
  /\ job = [w \in Writers |-> Finish]
  /\ reading = [r \in Readers |-> None]
  /\ written = {}
  /\ recovered = {}
  /\ losses = 0

-----------------------------------------------------------------------------
(* What is in the file *)

At(w, label) == pc[w] = label
Goto(w, label) == pc' = [pc EXCEPT ![w] = label]

\* The text at place i is the whole of its line, as far as the file goes, and the JSON of
\* the event that belongs there.
ParsesAt(i) ==
  /\ file[i].event # Fragment
  /\ file[i].ended \/ i = Len(file)
  /\ file[i].event.sequence = i - 1

\* read_event_file succeeds.
Readable == \A i \in 1 .. Len(file) : ParsesAt(i)

-----------------------------------------------------------------------------
(* Writers *)

Lock(w, request) ==
  /\ At(w, "idle")
  /\ lock = None
  /\ lock' = w
  /\ job' = [job EXCEPT ![w] = request]
  /\ Goto(w, "locked")
  /\ UNCHANGED <<disk, reading, history>>

Unlock(w) == lock' = None /\ Goto(w, "idle")

\* The checks both operations make first.
Writable == ~finished /\ Readable /\ Len(file) \in {count, count + 1}

\* An error before anything is written: AlreadyFinished, InvalidJsonl, EventCountShortfall,
\* EventCountExceeded or SequenceMismatch.
Refuse(w) ==
  /\ At(w, "locked")
  /\ \/ ~Writable
     \/ job[w] # Finish /\ Len(file) = count /\ job[w].sequence # count
  /\ Unlock(w)
  /\ UNCHANGED <<disk, job, reading, history>>

\* One event is in the file and not counted: the manifest is repaired.  If it is the event
\* of this call nothing else is to be done, otherwise the call goes on.
RepairAnything(w) ==   \* mutant
  /\ At(w, "locked")
  /\ job[w] # Finish
  /\ Writable
  /\ Len(file) = count + 1
  /\ count' = count + 1
  /\ Goto(w, "repaired")
  /\ UNCHANGED <<file, synced, finished, lock, job, reading, history>>
Repair(w) ==
  /\ At(w, "locked")
  /\ job[w] # Finish
  /\ Writable
  /\ Len(file) = count + 1
  /\ count' = count + 1
  /\ pc' = [pc EXCEPT ![w] = IF file[Len(file)].event = job[w] THEN "repaired" ELSE @]
  /\ UNCHANGED <<file, synced, finished, lock, job, reading, history>>

\* serde_json writes straight to the file, in many small writes.
StartLine(w) ==
  /\ At(w, "locked")
  /\ job[w] # Finish
  /\ Writable
  /\ Len(file) = count
  /\ job[w].sequence = count
  /\ file' = Append(file, [event |-> Fragment, ended |-> FALSE])
  /\ Goto(w, "line")
  /\ UNCHANGED <<synced, manifest, lock, job, reading, history>>

EndObject(w) ==
  /\ At(w, "line")
  /\ file' = [file EXCEPT ![Len(file)] = [event |-> job[w], ended |-> FALSE]]
  /\ Goto(w, "newline")
  /\ UNCHANGED <<synced, manifest, lock, job, reading, history>>

EndLine(w) ==
  /\ At(w, "newline")
  /\ file' = [file EXCEPT ![Len(file)] = [event |-> job[w], ended |-> TRUE]]
  /\ Goto(w, "sync")
  /\ UNCHANGED <<synced, manifest, lock, job, reading, history>>

SyncForgotten(w) ==   \* mutant
  /\ At(w, "sync")
  /\ Goto(w, "manifest")
  /\ UNCHANGED <<disk, lock, job, reading, history>>
Sync(w) ==
  /\ At(w, "sync")
  /\ synced' = Len(file)
  /\ Goto(w, "manifest")
  /\ UNCHANGED <<file, manifest, lock, job, reading, history>>

\* The new manifest is synced, renamed over the old one, and the directory synced.
CountEvent(w) ==
  /\ At(w, "manifest")
  /\ count' = count + 1
  /\ Goto(w, "counted")
  /\ UNCHANGED <<file, synced, finished, lock, job, reading, history>>

SealAsCounted(w) ==   \* mutant
  /\ At(w, "locked")
  /\ job[w] = Finish
  /\ Writable
  /\ finished' = TRUE
  /\ Goto(w, "counted")
  /\ UNCHANGED <<file, synced, count, lock, job, reading, history>>
SealTape(w) ==
  /\ At(w, "locked")
  /\ job[w] = Finish
  /\ Writable
  /\ count' = Len(file)
  /\ finished' = TRUE
  /\ Goto(w, "counted")
  /\ UNCHANGED <<file, synced, lock, job, reading, history>>

\* The call returns Ok.
Return(w) ==
  /\ pc[w] \in {"counted", "repaired"}
  /\ Unlock(w)
  /\ written' = IF At(w, "counted") /\ job[w] # Finish THEN written \cup {job[w]} ELSE written
  /\ recovered' = IF At(w, "repaired") THEN recovered \cup {job[w]} ELSE recovered
  /\ UNCHANGED <<disk, job, reading, losses>>

\* The process dies, or the call fails, wherever it is; its lock is released.
Stop(w) ==
  /\ ~At(w, "idle")
  /\ Unlock(w)
  /\ UNCHANGED <<disk, job, reading, history>>

-----------------------------------------------------------------------------
(* Readers *)

Reads(r) == reading[r] # None /\ ~reading[r].done

Open(r) ==
  /\ ~Reads(r)
  /\ reading' = [reading EXCEPT ![r] = [got |-> <<>>, count |-> count,
                                         since |-> written \cup recovered, done |-> FALSE]]
  /\ UNCHANGED <<disk, lock, pc, job, history>>

NextLine(r) == Len(reading[r].got) + 1

\* EventIter::next finds the next event, the end of the file, or an error.
NextIsEvent(r) ==
  NextLine(r) <= Len(file) /\ ParsesAt(NextLine(r)) /\ NextLine(r) <= reading[r].count
NextIsEof(r) == NextLine(r) > Len(file)   \* mutant
NextIsEnd(r) == NextLine(r) > Len(file) /\ NextLine(r) > reading[r].count

WithNext(it, event) == [it EXCEPT !.got = Append(@, event)]

ReadEvent(r) ==
  /\ Reads(r)
  /\ NextIsEvent(r)
  /\ reading' = [reading EXCEPT ![r] = WithNext(@, file[NextLine(r)].event)]
  /\ UNCHANGED <<disk, lock, pc, job, history>>

ReadEnd(r) ==
  /\ Reads(r)
  /\ NextIsEnd(r)
  /\ reading' = [reading EXCEPT ![r] = [@ EXCEPT !.done = TRUE]]
  /\ UNCHANGED <<disk, lock, pc, job, history>>

\* InvalidJsonl, SequenceMismatch, EventCountShortfall or EventCountExceeded: every caller
\* drops what it has read.
ReadError(r) ==
  /\ Reads(r)
  /\ ~NextIsEvent(r) /\ ~NextIsEnd(r)
  /\ reading' = [reading EXCEPT ![r] = None]
  /\ UNCHANGED <<disk, lock, pc, job, history>>

-----------------------------------------------------------------------------
(* The machine *)

\* What the disk may hold after a power loss: all that was synced, and possibly more of
\* what was written, cut anywhere.
Cuts(n) ==
  {SubSeq(file, 1, n)}
    \cup IF n = synced THEN {}
         ELSE {[SubSeq(file, 1, n) EXCEPT ![n] = [event |-> text, ended |-> FALSE]] :
                 text \in {Fragment, file[n].event}}

PowerLoss ==
  /\ losses < MaxLosses
  /\ losses' = losses + 1
  /\ \E n \in synced .. Len(file) : file' \in Cuts(n) /\ synced' = n
  /\ lock' = None
  /\ pc' = [w \in Writers |-> "idle"]
  /\ reading' = [r \in Readers |-> None]
  /\ UNCHANGED <<manifest, job, written, recovered>>

-----------------------------------------------------------------------------
Work(w) ==
  \/ Refuse(w) \/ Repair(w) \/ StartLine(w) \/ EndObject(w) \/ EndLine(w) \/ Sync(w)
  \/ CountEvent(w) \/ SealTape(w) \/ Return(w)

Read(r) == ReadEvent(r) \/ ReadEnd(r) \/ ReadError(r)

Next ==
  \/ \E w \in Writers :
       \/ \E request \in Events \cup {Finish} : Lock(w, request)
       \/ Work(w)
       \/ Stop(w)
  \/ \E r \in Readers : Open(r) \/ Read(r)
  \/ PowerLoss

Spec == Init /\ [][Next]_vars

-----------------------------------------------------------------------------
(* Properties *)

Holds(e) == e.sequence < Len(file) /\ file[e.sequence + 1].event = e

\* An event whose append wrote it and returned Ok stays in the file, at its number, through
\* crashes, failed writes and power losses; one that was recovered by a retry stays unless
\* the machine loses power (append, finish).
AcceptedIsKept ==
  /\ \A e \in written : Holds(e)
  /\ losses = 0 => \A e \in recovered : Holds(e)

\* However often processes die, the file is never more than one event ahead of the manifest:
\* the one case append and finish can repair.  It falls behind only by a power loss.
RepairIsEnough ==
  /\ Len(file) <= count + 1
  /\ losses = 0 => count <= Len(file)

\* A finished Tape reads back, with as many events as its manifest counts (finish).
FinishedIsComplete == finished /\ losses = 0 => Len(file) = count /\ Readable

\* No process changes a finished Tape, not even one that was at work when it was finished.
FinishedIsFinal ==
  [][finished => finished' /\ count' = count /\ (losses' = losses => file' = file)]_vars

\* A read that ends without an error, with no lock and whatever was written meanwhile,
\* returned every event that was acknowledged before it began, in order and without a gap.
ReadIsComplete ==
  \A r \in Readers : reading[r] # None /\ reading[r].done =>
    LET got == reading[r].got IN
    /\ \A i \in 1 .. Len(got) : got[i].sequence = i - 1
    /\ \A e \in reading[r].since : \E i \in 1 .. Len(got) : got[i] = e

\* Until the machine loses power the store is the abstract append-only log: the events the
\* manifest counts, whatever processes die between two writes.
Promise == INSTANCE TapeLog WITH
  log <- [i \in 1 .. count |-> file[i].event],
  sealed <- finished,
  acked <- written \cup recovered
KeepsLog ==
  /\ Promise!LogInit
  /\ [][losses' = 0 => [Promise!LogNext]_(Promise!logVars)]_vars

\* docs/reference/tape-format.md, "Normative locking and recovery rules": a single event that
\* was already written is repaired and consistency is validated.  When the last event of the
\* file was acknowledged, the Tape can be read.
AcceptedIsReadable ==
  lock = None /\ file # <<>> /\ file[Len(file)].event \in written \cup recovered => Readable
=============================================================================
