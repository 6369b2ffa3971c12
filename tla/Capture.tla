------------------------------ MODULE Capture ------------------------------
(***************************************************************************)
(* skilltape capture: a command runs in a pseudo terminal while a poller   *)
(* watches the workspace.  The terminal session writes a staging Tape; the *)
(* watcher turns raw events into changes and sends them over a channel to  *)
(* a collector with a budget.  When the session is over the watcher is     *)
(* stopped, both streams are merged into a completed Tape beside the       *)
(* destination, and that is renamed into place.                            *)
(***************************************************************************)
EXTENDS Changes

CONSTANTS
  NumPaths,        \* files of the workspace
  Contents,        \* what a file can hold
  Workspaces,      \* the files there can be at the start
  RawCapacity,     \* RAW_EVENT_CAPACITY
  ChangeCapacity,  \* of the channel from the watcher to the collector
  MaxEvents,       \* MAX_CAPTURE_EVENTS
  MaxEdits,        \* bound: how often the command touches files
  None

ASSUME CapacityAssumption == RawCapacity \in Nat \ {0} /\ ChangeCapacity \in Nat \ {0}
ASSUME BudgetAssumption == MaxEvents \in Nat /\ NumPaths \in Nat /\ MaxEdits \in Nat
ASSUME ContentsAssumption == Absent \notin Contents

Paths == 1..NumPaths
Files == [Paths -> Contents \cup {Absent}]

ASSUME WorkspacesAssumption == Workspaces \subseteq Files

VARIABLES
  disk, edits,          \* the workspace, and how often it was touched
  child, held,          \* the command; does another process hold the terminal open
  session, tape,        \* the terminal session, and its staging Tape
  cancel,               \* the cancellation token
  seen, raw, overflow,  \* the poller's snapshot, the raw queue, its overflow flag
  watcher, batch, out,  \* the watcher, what it has taken, what it has still to send
  known, recent,        \* known_paths and recent
  stop,                 \* watcher_cancel
  channel, collected, collector,
  main, late,           \* the command itself; capture_cancelled
  target, exit,
  initial, dropped      \* history: the first workspace; something was pending at the stop

world    == <<disk, edits, child, held>>
terminal == <<session, tape>>
poller   == <<seen, raw, overflow>>
watching == <<watcher, batch, out, known, recent, dropped>>
collect  == <<channel, collected, collector>>
command  == <<main, late, stop, target, exit>>
vars     == <<world, terminal, cancel, poller, watching, collect, command, initial>>

Finished(cancelled, timedOut, error) ==
  [cancelled |-> cancelled, timedOut |-> timedOut, error |-> error]

\* The staging Tape: how many events came before session_finished, that event, is it finished.
EmptyTape == [before |-> 0, end |-> None, closed |-> FALSE]

Init ==
  /\ disk \in Workspaces /\ initial = disk
  /\ edits = 0 /\ child = "none" /\ held = FALSE
  /\ session = [pc |-> "idle", cancelled |-> FALSE, timedOut |-> FALSE]
  /\ tape = EmptyTape
  /\ cancel = FALSE
  /\ seen = disk /\ raw = <<>> /\ overflow = FALSE
  /\ watcher = "wait" /\ batch = <<>> /\ out = <<>>
  /\ known = {p \in Paths : disk[p] # Absent} /\ recent = {} /\ dropped = FALSE
  /\ channel = <<>> /\ collected = <<>> /\ collector = "open"
  /\ main = "record" /\ late = FALSE /\ stop = FALSE
  /\ target = None /\ exit = None

Ended == watcher \in {"ended", "failed"}

-----------------------------------------------------------------------------
(* The command in the terminal *)

\* The command, or a process it left behind, writes and removes files.
Edit ==
  /\ child = "alive" \/ held
  /\ edits < MaxEdits /\ ~Ended
  /\ \E files \in Files : files # disk /\ disk' = files
  /\ edits' = edits + 1
  /\ UNCHANGED <<child, held, terminal, cancel, poller, watching, collect, command, initial>>

\* It ends, and may leave a process that holds the terminal.
ChildExits ==
  /\ child = "alive"
  /\ child' = "exited"
  /\ held' \in BOOLEAN
  /\ UNCHANGED <<disk, edits, terminal, cancel, poller, watching, collect, command, initial>>

HolderExits ==
  /\ held
  /\ held' = FALSE
  /\ UNCHANGED <<disk, edits, child, terminal, cancel, poller, watching, collect, command, initial>>

-----------------------------------------------------------------------------
(* capture_terminal and the pseudo terminal *)

Session(label) == session' = [session EXCEPT !.pc = label]

\* capture_terminal returns to capture, which reads the token at once.
Return(label) ==
  /\ Session(label)
  /\ late' = cancel
  /\ main' = "settle"
  /\ UNCHANGED <<stop, target, exit>>

\* session_started and the command are recorded, and the command is spawned.
Open ==
  /\ session.pc = "idle"
  /\ tape' = [tape EXCEPT !.before = 2]
  /\ \/ Session("running") /\ child' = "alive"
     \/ Session("broken") /\ UNCHANGED child     \* no terminal, or no such command
  /\ UNCHANGED <<disk, edits, held, cancel, poller, watching, collect, command, initial>>

OpenFails ==
  /\ session.pc = "idle"
  /\ \E n \in 0..1 : tape' = [tape EXCEPT !.before = n]
  /\ Return("failed")
  /\ UNCHANGED <<world, cancel, poller, watching, collect, initial>>

\* try_wait has the status, and no stop was requested.
Notice ==
  /\ session.pc = "running"
  /\ child = "exited"
  /\ Session("read")
  /\ UNCHANGED <<world, tape, cancel, poller, watching, collect, command, initial>>

\* The status was not there when it was asked for, and the token is cancelled or the time is up.
Interrupt ==
  /\ session.pc = "running"
  /\ \E timeIsUp \in BOOLEAN :
       /\ cancel \/ timeIsUp
       /\ session' = [pc |-> "stopping", cancelled |-> cancel, timedOut |-> ~cancel]
  /\ UNCHANGED <<world, tape, cancel, poller, watching, collect, command, initial>>

\* After the grace period the process group is killed: a process outside of it lives on.
Kill ==
  /\ session.pc = "stopping"
  /\ Session("read")
  /\ child' = "exited"
  /\ held' \in {held, FALSE}
  /\ UNCHANGED <<disk, edits, tape, cancel, poller, watching, collect, command, initial>>

\* A wait, a signal or a read fails; a command that runs is not stopped.
TerminalFails ==
  /\ session.pc \in {"running", "stopping", "read"}
  /\ Session("broken")
  /\ UNCHANGED <<world, tape, cancel, poller, watching, collect, command, initial>>

EndOf(cancelled) == Finished(cancelled, session.timedOut, session.pc = "broken")

\* The reader thread is at the end of the terminal.  finish_capture: the output, session_finished, and the finished manifest.
FinishCapture ==
  /\ session.pc = "read" /\ ~held
  /\ tape' = [before |-> 3, closed |-> TRUE, end |-> EndOf(session.cancelled)]
  /\ Return("done")
  /\ UNCHANGED <<world, cancel, poller, watching, collect, initial>>

\* finish_capture_error
FinishError ==
  /\ session.pc = "broken"
  /\ tape' = [tape EXCEPT !.closed = TRUE, !.end = EndOf(cancel)]
  /\ Return("failed")
  /\ UNCHANGED <<world, cancel, poller, watching, collect, initial>>

\* The staging Tape cannot be written any further, or cannot be finished.
StoreFails ==
  /\ \/ /\ session.pc = "read" /\ ~held
        /\ \/ \E n \in 2..3 : tape' = [tape EXCEPT !.before = n]
           \/ tape' = [tape EXCEPT !.before = 3, !.end = EndOf(session.cancelled)]
     \/ /\ session.pc = "broken"
        /\ tape' = tape \/ tape' = [tape EXCEPT !.end = EndOf(cancel)]
  /\ Return("failed")
  /\ UNCHANGED <<world, cancel, poller, watching, collect, initial>>

-----------------------------------------------------------------------------
(* The poller, and the watcher that drains its queue *)

PollSilently ==   \* mutant
  /\ ~Ended
  /\ seen # disk
  /\ seen' = disk
  /\ LET found == ScanEvents(seen, disk)
         room  == RawCapacity - Len(raw)
     IN raw' = raw \o SubSeq(found, 1, IF Len(found) < room THEN Len(found) ELSE room)
  /\ UNCHANGED <<world, terminal, cancel, overflow, watching, collect, command, initial>>
\* enqueue_raw_event: what does not fit raises the flag and is lost.
Poll ==
  /\ ~Ended
  /\ seen # disk
  /\ seen' = disk
  /\ LET found == ScanEvents(seen, disk)
         room  == RawCapacity - Len(raw)
     IN /\ raw' = raw \o SubSeq(found, 1, IF Len(found) < room THEN Len(found) ELSE room)
        /\ overflow' = (overflow \/ Len(found) > room)
  /\ UNCHANGED <<world, terminal, cancel, watching, collect, command, initial>>

\* The first event of a batch, and those that come within its window.
Take ==
  /\ watcher \in {"wait", "batch"}
  /\ raw # <<>>
  /\ raw' = Tail(raw)
  /\ batch' = Append(batch, Head(raw))
  /\ watcher' = "batch"
  /\ UNCHANGED <<world, terminal, cancel, seen, overflow, out, known, recent, dropped, collect,
                 command, initial>>

\* A change is reconciled with the paths that are known, and sent unless it was sent before.
Admit(acc, change) ==
  LET c == Reconciled(change, acc.known) IN
  [known  |-> KnownAfter(c, acc.known),
   recent |-> acc.recent \cup {c},
   send   |-> IF c \in acc.recent THEN acc.send ELSE Append(acc.send, c)]

\* All of a batch: the paths known after it, and what there is to send.
Fresh(changes, repeated) ==
  LET acc[n \in 0..Len(changes)] ==
        IF n = 0 THEN [known |-> known, recent |-> repeated, send |-> <<>>]
        ELSE Admit(acc[n - 1], changes[n])
  IN acc[Len(changes)]

\* The window closes: the batch is adapted to the files as they are now.  After 250 ms a change is no
\* longer a repetition.
CloseBatch ==
  /\ watcher = "batch"
  /\ \E repeated \in {recent, {}} : LET fresh == Fresh(Adapt(batch, disk), repeated)
     IN known' = fresh.known /\ recent' = fresh.recent /\ out' = fresh.send
  /\ batch' = <<>>
  /\ watcher' = "send"
  /\ UNCHANGED <<world, terminal, cancel, poller, dropped, collect, command, initial>>

\* send_change; after the last one the watcher waits again.
Send ==
  /\ watcher = "send"
  /\ IF out = <<>>
     THEN watcher' = "wait" /\ UNCHANGED <<out, channel>>
     ELSE /\ collector = "open" /\ Len(channel) < ChangeCapacity
          /\ channel' = Append(channel, Head(out))
          /\ out' = Tail(out)
          /\ UNCHANGED watcher
  /\ UNCHANGED <<world, terminal, cancel, poller, batch, known, recent, dropped, collected,
                 collector, command, initial>>

\* The flag is up, a path cannot be inspected, or nobody receives the changes.
WatcherFails ==
  /\ ~Ended
  /\ overflow \/ watcher = "batch" \/ (watcher = "send" /\ collector = "over")
  /\ watcher' = "failed"
  /\ UNCHANGED <<world, terminal, cancel, poller, batch, out, known, recent, dropped, collect,
                 command, initial>>

\* The watcher is stopped wherever it waits: what it has taken is dropped.
WatcherStops ==
  /\ stop /\ ~Ended
  /\ watcher' = "ended"
  /\ dropped' = (overflow \/ raw # <<>> \/ batch # <<>> \/ out # <<>> \/ seen # disk)
  /\ UNCHANGED <<world, terminal, cancel, poller, batch, out, known, recent, collect, command,
                 initial>>

-----------------------------------------------------------------------------
(* collect_changes *)

Collect ==
  /\ collector = "open"
  /\ channel # <<>>
  /\ channel' = Tail(channel)
  /\ IF Len(collected) >= MaxEvents
     THEN collector' = "over" /\ cancel' = TRUE /\ UNCHANGED collected
     ELSE collected' = Append(collected, Head(channel)) /\ UNCHANGED <<collector, cancel>>
  /\ UNCHANGED <<world, terminal, poller, watching, command, initial>>

\* The watcher is gone and its channel is empty.
CloseCollector ==
  /\ collector = "open"
  /\ Ended /\ channel = <<>>
  /\ collector' = "closed"
  /\ UNCHANGED <<world, terminal, cancel, poller, watching, channel, collected, command, initial>>

-----------------------------------------------------------------------------
(* capture *)

\* The select loop notices the interrupt while the session is going on.
Cancel ==
  /\ main = "record"
  /\ ~cancel
  /\ cancel' = TRUE
  /\ UNCHANGED <<world, terminal, poller, watching, collect, command, initial>>

ForgetWatcher ==   \* mutant
  /\ main = "settle"
  /\ main' = "join"
  /\ UNCHANGED <<world, terminal, cancel, poller, watching, collect, late, stop, target, exit, initial>>
\* 300 ms later.
StopWatcher ==
  /\ main = "settle"
  /\ stop' = TRUE
  /\ main' = "join"
  /\ UNCHANGED <<world, terminal, cancel, poller, watching, collect, late, target, exit, initial>>

Stop(code) ==
  /\ main' = "exited"
  /\ exit' = code

\* What prevents the publication: an interrupted recording is published whatever else failed.
Prevented ==
  \/ collector = "over"
  \/ watcher = "failed" /\ ~late
  \/ session.pc = "failed" /\ ~late
  \/ Len(collected) + tape.before + (IF tape.end = None THEN 0 ELSE 1) > MaxEvents

Joined == main = "join" /\ Ended /\ collector # "open"

GiveUp ==
  /\ Joined
  /\ Stop(1)
  /\ UNCHANGED <<world, terminal, cancel, poller, watching, collect, late, stop, target, initial>>

PublishAnyway ==   \* mutant
  /\ Joined
  /\ target = None
  /\ target' = [tape |-> tape, changes |-> collected]
  /\ Stop(IF session.cancelled THEN 130 ELSE 0)
  /\ UNCHANGED <<world, terminal, cancel, poller, watching, collect, late, stop, initial>>
\* publish_capture_timeline: everything is appended to a new Tape, which is finished and renamed.
Publish ==
  /\ Joined
  /\ ~Prevented
  /\ target = None
  /\ target' = [tape |-> tape, changes |-> collected]
  /\ Stop(IF session.cancelled \/ session.pc = "failed" THEN 130 ELSE 0)
  /\ UNCHANGED <<world, terminal, cancel, poller, watching, collect, late, stop, initial>>

-----------------------------------------------------------------------------
Terminal   == Open \/ OpenFails \/ Notice \/ Interrupt \/ Kill \/ TerminalFails
            \/ FinishCapture \/ FinishError \/ StoreFails
Watching   == Poll \/ Take \/ CloseBatch \/ Send \/ WatcherFails \/ WatcherStops
Collecting == Collect \/ CloseCollector
Main       == Cancel \/ StopWatcher \/ GiveUp \/ Publish

Next == Edit \/ ChildExits \/ HolderExits
        \/ Terminal \/ Watching \/ Collecting \/ Main

Spec == Init /\ [][Next]_vars

\* The threads and tasks go on as long as one of them can, and the time limit comes.  The watcher is
\* trusted only to notice that it is stopped.  A process that holds the terminal is assumed to end:
\* nothing stops one that was left behind by a command that has ended.
FairSpec ==
  Spec /\ WF_vars(Terminal \/ HolderExits \/ WatcherStops \/ Collecting \/ Main)
=============================================================================
