----------------------------- MODULE CaptureInv -----------------------------
(* What a recording promises. *)
EXTENDS Capture

SessionPlaces == {"idle", "running", "broken", "stopping", "read", "done", "failed"}

TypeOK ==
  /\ disk \in Files /\ initial \in Files /\ seen \in Files
  /\ edits \in 0..MaxEdits
  /\ child \in {"none", "alive", "exited"} /\ held \in BOOLEAN
  /\ session \in [pc : SessionPlaces, cancelled : BOOLEAN, timedOut : BOOLEAN]
  /\ tape.before \in 0..3 /\ tape.closed \in BOOLEAN
  /\ Len(raw) <= RawCapacity /\ Len(channel) <= ChangeCapacity /\ Len(collected) <= MaxEvents
  /\ known \subseteq Paths
  /\ watcher \in {"wait", "batch", "send", "ended", "failed"}
  /\ collector \in {"open", "over", "closed"}
  /\ main \in {"record", "settle", "join", "exited"}

Published == target # None

\* A published recording stays within its budget, whichever task ran first; and one that is published
\* as neither cancelled nor failed is whole: the session has its beginning, its output and its end,
\* and the command was not stopped but ended by itself or at the time limit.  The process ends with 130
\* exactly if the session was stopped by the token, and then the last event says so.
PublishedIsWhole ==
  Published =>
    /\ Len(target.changes) + target.tape.before <= MaxEvents
    /\ exit # 130 =>
         /\ target.tape.before = 3 /\ target.tape.closed
         /\ ~target.tape.end.cancelled /\ ~target.tape.end.error
         /\ child = "exited"
    /\ session.pc = "done" => (exit = 130) = target.tape.end.cancelled

\* If nothing was pending when the watcher was stopped, the published changes name every file that
\* is not what it was when the recording began, in spite of lost and repeated notifications.
EveryChangeIsNamed ==
  Published /\ watcher = "ended" /\ ~dropped =>
    {p \in Paths : seen[p] # initial[p]} \subseteq Named(target.changes)

\* Every recording comes to an end, whether it is interrupted, times out, overflows or fails.
CaptureEnds == <>(main = "exited")

-----------------------------------------------------------------------------
(* The inductive invariant behind PublishedIsWhole *)

Sessions == [pc : SessionPlaces, cancelled : BOOLEAN, timedOut : BOOLEAN]
Ends     == [cancelled : BOOLEAN, timedOut : BOOLEAN, error : BOOLEAN]
Tapes    == [before : 0..3, end : Ends \cup {None}, closed : BOOLEAN]

\* The staging Tape and the command at each place of the terminal session.
SessionInv ==
  /\ session \in Sessions /\ tape \in Tapes /\ cancel \in BOOLEAN
  /\ session.pc \in {"read", "done"} => child = "exited"
  /\ session.pc = "done" =>
       /\ tape.before = 3 /\ tape.closed
       /\ tape.end.cancelled = session.cancelled /\ ~tape.end.error

\* The command leaves the session behind before it settles, and publishes at its end.
MainInv ==
  /\ main # "record" => session.pc \in {"done", "failed"}
  /\ Published =>
       /\ main = "exited"
       /\ target.tape = tape
       /\ Len(target.changes) + tape.before <= MaxEvents
       /\ exit = IF session.cancelled \/ session.pc = "failed" THEN 130 ELSE 0

CollectedInv == collected \in Seq(ToSet(collected))

IInv == SessionInv /\ MainInv /\ CollectedInv

-----------------------------------------------------------------------------
(* The inductive invariant behind EveryChangeIsNamed *)

ChangesSeen ==
  [kind : {"created", "modified", "deleted", "moved"}, path : Paths, previous : Paths \cup {NoPath},
   content : Contents \cup {Absent}]
RawEvents == [path : Paths, kind : {"create", "remove", "modify"}]

WatchTypes ==
  /\ disk \in Files /\ seen \in Files /\ initial \in Files
  /\ raw \in Seq(RawEvents) /\ batch \in Seq(RawEvents)
  /\ out \in Seq(ChangesSeen) /\ channel \in Seq(ChangesSeen) /\ collected \in Seq(ChangesSeen)
  /\ overflow \in BOOLEAN /\ dropped \in BOOLEAN

\* What the watcher has made of the events and not lost since.
Sent == ToSet(collected) \cup ToSet(channel) \cup ToSet(out)

IsPending(p) == \E e \in ToSet(raw) \cup ToSet(batch) : e.path = p

\* As long as no queue was full, a change that counts as repeated was sent, and a file that differs is
\* named by what was sent or will be by an event that is queued.
NothingLost ==
  collector # "over" =>
    /\ recent \subseteq Sent
    /\ ~overflow /\ ~dropped =>
         \A p \in Paths : seen[p] # initial[p] => NamedIn(Sent, p) \/ IsPending(p)

\* Where the watcher and the collector are, and what can still be on the way there.
PlacesInv ==
  /\ collector \in {"open", "over", "closed"}
  /\ watcher \in {"wait", "batch"} => out = <<>>
  /\ watcher = "ended" /\ ~dropped => raw = <<>> /\ batch = <<>> /\ out = <<>> /\ ~overflow
  /\ watcher \notin {"ended", "failed"} => ~dropped
  /\ collector = "closed" => Ended /\ channel = <<>>

PublishedInv ==
  Published => collector = "closed" /\ target.changes = collected

NamesInv == WatchTypes /\ NothingLost /\ PlacesInv /\ PublishedInv
=============================================================================
