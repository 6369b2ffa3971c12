--------------------------- MODULE CaptureProofs ---------------------------
(* Proofs about Capture, for any workspace, capacities and budget. *)
EXTENDS CaptureInv, ChangesProofs

LEMMA AppendIsOfItsElements ==
  ASSUME NEW s, s \in Seq(ToSet(s)), NEW e
  PROVE  Append(s, e) \in Seq(ToSet(Append(s, e)))
<1> DEFINE t == Append(s, e)
<1>1. Len(s) \in Nat /\ s = [i \in 1..Len(s) |-> s[i]]
  OBVIOUS
<1>2. s \in Seq(ToSet(s) \cup {e})
  BY <1>1
<1>3. /\ t \in Seq(ToSet(s) \cup {e}) /\ Len(t) = Len(s) + 1
      /\ \A i \in 1..Len(s) : t[i] = s[i]
      /\ t[Len(s) + 1] = e
  BY <1>1, <1>2
<1>4. \A i \in 1..Len(t) : t[i] \in ToSet(t)
  BY <1>3 DEF ToSet
<1> HIDE DEF t
<1>5. t \in Seq(ToSet(t))
  BY <1>3, <1>4
<1> QED BY <1>5 DEF t

LEMMA InitInvariant == Init => IInv
<1> SUFFICES ASSUME Init PROVE IInv
  OBVIOUS
<1>1. SessionInv
  <2>1. session.pc = "idle" /\ session \in Sessions /\ cancel \in BOOLEAN
    BY DEF Init, Sessions, SessionPlaces
  <2>2. tape = [before |-> 0, end |-> None, closed |-> FALSE]
    BY DEF Init, EmptyTape
  <2>3. tape \in Tapes
    BY <2>2 DEF Tapes
  <2> QED BY <2>1, <2>3 DEF SessionInv
<1>2. MainInv
  BY DEF Init, MainInv, Published
<1>3. CollectedInv
  BY DEF Init, CollectedInv
<1> QED BY <1>1, <1>2, <1>3 DEF IInv

\* What the steps of the command, the watcher and the collector leave alone.
Recorder == <<session, tape, main, late, target, exit>>

LEMMA OtherStep ==
  ASSUME IInv, UNCHANGED Recorder, child' = child \/ child' = "exited",
         cancel' = cancel \/ cancel' = TRUE, CollectedInv'
  PROVE  IInv'
<1>1. UNCHANGED <<session, tape, main, target, exit>>
  BY DEF Recorder
<1>2. SessionInv'
  BY <1>1 DEF IInv, SessionInv
<1>3. MainInv'
  BY <1>1 DEF IInv, MainInv, Published
<1> QED BY <1>2, <1>3 DEF IInv

LEMMA WorldStep ==
  ASSUME IInv, Edit \/ ChildExits \/ HolderExits
  PROVE  IInv'
<1>1. UNCHANGED Recorder /\ UNCHANGED collected
  BY DEF Edit, ChildExits, HolderExits, Recorder, terminal, command, collect
<1>2. (child' = child \/ child' = "exited") /\ cancel' = cancel
  BY DEF Edit, ChildExits, HolderExits
<1> QED BY <1>1, <1>2, OtherStep DEF IInv, CollectedInv

LEMMA WatchingStep ==
  ASSUME IInv, Watching
  PROVE  IInv'
<1>1. UNCHANGED Recorder /\ UNCHANGED <<child, cancel, collected>>
  BY DEF Watching, Poll, Take, CloseBatch, Send, WatcherFails, WatcherStops, Recorder, terminal,
     command, collect, world
<1> QED BY <1>1, OtherStep DEF IInv, CollectedInv

LEMMA CollectingStep ==
  ASSUME IInv, Collecting
  PROVE  IInv'
<1>1. UNCHANGED Recorder /\ UNCHANGED child
  BY DEF Collecting, Collect, CloseCollector, Recorder, terminal, command, world
<1>2. /\ collected' = collected \/ collected' = Append(collected, Head(channel))
      /\ cancel' = cancel \/ cancel' = TRUE
  BY DEF Collecting, Collect, CloseCollector
<1>3. CollectedInv'
  BY <1>2, AppendIsOfItsElements DEF IInv, CollectedInv
<1> QED BY <1>1, <1>2, <1>3, OtherStep

\* The session goes on: capture_terminal has not returned.
LEMMA GoingOn ==
  ASSUME IInv, UNCHANGED <<main, late, target, exit, collected>>, session.pc \notin {"done", "failed"},
         SessionInv', session'.pc \notin {"done", "failed"}
  PROVE  IInv'
<1>1. main = "record" /\ target = None
  BY DEF IInv, MainInv, Published
<1>2. MainInv'
  BY <1>1 DEF MainInv, Published
<1> QED BY <1>2 DEF IInv, CollectedInv

\* capture_terminal returns.
LEMMA Returned ==
  ASSUME IInv, NEW label \in {"done", "failed"}, Return(label), UNCHANGED collected,
         session.pc \notin {"done", "failed"}, SessionInv'
  PROVE  IInv'
<1>1. main' = "settle" /\ session'.pc = label /\ target' = target
  BY DEF Return, Session, IInv, SessionInv
<1>2. target = None
  BY DEF IInv, MainInv, Published
<1>3. MainInv'
  BY <1>1, <1>2 DEF MainInv, Published
<1> QED BY <1>3 DEF IInv, CollectedInv

LEMMA Failed ==
  ASSUME IInv, Return("failed"), UNCHANGED <<child, cancel, collected>>,
         session.pc \notin {"done", "failed"}, tape' \in Tapes
  PROVE  IInv'
<1>1. session' \in Sessions /\ session'.pc = "failed"
  BY DEF Return, Session, IInv, SessionInv, Sessions, SessionPlaces
<1>2. SessionInv'
  BY <1>1 DEF IInv, SessionInv
<1> QED BY <1>2, Returned

LEMMA EndIs ==
  ASSUME SessionInv
  PROVE  \A cancelled \in BOOLEAN :
           /\ EndOf(cancelled) \in Ends
           /\ EndOf(cancelled).cancelled = cancelled
           /\ EndOf(cancelled).error <=> session.pc = "broken"
<1> TAKE cancelled \in BOOLEAN
<1>1. PICK error \in BOOLEAN : error = (session.pc = "broken")
  BY Zenon
<1>2. EndOf(cancelled) = [cancelled |-> cancelled, timedOut |-> session.timedOut, error |-> error]
  BY <1>1, Zenon DEF EndOf, Finished
<1>3. error <=> session.pc = "broken"
  BY <1>1, Zenon
<1>4. session.timedOut \in BOOLEAN
  BY DEF SessionInv, Sessions
<1> QED BY <1>2, <1>3, <1>4 DEF Ends

LEMMA TerminalStep ==
  ASSUME IInv, Terminal
  PROVE  IInv'
<1> USE DEF IInv
<1>1. UNCHANGED <<cancel, collected>>
  BY DEF Terminal, Open, OpenFails, Notice, Interrupt, Kill, TerminalFails, FinishCapture,
     FinishError, StoreFails, collect
<1>2. CASE Open
  <2>1. /\ session.pc = "idle" /\ tape' = [tape EXCEPT !.before = 2]
        /\ \E label \in {"running", "broken"} : session' = [session EXCEPT !.pc = label]
        /\ UNCHANGED <<main, late, target, exit>>
    BY <1>2 DEF Open, command, Session
  <2>2. PICK label \in {"running", "broken"} : session' = [session EXCEPT !.pc = label]
    BY <2>1
  <2>3. session' \in Sessions /\ session'.pc = label /\ session'.cancelled = session.cancelled
    BY <2>2 DEF SessionInv, Sessions, SessionPlaces
  <2>4. tape' \in Tapes
    BY <2>1 DEF SessionInv, Tapes
  <2>5. SessionInv'
    BY <1>1, <2>3, <2>4 DEF SessionInv
  <2>6. session.pc \notin {"done", "failed"} /\ session'.pc \notin {"done", "failed"}
    BY <2>1, <2>3
  <2> QED BY <1>1, <2>1, <2>5, <2>6, GoingOn
<1>3. CASE OpenFails
  <2>1. /\ session.pc = "idle" /\ Return("failed")
        /\ \E n \in 0..1 : tape' = [tape EXCEPT !.before = n]
        /\ UNCHANGED child
    BY <1>3 DEF OpenFails, world
  <2>2. tape' \in Tapes
    BY <2>1 DEF SessionInv, Tapes
  <2> QED BY <1>1, <2>1, <2>2, Failed
<1>4. CASE Notice \/ Kill
  <2>1. /\ session.pc \in {"running", "stopping"}
        /\ session' = [session EXCEPT !.pc = "read"]
        /\ child' = "exited"
        /\ UNCHANGED <<tape, main, late, target, exit>>
    BY <1>4 DEF Notice, Kill, Session, world, command
  <2>2. session' \in Sessions /\ session'.pc = "read"
    BY <2>1 DEF SessionInv, Sessions, SessionPlaces
  <2>3. SessionInv'
    BY <1>1, <2>1, <2>2 DEF SessionInv
  <2>4. session.pc \notin {"done", "failed"} /\ session'.pc \notin {"done", "failed"}
    BY <2>1, <2>2
  <2> QED BY <1>1, <2>1, <2>3, <2>4, GoingOn
<1>5. CASE TerminalFails
  <2>1. /\ session.pc \in {"running", "stopping", "read"}
        /\ session' = [session EXCEPT !.pc = "broken"]
        /\ UNCHANGED <<tape, child, main, late, target, exit>>
    BY <1>5 DEF TerminalFails, Session, world, command
  <2>2. session' \in Sessions /\ session'.pc = "broken"
    BY <2>1 DEF SessionInv, Sessions, SessionPlaces
  <2>3. SessionInv'
    BY <1>1, <2>1, <2>2 DEF SessionInv
  <2>4. session.pc \notin {"done", "failed"} /\ session'.pc \notin {"done", "failed"}
    BY <2>1, <2>2
  <2> QED BY <1>1, <2>1, <2>3, <2>4, GoingOn
<1>6. CASE Interrupt
  <2>1. /\ session.pc = "running"
        /\ session' = [pc |-> "stopping", cancelled |-> cancel, timedOut |-> ~cancel]
        /\ UNCHANGED <<tape, child, main, late, target, exit>>
    BY <1>6 DEF Interrupt, world, command
  <2>2. PICK timedOut \in BOOLEAN :
          session' = [pc |-> "stopping", cancelled |-> cancel, timedOut |-> timedOut]
    BY <2>1, Zenon
  <2>3. session' \in Sessions /\ session'.pc = "stopping"
    BY <2>2 DEF SessionInv, Sessions, SessionPlaces
  <2>4. SessionInv'
    BY <1>1, <2>1, <2>3 DEF SessionInv
  <2>5. session.pc \notin {"done", "failed"} /\ session'.pc \notin {"done", "failed"}
    BY <2>1, <2>3
  <2> QED BY <1>1, <2>1, <2>4, <2>5, GoingOn
<1>7. CASE FinishCapture
  <2>1. /\ session.pc = "read" /\ Return("done") /\ UNCHANGED child
        /\ tape' = [before |-> 3, closed |-> TRUE, end |-> EndOf(session.cancelled)]
    BY <1>7 DEF FinishCapture, world
  <2>2. PICK end : end = EndOf(session.cancelled)
    OBVIOUS
  <2>3. end \in Ends /\ end.cancelled = session.cancelled /\ (end.error <=> session.pc = "broken")
    BY <2>2, EndIs DEF SessionInv, Sessions
  <2>4. tape' \in Tapes /\ tape'.before = 3 /\ tape'.closed /\ tape'.end = end
    BY <2>1, <2>2, <2>3 DEF Tapes
  <2>5. session' = [session EXCEPT !.pc = "done"] /\ child = "exited"
    BY <2>1 DEF Return, Session, SessionInv
  <2>6. session' \in Sessions /\ session'.pc = "done" /\ session'.cancelled = session.cancelled
    BY <2>5 DEF SessionInv, Sessions, SessionPlaces
  <2>7. SessionInv'
    BY <1>1, <2>1, <2>3, <2>4, <2>5, <2>6 DEF SessionInv
  <2>8. session.pc \notin {"done", "failed"}
    BY <2>1
  <2> QED BY <1>1, <2>1, <2>7, <2>8, Returned
<1>8. CASE FinishError \/ StoreFails
  <2>1. /\ session.pc \in {"read", "broken"} /\ Return("failed") /\ UNCHANGED child
    BY <1>8 DEF FinishError, StoreFails, world
  <2>2. EndOf(cancel) \in Ends /\ EndOf(session.cancelled) \in Ends
    BY EndIs DEF SessionInv, Sessions
  <2>3. tape' \in Tapes
    <3>1. PICK ended, undone \in Ends : ended = EndOf(cancel) /\ undone = EndOf(session.cancelled)
      BY <2>2
    <3>2. \/ tape' = [tape EXCEPT !.closed = TRUE, !.end = ended]
          \/ \E n \in 2..3 : tape' = [tape EXCEPT !.before = n]
          \/ tape' = [tape EXCEPT !.before = 3, !.end = undone]
          \/ tape' = tape
          \/ tape' = [tape EXCEPT !.end = ended]
      BY <1>8, <3>1 DEF FinishError, StoreFails
    <3>3. tape \in [before : 0..3, end : Ends \cup {None}, closed : BOOLEAN]
      BY DEF SessionInv, Tapes
    <3>4. ASSUME tape' = [tape EXCEPT !.closed = TRUE, !.end = ended]
          PROVE  tape' \in Tapes
      BY <3>3, <3>4 DEF Tapes
    <3>5. ASSUME \E n \in 2..3 : tape' = [tape EXCEPT !.before = n]
          PROVE  tape' \in Tapes
      BY <3>3, <3>5 DEF Tapes
    <3>6. ASSUME tape' = [tape EXCEPT !.before = 3, !.end = undone]
          PROVE  tape' \in Tapes
      <4>1. tape' = [before |-> 3, end |-> undone, closed |-> tape.closed]
        BY <3>3, <3>6
      <4> QED BY <3>3, <4>1 DEF Tapes
    <3>7. ASSUME tape' = [tape EXCEPT !.end = ended]
          PROVE  tape' \in Tapes
      BY <3>3, <3>7 DEF Tapes
    <3>8. ASSUME tape' = tape
          PROVE  tape' \in Tapes
      BY <3>8 DEF SessionInv
    <3> QED BY <3>2, <3>4, <3>5, <3>6, <3>7, <3>8
  <2> QED BY <1>1, <2>1, <2>3, Failed
<1> QED BY <1>2, <1>3, <1>4, <1>5, <1>6, <1>7, <1>8 DEF Terminal

LEMMA MainStep ==
  ASSUME IInv, Main
  PROVE  IInv'
<1> USE DEF IInv
<1>1. UNCHANGED <<session, tape, child, collected>>
  BY DEF Main, Cancel, StopWatcher, GiveUp, Publish, world, terminal, collect
<1>2. cancel' = cancel \/ cancel' = TRUE
  BY DEF Main, Cancel, StopWatcher, GiveUp, Publish
<1>3. SessionInv' /\ CollectedInv'
  BY <1>1, <1>2 DEF SessionInv, CollectedInv
<1>4. CASE Cancel
  <2>1. UNCHANGED <<main, target, exit>>
    BY <1>4 DEF Cancel, command
  <2> QED BY <1>1, <1>3, <2>1 DEF MainInv, Published
<1>5. CASE StopWatcher \/ GiveUp
  <2>1. /\ main \in {"settle", "join"} /\ UNCHANGED target
        /\ main' \in {"join", "exited"}
    BY <1>5 DEF StopWatcher, GiveUp, Joined, Stop
  <2>2. target = None
    BY <2>1 DEF MainInv, Published
  <2> QED BY <1>1, <1>3, <2>1, <2>2 DEF MainInv, Published
<1>6. CASE Publish
  <2>1. /\ main = "join" /\ main' = "exited" /\ ~Prevented
        /\ target' = [tape |-> tape, changes |-> collected]
        /\ exit' = IF session.cancelled \/ session.pc = "failed" THEN 130 ELSE 0
    BY <1>6 DEF Publish, Joined, Stop
  <2>2. Len(collected) \in Nat /\ tape.before \in Nat
    BY DEF SessionInv, Tapes, CollectedInv
  <2>3. Len(collected) + tape.before <= MaxEvents
    BY <2>1, <2>2, BudgetAssumption DEF Prevented
  <2> QED BY <1>1, <1>3, <2>1, <2>3 DEF MainInv, Published
<1> QED BY <1>4, <1>5, <1>6 DEF Main

LEMMA StepInvariant == IInv /\ [Next]_vars => IInv'
<1> SUFFICES ASSUME IInv, [Next]_vars PROVE IInv'
  OBVIOUS
<1>1. CASE UNCHANGED vars
  BY <1>1, OtherStep DEF vars, world, terminal, collect, command, Recorder, IInv, CollectedInv
<1> QED BY <1>1, WorldStep, TerminalStep, WatchingStep, CollectingStep, MainStep DEF Next

\* capture and publish_capture_timeline: a published recording is within its budget, and one whose exit
\* code is not 130 is whole, of a command that was not stopped; the exit code and the last event of the
\* Tape agree, whatever the terminal, the poller, the watcher and the interrupts did before.
THEOREM RecordingsAreWhole == Spec => []PublishedIsWhole
<1>1. Init => IInv
  BY InitInvariant
<1>2. IInv /\ [Next]_vars => IInv'
  BY StepInvariant
<1>3. IInv => PublishedIsWhole
  <2> SUFFICES ASSUME IInv, Published
               PROVE  /\ Len(target.changes) + target.tape.before <= MaxEvents
                      /\ exit # 130 =>
                           /\ target.tape.before = 3 /\ target.tape.closed
                           /\ ~target.tape.end.cancelled /\ ~target.tape.end.error
                           /\ child = "exited"
                      /\ session.pc = "done" => (exit = 130) = target.tape.end.cancelled
    BY DEF PublishedIsWhole
  <2>1. /\ target.tape = tape /\ Len(target.changes) + tape.before <= MaxEvents
        /\ main = "exited" /\ session.pc \in {"done", "failed"}
        /\ exit = IF session.cancelled \/ session.pc = "failed" THEN 130 ELSE 0
    BY DEF IInv, MainInv
  <2>2. CASE session.pc = "failed"
    BY <2>1, <2>2
  <2>3. CASE session.pc = "done"
    <3>1. /\ tape.before = 3 /\ tape.closed /\ ~tape.end.error /\ child = "exited"
          /\ tape.end.cancelled = session.cancelled /\ session.cancelled \in BOOLEAN
      BY <2>3 DEF IInv, SessionInv, Sessions
    <3>2. exit = IF session.cancelled THEN 130 ELSE 0
      BY <2>1, <2>3
    <3>3. (exit = 130) = session.cancelled
      BY <3>1, <3>2
    <3> QED BY <2>1, <3>1, <3>2, <3>3
  <2> QED BY <2>1, <2>2, <2>3
<1> QED BY <1>1, <1>2, <1>3, PTL DEF Spec

-----------------------------------------------------------------------------
(* What the watcher sends *)

LEMMA AppendHas ==
  ASSUME NEW T, NEW s \in Seq(T), NEW e \in T
  PROVE  Append(s, e) \in Seq(T) /\ ToSet(Append(s, e)) = ToSet(s) \cup {e}
<1>1. PICK t : t = Append(s, e)
  OBVIOUS
<1>2. /\ t \in Seq(T) /\ Len(s) \in Nat /\ Len(t) = Len(s) + 1 /\ t[Len(s) + 1] = e
      /\ DOMAIN s = 1..Len(s) /\ DOMAIN t = 1..Len(t)
      /\ \A i \in 1..Len(s) : t[i] = s[i]
  BY <1>1
<1>3. \A i \in 1..Len(t) : i \in 1..Len(s) \/ i = Len(s) + 1
  BY ONLY <1>2
<1>4. /\ \A i \in 1..Len(s) : i \in 1..Len(t)
      /\ Len(s) + 1 \in 1..Len(t)
  BY ONLY <1>2
<1>5. ToSet(t) = ToSet(s) \cup {e}
  BY ONLY <1>2, <1>3, <1>4 DEF ToSet
<1> QED BY ONLY <1>1, <1>2, <1>5

LEMMA TailHas ==
  ASSUME NEW T, NEW s \in Seq(T), s # <<>>
  PROVE  /\ Tail(s) \in Seq(T) /\ Head(s) \in T
         /\ ToSet(s) = ToSet(Tail(s)) \cup {Head(s)}
<1>1. /\ Tail(s) \in Seq(T) /\ Head(s) = s[1] /\ Len(s) \in Nat \ {0} /\ Len(Tail(s)) = Len(s) - 1
      /\ \A i \in 1..Len(Tail(s)) : Tail(s)[i] = s[i + 1]
  OBVIOUS
<1>2. ToSet(s) \subseteq ToSet(Tail(s)) \cup {Head(s)}
  <2>1. ASSUME NEW i \in 1..Len(s) PROVE s[i] \in ToSet(Tail(s)) \cup {Head(s)}
    <3>1. CASE i = 1
      BY <1>1, <3>1
    <3>2. CASE i # 1
      <4>1. i - 1 \in 1..Len(Tail(s)) /\ Tail(s)[i - 1] = s[i]
        BY <1>1, <3>2
      <4>2. DOMAIN Tail(s) = 1..Len(Tail(s))
        BY <1>1
      <4>3. \E j \in DOMAIN Tail(s) : s[i] = Tail(s)[j]
        BY ONLY <4>1, <4>2
      <4> QED BY ONLY <4>3 DEF ToSet
    <3> QED BY <3>1, <3>2
  <2> QED BY <2>1 DEF ToSet
<1>3. ToSet(Tail(s)) \cup {Head(s)} \subseteq ToSet(s)
  <2>1. \A i \in 1..Len(Tail(s)) : i + 1 \in 1..Len(s) /\ Tail(s)[i] = s[i + 1]
    BY <1>1
  <2> QED BY <1>1, <2>1 DEF ToSet
<1> QED BY <1>1, <1>2, <1>3

LEMMA JoinHas ==
  ASSUME NEW T, NEW s \in Seq(T), NEW t \in Seq(T)
  PROVE  s \o t \in Seq(T) /\ ToSet(s \o t) = ToSet(s) \cup ToSet(t)
<1> DEFINE u == s \o t
<1>1. /\ u \in Seq(T) /\ Len(s) \in Nat /\ Len(t) \in Nat /\ Len(u) = Len(s) + Len(t)
      /\ DOMAIN s = 1..Len(s) /\ DOMAIN t = 1..Len(t) /\ DOMAIN u = 1..Len(u)
      /\ \A i \in 1..Len(s) : u[i] = s[i]
      /\ \A i \in 1..Len(t) : u[Len(s) + i] = t[i]
  OBVIOUS
<1> HIDE DEF u
<1>2. /\ \A i \in 1..Len(u) : i \in 1..Len(s) \/ i - Len(s) \in 1..Len(t)
      /\ \A i \in 1..Len(s) : i \in 1..Len(u)
      /\ \A i \in 1..Len(t) : Len(s) + i \in 1..Len(u)
  BY <1>1
<1>3. \A i \in 1..Len(u) : u[i] \in ToSet(s) \cup ToSet(t)
  <2> TAKE i \in 1..Len(u)
  <2>1. CASE i \in 1..Len(s)
    BY <1>1, <2>1 DEF ToSet
  <2>2. CASE i - Len(s) \in 1..Len(t)
    <3>1. u[Len(s) + (i - Len(s))] = t[i - Len(s)] /\ Len(s) + (i - Len(s)) = i
      BY <1>1, <2>2
    <3> QED BY <2>2, <3>1 DEF ToSet
  <2> QED BY <1>2, <2>1, <2>2
<1>4. \A i \in 1..Len(s) : s[i] \in ToSet(u)
  BY <1>1, <1>2 DEF ToSet
<1>5. \A i \in 1..Len(t) : t[i] \in ToSet(u)
  <2> TAKE i \in 1..Len(t)
  <2>1. Len(s) + i \in DOMAIN u /\ u[Len(s) + i] = t[i]
    BY ONLY <1>1, <1>2
  <2> QED BY ONLY <2>1 DEF ToSet
<1>6. ToSet(u) = ToSet(s) \cup ToSet(t)
  BY ONLY <1>1, <1>3, <1>4, <1>5 DEF ToSet
<1> QED BY <1>1, <1>6 DEF u

\* What has been sent of the first changes of a batch.
Sending(acc, n, changes, repeated) ==
  /\ acc.send \in Seq(ChangesSeen)
  /\ acc.recent \subseteq repeated \cup ToSet(acc.send)
  /\ repeated \subseteq acc.recent
  /\ \A i \in 1..n : NamedIn(acc.recent, changes[i].path)
                     /\ (changes[i].kind = "moved" => NamedIn(acc.recent, changes[i].previous))

LEMMA ReconciledIs ==
  ASSUME NEW change \in ChangesSeen, NEW paths, NEW c, c = Reconciled(change, paths)
  PROVE  /\ c \in ChangesSeen /\ c.path = change.path /\ c.previous = change.previous
         /\ change.kind = "moved" => c.kind = "moved"
<1>1. CASE change.kind = "created" /\ change.path \in paths
  <2>1. c = [change EXCEPT !.kind = "modified"]
    BY <1>1 DEF Reconciled
  <2> QED BY <1>1, <2>1 DEF ChangesSeen
<1>2. CASE ~(change.kind = "created" /\ change.path \in paths)
  BY <1>2 DEF Reconciled
<1> QED BY <1>1, <1>2

LEMMA AdmitSends ==
  ASSUME NEW changes \in Seq(ChangesSeen), NEW repeated, NEW n \in Nat, n + 1 \in 1..Len(changes),
         NEW acc, Sending(acc, n, changes, repeated), NEW next, next = Admit(acc, changes[n + 1])
  PROVE  Sending(next, n + 1, changes, repeated)
<1>1. PICK change \in ChangesSeen : change = changes[n + 1]
  OBVIOUS
<1>2. PICK c : c = Reconciled(change, acc.known)
  OBVIOUS
<1>3. /\ c \in ChangesSeen /\ c.path = change.path /\ c.previous = change.previous
      /\ change.kind = "moved" => c.kind = "moved"
  BY <1>2, ReconciledIs
<1>4. /\ next.recent = acc.recent \cup {c}
      /\ next.send = IF c \in acc.recent THEN acc.send ELSE Append(acc.send, c)
  BY <1>1, <1>2 DEF Admit
<1>5. /\ next.send \in Seq(ChangesSeen)
      /\ next.recent \subseteq repeated \cup ToSet(next.send)
  <2>1. CASE c \in acc.recent
    BY <1>4, <2>1 DEF Sending
  <2>2. CASE c \notin acc.recent
    <3>1. next.send = Append(acc.send, c)
      BY <1>4, <2>2
    <3>2. next.send \in Seq(ChangesSeen) /\ ToSet(next.send) = ToSet(acc.send) \cup {c}
      BY <1>3, <3>1, AppendHas DEF Sending
    <3> QED BY <1>4, <3>2 DEF Sending
  <2> QED BY <2>1, <2>2
<1>6. ASSUME NEW i \in 1..(n + 1)
      PROVE  NamedIn(next.recent, changes[i].path)
             /\ (changes[i].kind = "moved" => NamedIn(next.recent, changes[i].previous))
  <2>1. CASE i \in 1..n
    BY <1>4, <2>1 DEF Sending, NamedIn
  <2>2. CASE i = n + 1
    BY <1>1, <1>3, <1>4, <2>2 DEF NamedIn
  <2> QED BY <2>1, <2>2
<1>7. repeated \subseteq next.recent
  BY <1>4 DEF Sending
<1> QED BY <1>5, <1>6, <1>7 DEF Sending

LEMMA FreshSends ==
  ASSUME NEW changes \in Seq(ChangesSeen), NEW repeated, NEW fresh, fresh = Fresh(changes, repeated)
  PROVE  Sending(fresh, Len(changes), changes, repeated)
<1> DEFINE N == Len(changes)
           First == [known |-> known, recent |-> repeated, send |-> <<>>]
           Is(f, m) == f = [n \in 0..m |-> IF n = 0 THEN First ELSE Admit(f[n - 1], changes[n])]
           S == {m \in Nat : \E f : Is(f, m)}
<1>1. 0 \in S
  <2> DEFINE f == [n \in 0..0 |-> First]
  <2> HIDE DEF First
  <2>1. Is(f, 0)
    OBVIOUS
  <2> HIDE DEF Is, f
  <2> QED BY <2>1
<1>2. ASSUME NEW m \in Nat, m \in S PROVE m + 1 \in S
  <2>1. PICK f : Is(f, m)
    BY <1>2
  <2> DEFINE g == [n \in 0..(m + 1) |-> IF n = m + 1 THEN Admit(f[m], changes[n]) ELSE f[n]]
  <2> HIDE DEF First
  <2>2. \A n \in 0..m : f[n] = IF n = 0 THEN First ELSE Admit(f[n - 1], changes[n])
    BY <2>1
  <2>3. \A n \in 0..(m + 1) : g[n] = IF n = 0 THEN First ELSE Admit(g[n - 1], changes[n])
    <3> TAKE n \in 0..(m + 1)
    <3>1. CASE n = m + 1
      BY <3>1
    <3>2. CASE n \in 1..m
      <4>1. n # m + 1 /\ n \in 0..m /\ n - 1 # m + 1 /\ n - 1 \in 0..(m + 1) /\ n # 0
        BY <3>2
      <4> QED BY <2>2, <4>1
    <3>3. CASE n = 0
      BY <2>2, <3>3
    <3> QED BY <3>1, <3>2, <3>3
  <2>4. g = [n \in 0..(m + 1) |-> g[n]]
    OBVIOUS
  <2> HIDE DEF g
  <2>5. Is(g, m + 1)
    BY <2>3, <2>4
  <2> HIDE DEF Is
  <2> QED BY <2>5
<1>3. Nat \subseteq S
  <2> HIDE DEF S
  <2> QED BY <1>1, <1>2, Induction
<1>4. N \in Nat
  OBVIOUS
<1>5. \E f : Is(f, N)
  <2> HIDE DEF Is, N
  <2> QED BY <1>3, <1>4
<1>6. fresh = (CHOOSE f : Is(f, N))[N]
  BY DEF Fresh
<1>7. PICK f : f = CHOOSE g : Is(g, N)
  OBVIOUS
<1>8. Is(f, N)
  <2> HIDE DEF Is, N
  <2> QED BY <1>5, <1>7
<1>9. \A n \in 0..N : f[n] = IF n = 0 THEN First ELSE Admit(f[n - 1], changes[n])
  <2> HIDE DEF First
  <2> QED BY <1>8
<1> DEFINE I == {n \in Nat : n <= N => Sending(f[n], n, changes, repeated)}
<1>10. 0 \in I
  <2>1. f[0].send = <<>> /\ f[0].recent = repeated
    BY <1>4, <1>9
  <2>2. PICK none : none = <<>>
    OBVIOUS
  <2>3. none \in Seq(ChangesSeen) /\ 1..0 = {}
    BY <2>2
  <2>4. Sending(f[0], 0, changes, repeated)
    BY ONLY <2>1, <2>2, <2>3 DEF Sending
  <2> QED BY <2>4
<1>11. ASSUME NEW n \in Nat, n \in I PROVE n + 1 \in I
  <2> SUFFICES ASSUME n + 1 <= N PROVE Sending(f[n + 1], n + 1, changes, repeated)
    OBVIOUS
  <2>1. n + 1 \in 1..Len(changes) /\ n + 1 \in 0..N /\ n + 1 # 0 /\ (n + 1) - 1 = n /\ n <= N
    BY <1>4
  <2>2. f[n + 1] = Admit(f[n], changes[n + 1])
    <3> HIDE DEF First
    <3> QED BY <1>9, <2>1
  <2>3. Sending(f[n], n, changes, repeated)
    BY <1>11, <2>1
  <2> QED BY <2>1, <2>2, <2>3, AdmitSends
<1>12. Nat \subseteq I
  <2> HIDE DEF I
  <2> QED BY <1>10, <1>11, Induction
<1>13. Sending(f[N], N, changes, repeated)
  BY <1>4, <1>12
<1> QED BY <1>6, <1>7, <1>13

-----------------------------------------------------------------------------
(* Every change is named: what the steps do to what was seen and sent *)

\* What is on the way from the poller to the recording.
Flow == <<seen, initial, raw, overflow, batch, recent, out, channel, collected>>

LEMMA NamesBegin == Init => NamesInv
<1> SUFFICES ASSUME Init PROVE NamesInv
  OBVIOUS
<1>1. /\ disk \in Files /\ seen = disk /\ initial = disk
      /\ raw = <<>> /\ batch = <<>> /\ out = <<>> /\ channel = <<>> /\ collected = <<>>
      /\ overflow = FALSE /\ dropped = FALSE /\ recent = {}
      /\ watcher = "wait" /\ collector = "open" /\ target = None
  BY WorkspacesAssumption DEF Init
<1>2. WatchTypes
  <2>1. raw \in Seq(RawEvents) /\ batch \in Seq(RawEvents)
    BY <1>1
  <2>2. out \in Seq(ChangesSeen) /\ channel \in Seq(ChangesSeen) /\ collected \in Seq(ChangesSeen)
    BY <1>1
  <2> QED BY <1>1, <2>1, <2>2 DEF WatchTypes
<1>3. NothingLost
  BY <1>1 DEF NothingLost
<1>4. PlacesInv /\ PublishedInv
  BY <1>1 DEF PlacesInv, PublishedInv, Published
<1> QED BY <1>2, <1>3, <1>4 DEF NamesInv

\* How NothingLost is kept: what is pending stays pending or gets named, and what is sent stays sent.
LEMMA NothingIsLost ==
  ASSUME NothingLost,
         collector' # "over" => collector # "over" /\ Sent \subseteq Sent' /\ recent' \subseteq Sent',
         ~overflow' /\ ~dropped' => ~overflow /\ ~dropped,
         ~overflow' => \A p \in Paths : seen'[p] # initial'[p] => seen[p] # initial[p] \/ IsPending(p)',
         collector' # "over" => \A p \in Paths : IsPending(p) => IsPending(p)' \/ NamedIn(Sent', p)
  PROVE  NothingLost'
<1> SUFFICES ASSUME collector' # "over"
             PROVE  /\ recent' \subseteq Sent'
                    /\ ~overflow' /\ ~dropped' =>
                         \A p \in Paths : seen'[p] # initial'[p] => NamedIn(Sent', p) \/ IsPending(p)'
  BY DEF NothingLost
<1>1. recent' \subseteq Sent' /\ Sent \subseteq Sent'
  OBVIOUS
<1>2. ASSUME ~overflow', ~dropped', NEW p \in Paths, seen'[p] # initial'[p]
      PROVE  NamedIn(Sent', p) \/ IsPending(p)'
  <2>1. seen[p] # initial[p] \/ IsPending(p)'
    BY <1>2
  <2>2. CASE IsPending(p)'
    BY <2>2
  <2>3. CASE seen[p] # initial[p]
    <3>1. NamedIn(Sent, p) \/ IsPending(p)
      BY <1>2, <2>3 DEF NothingLost
    <3>2. NamedIn(Sent, p) => NamedIn(Sent', p)
      BY <1>1 DEF NamedIn
    <3> QED BY <3>1, <3>2
  <2> QED BY <2>1, <2>2, <2>3
<1> QED BY <1>1, <1>2

\* Steps that move no event and no change.
LEMMA FlowStays ==
  ASSUME NamesInv, UNCHANGED Flow, disk' \in Files, dropped' \in BOOLEAN,
         dropped => dropped', collector' # "over" => collector # "over"
  PROVE  WatchTypes' /\ NothingLost'
<1>1. WatchTypes'
  BY DEF NamesInv, WatchTypes, Flow
<1>2. Sent' = Sent /\ \A p : IsPending(p)' <=> IsPending(p)
  BY DEF Flow, Sent, IsPending
<1>3. UNCHANGED <<seen, initial, overflow, recent>>
  BY DEF Flow
<1>4. collector' # "over" => recent \subseteq Sent
  BY DEF NamesInv, NothingLost
<1>5. NothingLost'
  BY <1>2, <1>3, <1>4, NothingIsLost DEF NamesInv
<1> QED BY <1>1, <1>5

LEMMA OutsideNames ==
  ASSUME NamesInv, Edit \/ ChildExits \/ HolderExits \/ Terminal \/ Cancel \/ StopWatcher \/ GiveUp \/ UNCHANGED vars
  PROVE  NamesInv'
<1>1. /\ UNCHANGED <<Flow, dropped, watcher, collector, target>>
      /\ disk' \in Files
  <2>1. CASE Edit
    BY <2>1 DEF Edit, Flow, poller, watching, collect, command
  <2>2. CASE ChildExits \/ HolderExits
    BY <2>2 DEF ChildExits, HolderExits, Flow, poller, watching, collect, command, NamesInv, WatchTypes
  <2>3. CASE Terminal
    BY <2>3 DEF Terminal, Open, OpenFails, Notice, Interrupt, Kill, TerminalFails, FinishCapture,
       FinishError, StoreFails, Return, Flow, world, poller, watching, collect, command, NamesInv, WatchTypes
  <2>4. CASE Cancel \/ StopWatcher \/ GiveUp
    BY <2>4 DEF Cancel, StopWatcher, GiveUp, Flow, world, poller, watching, collect, command, NamesInv,
       WatchTypes
  <2>5. CASE UNCHANGED vars
    BY <2>5 DEF vars, Flow, world, poller, watching, collect, command, NamesInv, WatchTypes
  <2> QED BY <2>1, <2>2, <2>3, <2>4, <2>5
<1>2. WatchTypes' /\ NothingLost'
  BY <1>1, FlowStays DEF NamesInv, WatchTypes
<1>3. PlacesInv' /\ PublishedInv'
  BY <1>1 DEF NamesInv, PlacesInv, PublishedInv, Published, Ended, Flow
<1> QED BY <1>2, <1>3 DEF NamesInv

LEMMA PollNames ==
  ASSUME NamesInv, Poll
  PROVE  NamesInv'
<1>1. PICK found, room : /\ found = ScanEvents(seen, disk) /\ room = RawCapacity - Len(raw)
                         /\ raw' = raw \o SubSeq(found, 1, IF Len(found) < room THEN Len(found) ELSE room)
                         /\ overflow' = (overflow \/ Len(found) > room)
  BY DEF Poll
<1>2. /\ ~Ended /\ seen' = disk
      /\ UNCHANGED <<disk, initial, watcher, batch, out, recent, dropped, channel, collected, collector, target>>
  BY DEF Poll, world, watching, collect, command
<1>3. /\ found \in Seq(RawEvents)
      /\ \A p \in Paths : seen[p] # disk[p] => \E k \in DOMAIN found : found[k].path = p
  <2>1. NumPaths \in Nat /\ seen \in [1..NumPaths -> Contents \cup {Absent}]
        /\ disk \in [1..NumPaths -> Contents \cup {Absent}]
    BY BudgetAssumption DEF NamesInv, WatchTypes, Files, Paths
  <2>2. /\ found \in Seq(PollEvents(NumPaths))
        /\ \A p \in 1..NumPaths : seen[p] # disk[p] => \E k \in DOMAIN found : found[k].path = p
    <3>1. PICK V, old, new : V = Contents \cup {Absent} /\ old = seen /\ new = disk
      OBVIOUS
    <3>2. old \in [1..NumPaths -> V] /\ new \in [1..NumPaths -> V] /\ found = ScanEvents(old, new)
      BY <1>1, <2>1, <3>1
    <3>3. ReportsAll(found, NumPaths, old, new)
      BY ONLY <2>1, <3>2, ScanFinds
    <3> QED BY <3>1, <3>3 DEF ReportsAll
  <2> QED BY <2>2 DEF PollEvents, RawEvents, Paths
<1>4. PICK m : m = IF Len(found) < room THEN Len(found) ELSE room
  OBVIOUS
<1>5. raw \in Seq(RawEvents) /\ Len(raw) \in Nat /\ Len(found) \in Nat /\ room \in Int
  BY <1>1, <1>3, CapacityAssumption DEF NamesInv, WatchTypes
<1>6. SubSeq(found, 1, m) \in Seq(RawEvents)
  <2>1. m \in Int /\ m <= Len(found)
    BY <1>4, <1>5
  <2>2. \A i \in 1..m : found[i] \in RawEvents
    BY <1>3, <2>1
  <2> QED BY <1>3, <2>1, <2>2
<1>7. raw' \in Seq(RawEvents) /\ ToSet(raw') = ToSet(raw) \cup ToSet(SubSeq(found, 1, m))
  <2>1. PICK more : more = SubSeq(found, 1, m)
    OBVIOUS
  <2>2. raw' = raw \o more /\ more \in Seq(RawEvents)
    BY <1>1, <1>4, <1>6, <2>1
  <2> QED BY ONLY <1>5, <2>1, <2>2, JoinHas
<1>8. WatchTypes'
  <2>1. overflow' \in BOOLEAN
    BY <1>1, Zenon
  <2> QED BY <1>2, <1>7, <2>1 DEF NamesInv, WatchTypes
<1>9. \A p : IsPending(p) => IsPending(p)'
  BY <1>2, <1>7 DEF IsPending
<1>10. ASSUME ~overflow', NEW p \in Paths, seen'[p] # initial'[p]
       PROVE  seen[p] # initial[p] \/ IsPending(p)'
  <2> SUFFICES ASSUME seen[p] = initial[p] PROVE IsPending(p)'
    OBVIOUS
  <2>1. seen[p] # disk[p]
    BY <1>2, <1>10
  <2>2. PICK k \in DOMAIN found : found[k].path = p
    BY <1>3, <2>1
  <2>3. ~(Len(found) > room)
    BY <1>1, <1>10
  <2>4. m = Len(found)
    BY <1>4, <1>5, <2>3
  <2>5. SubSeq(found, 1, m) = found
    BY <1>3, <2>4
  <2>6. found[k] \in ToSet(raw')
    BY <1>7, <2>5 DEF ToSet
  <2> QED BY <2>2, <2>6 DEF IsPending
<1>11. Sent' = Sent /\ recent' = recent
  BY <1>2 DEF Sent
<1>12. ~overflow' => ~overflow
  BY <1>1
<1>13. collector' # "over" => collector # "over" /\ recent \subseteq Sent
  BY <1>2 DEF NamesInv, NothingLost
<1>14. NothingLost'
  BY <1>2, <1>9, <1>10, <1>11, <1>12, <1>13, NothingIsLost DEF NamesInv
<1>15. PlacesInv' /\ PublishedInv'
  BY <1>2 DEF NamesInv, PlacesInv, PublishedInv, Published, Ended
<1> QED BY <1>8, <1>14, <1>15 DEF NamesInv

LEMMA TakeNames ==
  ASSUME NamesInv, Take
  PROVE  NamesInv'
<1>1. /\ watcher \in {"wait", "batch"} /\ raw # <<>> /\ raw' = Tail(raw)
      /\ batch' = Append(batch, Head(raw)) /\ watcher' = "batch"
      /\ UNCHANGED <<disk, seen, initial, overflow, out, recent, dropped, channel, collected, collector, target>>
  BY DEF Take, world, collect, command
<1>2. /\ raw' \in Seq(RawEvents) /\ Head(raw) \in RawEvents
      /\ ToSet(raw) = ToSet(raw') \cup {Head(raw)}
  BY <1>1, TailHas DEF NamesInv, WatchTypes
<1>3. batch' \in Seq(RawEvents) /\ ToSet(batch') = ToSet(batch) \cup {Head(raw)}
  BY <1>1, <1>2, AppendHas DEF NamesInv, WatchTypes
<1>4. WatchTypes'
  BY <1>1, <1>2, <1>3 DEF NamesInv, WatchTypes
<1>5. \A p : IsPending(p) => IsPending(p)'
  BY <1>2, <1>3 DEF IsPending
<1>6. Sent' = Sent
  BY <1>1 DEF Sent
<1>7. collector' # "over" => collector # "over" /\ recent \subseteq Sent
  BY <1>1 DEF NamesInv, NothingLost
<1>8. NothingLost'
  BY <1>1, <1>5, <1>6, <1>7, NothingIsLost DEF NamesInv
<1>9. PlacesInv' /\ PublishedInv'
  BY <1>1 DEF NamesInv, PlacesInv, PublishedInv, Published, Ended
<1> QED BY <1>4, <1>8, <1>9 DEF NamesInv

\* What a batch becomes names every file its events are about.
LEMMA BatchIsNamed ==
  ASSUME WatchTypes, NEW changes, changes = Adapt(batch, disk)
  PROVE  /\ changes \in Seq(ChangesSeen)
         /\ \A e \in ToSet(batch) : NamedIn(ToSet(changes), e.path)
<1>1. NumPaths \in Nat /\ batch \in Seq(PollEvents(NumPaths)) /\ Paths = 1..NumPaths
  BY BudgetAssumption DEF WatchTypes, PollEvents, RawEvents, Paths
<1>2. /\ changes \in Seq(PlainChanges(NumPaths, disk) \cup MovedChanges(NumPaths, disk))
      /\ \A i \in DOMAIN batch : NamedIn(ToSet(changes), batch[i].path)
  BY <1>1, AdaptNames
<1>3. \A p \in Paths : disk[p] \in Contents \cup {Absent}
  BY DEF WatchTypes, Files
<1>4. PlainChanges(NumPaths, disk) \subseteq ChangesSeen
  BY <1>1, <1>3 DEF PlainChanges, ChangeFor, ChangesSeen
<1>5. MovedChanges(NumPaths, disk) \subseteq ChangesSeen
  BY <1>1, <1>3 DEF MovedChanges, ChangeFor, ChangesSeen
<1>6. changes \in Seq(ChangesSeen)
  BY <1>2, <1>4, <1>5
<1>7. \A e \in ToSet(batch) : NamedIn(ToSet(changes), e.path)
  BY <1>2 DEF ToSet
<1> QED BY <1>6, <1>7

LEMMA CloseNames ==
  ASSUME NamesInv, CloseBatch
  PROVE  NamesInv'
<1>1. PICK repeated \in {recent, {}} :
        LET fresh == Fresh(Adapt(batch, disk), repeated)
        IN known' = fresh.known /\ recent' = fresh.recent /\ out' = fresh.send
  BY DEF CloseBatch
<1>2. PICK changes : changes = Adapt(batch, disk)
  OBVIOUS
<1>3. PICK fresh : fresh = Fresh(changes, repeated)
  OBVIOUS
<1>4. recent' = fresh.recent /\ out' = fresh.send
  BY <1>1, <1>2, <1>3
<1>5. /\ watcher = "batch" /\ watcher' = "send" /\ batch' = <<>> /\ out = <<>>
      /\ UNCHANGED <<disk, seen, initial, raw, overflow, dropped, channel, collected, collector, target>>
  BY DEF CloseBatch, world, poller, collect, command, NamesInv, PlacesInv
<1>6. /\ changes \in Seq(ChangesSeen)
      /\ \A e \in ToSet(batch) : NamedIn(ToSet(changes), e.path)
  BY <1>2, BatchIsNamed DEF NamesInv
<1>7. Sending(fresh, Len(changes), changes, repeated)
  BY <1>3, <1>6, FreshSends
<1>8. \A p : NamedIn(ToSet(changes), p) => NamedIn(fresh.recent, p)
  <2>1. DOMAIN changes = 1..Len(changes)
    BY <1>6
  <2> TAKE p
  <2> HAVE NamedIn(ToSet(changes), p)
  <2>2. PICK i \in 1..Len(changes) : changes[i].path = p \/ (changes[i].kind = "moved" /\ changes[i].previous = p)
    BY <2>1 DEF NamedIn, ToSet
  <2> QED BY <1>7, <2>2 DEF Sending
<1>9. WatchTypes'
  <2>1. out' \in Seq(ChangesSeen)
    BY <1>4, <1>7 DEF Sending
  <2>2. batch' \in Seq(RawEvents)
    BY <1>5
  <2> QED BY <1>5, <2>1, <2>2 DEF NamesInv, WatchTypes
<1>10. collector # "over" => Sent \subseteq Sent' /\ recent' \subseteq Sent'
  <2> HAVE collector # "over"
  <2>1. recent \subseteq Sent
    BY DEF NamesInv, NothingLost
  <2>2. Sent' = ToSet(collected) \cup ToSet(channel) \cup ToSet(out') /\ Sent = ToSet(collected) \cup ToSet(channel)
    <3>1. ToSet(out) = {}
      BY <1>5 DEF ToSet
    <3> QED BY <1>5, <3>1 DEF Sent
  <2>3. recent' \subseteq repeated \cup ToSet(out')
    BY <1>4, <1>7 DEF Sending
  <2> QED BY <2>1, <2>2, <2>3
<1>11. collector # "over" => \A p \in Paths : IsPending(p) => IsPending(p)' \/ NamedIn(Sent', p)
  <2> HAVE collector # "over"
  <2> TAKE p \in Paths
  <2> HAVE IsPending(p)
  <2>1. PICK e \in ToSet(raw) \cup ToSet(batch) : e.path = p
    BY DEF IsPending
  <2>2. CASE e \in ToSet(raw)
    BY <1>5, <2>1, <2>2 DEF IsPending
  <2>3. CASE e \in ToSet(batch)
    <3>1. NamedIn(recent', p)
      BY <1>4, <1>6, <1>8, <2>1, <2>3
    <3>2. recent' \subseteq Sent'
      BY <1>10
    <3> QED BY <3>1, <3>2 DEF NamedIn
  <2> QED BY <2>1, <2>2, <2>3
<1>12. NothingLost'
  BY <1>5, <1>10, <1>11, NothingIsLost DEF NamesInv
<1>13. PlacesInv' /\ PublishedInv'
  BY <1>5 DEF NamesInv, PlacesInv, PublishedInv, Published, Ended
<1> QED BY <1>9, <1>12, <1>13 DEF NamesInv

LEMMA SendNames ==
  ASSUME NamesInv, Send
  PROVE  NamesInv'
<1>1. /\ watcher = "send"
      /\ UNCHANGED <<disk, seen, initial, raw, overflow, batch, recent, dropped, collected, collector, target>>
  BY DEF Send, world, poller, command
<1>2. CASE out = <<>>
  <2>1. watcher' = "wait" /\ UNCHANGED <<out, channel>>
    BY <1>2 DEF Send
  <2>2. WatchTypes' /\ NothingLost'
    BY <1>1, <2>1, FlowStays DEF Flow, NamesInv, WatchTypes
  <2>3. PlacesInv' /\ PublishedInv'
    BY <1>1, <1>2, <2>1 DEF NamesInv, PlacesInv, PublishedInv, Published, Ended
  <2> QED BY <2>2, <2>3 DEF NamesInv
<1>3. CASE out # <<>>
  <2>1. /\ collector = "open" /\ channel' = Append(channel, Head(out)) /\ out' = Tail(out)
        /\ watcher' = watcher
    BY <1>3 DEF Send
  <2>2. /\ out' \in Seq(ChangesSeen) /\ Head(out) \in ChangesSeen
        /\ ToSet(out) = ToSet(out') \cup {Head(out)}
    BY <1>3, <2>1, TailHas DEF NamesInv, WatchTypes
  <2>3. channel' \in Seq(ChangesSeen) /\ ToSet(channel') = ToSet(channel) \cup {Head(out)}
    BY <2>1, <2>2, AppendHas DEF NamesInv, WatchTypes
  <2>4. WatchTypes'
    BY <1>1, <2>2, <2>3 DEF NamesInv, WatchTypes
  <2>5. Sent' = Sent /\ \A p : IsPending(p)' <=> IsPending(p)
    BY <1>1, <2>2, <2>3 DEF Sent, IsPending
  <2>6. NothingLost'
    BY <1>1, <2>5 DEF NamesInv, NothingLost
  <2>7. PlacesInv' /\ PublishedInv'
    BY <1>1, <2>1 DEF NamesInv, PlacesInv, PublishedInv, Published, Ended
  <2> QED BY <2>4, <2>6, <2>7 DEF NamesInv
<1> QED BY <1>2, <1>3

LEMMA WatcherEndNames ==
  ASSUME NamesInv, WatcherFails \/ WatcherStops
  PROVE  NamesInv'
<1>1. /\ UNCHANGED <<Flow, disk, collector, target>> /\ ~Ended
      /\ \/ watcher' = "failed" /\ dropped' = dropped
         \/ watcher' = "ended"
            /\ dropped' = (overflow \/ raw # <<>> \/ batch # <<>> \/ out # <<>> \/ seen # disk)
  BY DEF WatcherFails, WatcherStops, Flow, world, poller, collect, command
<1>2. ~dropped
  BY <1>1 DEF NamesInv, PlacesInv, Ended
<1>3. dropped' \in BOOLEAN
  BY <1>1 DEF NamesInv, WatchTypes
<1>4. WatchTypes' /\ NothingLost'
  BY <1>1, <1>2, <1>3, FlowStays DEF NamesInv, WatchTypes
<1>5. PlacesInv' /\ PublishedInv'
  BY <1>1, <1>2 DEF NamesInv, PlacesInv, PublishedInv, Published, Ended, Flow
<1> QED BY <1>4, <1>5 DEF NamesInv

LEMMA CollectingNames ==
  ASSUME NamesInv, Collecting
  PROVE  NamesInv'
<1>1. UNCHANGED <<disk, seen, initial, raw, overflow, batch, recent, dropped, out, watcher, target>>
      /\ collector = "open"
  BY DEF Collecting, Collect, CloseCollector, world, poller, watching, command
<1>2. ~Published
  BY <1>1 DEF NamesInv, PublishedInv
<1>3. CASE CloseCollector
  <2>1. Ended /\ channel = <<>> /\ collector' = "closed" /\ UNCHANGED <<channel, collected>>
    BY <1>3 DEF CloseCollector
  <2>2. WatchTypes' /\ NothingLost'
    BY <1>1, <2>1, FlowStays DEF Flow, NamesInv, WatchTypes
  <2>3. PlacesInv' /\ PublishedInv'
    BY <1>1, <1>2, <2>1 DEF NamesInv, PlacesInv, PublishedInv, Published, Ended
  <2> QED BY <2>2, <2>3 DEF NamesInv
<1>4. CASE Collect
  <2>1. /\ channel # <<>> /\ channel' = Tail(channel)
        /\ \/ collector' = "over" /\ collected' = collected
           \/ collected' = Append(collected, Head(channel)) /\ collector' = collector
    BY <1>4 DEF Collect
  <2>2. /\ channel' \in Seq(ChangesSeen) /\ Head(channel) \in ChangesSeen
        /\ ToSet(channel) = ToSet(channel') \cup {Head(channel)}
    BY <2>1, TailHas DEF NamesInv, WatchTypes
  <2>3. PlacesInv' /\ PublishedInv'
    BY <1>1, <1>2, <2>1 DEF NamesInv, PlacesInv, PublishedInv, Published, Ended
  <2>4. CASE collector' = "over" /\ collected' = collected
    <3>1. WatchTypes'
      BY <1>1, <2>2, <2>4 DEF NamesInv, WatchTypes
    <3>2. NothingLost'
      BY <2>4 DEF NothingLost
    <3> QED BY <2>3, <3>1, <3>2 DEF NamesInv
  <2>5. CASE collected' = Append(collected, Head(channel)) /\ collector' = collector
    <3>1. collected' \in Seq(ChangesSeen) /\ ToSet(collected') = ToSet(collected) \cup {Head(channel)}
      BY <2>2, <2>5, AppendHas DEF NamesInv, WatchTypes
    <3>2. WatchTypes'
      BY <1>1, <2>2, <3>1 DEF NamesInv, WatchTypes
    <3>3. Sent' = Sent /\ \A p : IsPending(p)' <=> IsPending(p)
      BY <1>1, <2>2, <3>1 DEF Sent, IsPending
    <3>4. NothingLost'
      BY <1>1, <2>5, <3>3 DEF NamesInv, NothingLost
    <3> QED BY <2>3, <3>2, <3>4 DEF NamesInv
  <2> QED BY <2>1, <2>4, <2>5
<1> QED BY <1>3, <1>4 DEF Collecting

LEMMA PublishNames ==
  ASSUME NamesInv, Publish
  PROVE  NamesInv'
<1>1. /\ UNCHANGED <<Flow, disk, dropped, watcher, collector>>
      /\ Joined /\ collector # "over"
      /\ target' = [tape |-> tape, changes |-> collected]
  BY DEF Publish, Prevented, Flow, world, poller, watching, collect
<1>2. collector = "closed"
  BY <1>1 DEF Joined, NamesInv, PlacesInv
<1>3. WatchTypes' /\ NothingLost'
  BY <1>1, FlowStays DEF NamesInv, WatchTypes
<1>4. PlacesInv'
  BY <1>1 DEF NamesInv, PlacesInv, Ended, Flow
<1>5. PublishedInv'
  BY <1>1, <1>2 DEF PublishedInv, Flow
<1> QED BY <1>3, <1>4, <1>5 DEF NamesInv

LEMMA NamesStep == NamesInv /\ [Next]_vars => NamesInv'
<1> SUFFICES ASSUME NamesInv, [Next]_vars PROVE NamesInv'
  OBVIOUS
<1>1. CASE Edit \/ ChildExits \/ HolderExits \/ Terminal \/ Cancel \/ StopWatcher \/ GiveUp \/ UNCHANGED vars
  BY <1>1, OutsideNames
<1>2. CASE Watching
  BY <1>2, PollNames, TakeNames, CloseNames, SendNames, WatcherEndNames DEF Watching
<1>3. CASE Collecting
  BY <1>3, CollectingNames
<1>4. CASE Publish
  BY <1>4, PublishNames
<1> QED BY <1>1, <1>2, <1>3, <1>4 DEF Next, Main

\* watch_workspace and collect_changes: if nothing was pending when the watcher was stopped, the changes of
\* a published recording name every file that is not what it was, although events are batched, changes
\* are paired into moves and repetitions are left out, whatever the capacities and the workspace.
THEOREM ChangesAreNamed == Spec => []EveryChangeIsNamed
<1>1. Init => NamesInv
  BY NamesBegin
<1>2. NamesInv /\ [Next]_vars => NamesInv'
  BY NamesStep
<1>3. NamesInv => EveryChangeIsNamed
  <2> SUFFICES ASSUME NamesInv, Published, watcher = "ended", ~dropped,
                      NEW p \in Paths, seen[p] # initial[p]
               PROVE  p \in Named(target.changes)
    BY DEF EveryChangeIsNamed
  <2>1. collector = "closed" /\ target.changes = collected /\ channel = <<>>
        /\ raw = <<>> /\ batch = <<>> /\ out = <<>> /\ ~overflow
    BY DEF NamesInv, PublishedInv, PlacesInv
  <2>2. ~IsPending(p) /\ Sent = ToSet(collected)
    BY <2>1 DEF IsPending, Sent, ToSet
  <2>3. NamedIn(ToSet(collected), p)
    BY <2>1, <2>2 DEF NamesInv, NothingLost
  <2> QED BY <2>1, <2>3 DEF Named, NamedIn, ToSet
<1> QED BY <1>1, <1>2, <1>3, PTL DEF Spec
=============================================================================
