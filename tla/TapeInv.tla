------------------------------ MODULE TapeInv -------------------------------
(* The inductive invariant of TapeStore. *)
EXTENDS TapeStore

\* Texts carry their place as number, and only the last can be cut.
Numbered ==
  \A i \in 1 .. Len(file) :
    IF file[i].event = Fragment THEN i = Len(file) ELSE file[i].event.sequence = i - 1

LockHeld == \A w \in Writers : pc[w] = "idle" <=> lock # w

\* What a writer knows between its check and its return.
WriterInv(w) ==
  /\ pc[w] \in {"line", "newline", "sync", "manifest"} =>
       /\ job[w] # Finish
       /\ ~finished
       /\ job[w].sequence = count
       /\ Len(file) = count + 1
  /\ pc[w] = "line" => file[Len(file)].event = Fragment
  /\ pc[w] \in {"newline", "sync", "manifest"} => file[Len(file)].event = job[w]
  /\ pc[w] \in {"line", "newline"} => synced < Len(file)
  /\ pc[w] = "manifest" => synced = Len(file)
  /\ pc[w] = "counted" /\ job[w] # Finish =>
       /\ Holds(job[w])
       /\ job[w].sequence < synced
       /\ job[w].sequence < count
  /\ pc[w] = "repaired" => job[w] # Finish /\ Holds(job[w]) /\ job[w].sequence < count

\* Where an event that was acknowledged is: a power loss can only cut it off together with
\* everything behind it.
Kept(e) ==
  /\ e.sequence < count
  /\ \/ Holds(e)
     \/ /\ losses > 0
        /\ Len(file) <= e.sequence + 1
        /\ Len(file) = e.sequence + 1 => file[Len(file)].event = Fragment

AckInv ==
  /\ \A e \in written : e.sequence < synced /\ e.sequence < count /\ Holds(e)
  /\ \A e \in recovered : Kept(e)

ReaderInv(r) ==
  reading[r] # None =>
    LET it == reading[r] IN
    /\ Len(it.got) <= it.count
    /\ it.count <= count
    /\ Len(it.got) <= Len(file)
    /\ \A i \in 1 .. Len(it.got) : it.got[i] = file[i].event /\ it.got[i] # Fragment
    /\ it.since \subseteq written \cup recovered
    /\ \A e \in it.since : e.sequence < it.count
    /\ it.done => Len(it.got) = it.count

IInv ==
  /\ TypeOK
  /\ Numbered
  /\ LockHeld
  /\ \A w \in Writers : WriterInv(w)
  /\ RepairIsEnough
  /\ AckInv
  /\ FinishedIsComplete
  /\ \A r \in Readers : ReaderInv(r)
=============================================================================
