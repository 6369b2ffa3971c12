--------------------------- MODULE VerifyConsole ---------------------------
(***************************************************************************)
(* Console lists the attempts of the journal while commands write to it.   *)
(* It takes no lock: it reads the directory once and then the start and    *)
(* the completion of each attempt it found, and fails as a whole if one    *)
(* cannot be read.                                                         *)
(***************************************************************************)
EXTENDS VerifyInv

CONSTANT Readers

VARIABLE view    \* of each reader: its place, the names it found, what is left, the rows

Names == {"started", "finished"} \X Procs

View == [pc : {"idle", "list", "rows", "completion", "shown", "failed"}, names : SUBSET Names,
         todo : SUBSET Procs, at : Procs \cup {None}, rows : [Procs -> Outcomes \cup {"start-only", None}]]

Blank == [pc |-> "idle", names |-> {}, todo |-> {}, at |-> None, rows |-> [p \in Procs |-> None]]

ConsoleInit == Init /\ view = [r \in Readers |-> Blank]

Present == {n \in Names : IF n[1] = "started" THEN started[n[2]] ELSE finished[n[2]] # None}

\* attempt_metadata: a regular file with a link count of one that does not change while it is read.
Readable(d, p) == ~(temp[p] = "linked" /\ doc[p] = d)

Show(r, v) == view' = [view EXCEPT ![r] = v]

\* verify_attempts opens the directory: what is there is found.
OpenList(r) ==
  /\ view[r].pc = "idle"
  /\ Show(r, [view[r] EXCEPT !.pc = "list", !.names = Present])
  /\ UNCHANGED vars

\* What appears during the enumeration may be found.  A completion needs its start.
CloseList(r) ==
  /\ view[r].pc = "list"
  /\ \E more \in SUBSET (Present \ view[r].names) :
       LET found  == view[r].names \cup more
           starts == {p \in Procs : <<"started", p>> \in found}
           ends   == {p \in Procs : <<"finished", p>> \in found}
       IN Show(r, [view[r] EXCEPT
            !.names = {},
            !.todo = starts,
            !.pc = IF Cardinality(starts) > MaxAttempts \/ ~(ends \subseteq starts)
                   THEN "failed" ELSE "rows"])
  /\ UNCHANGED vars

NextRow(r) == CHOOSE p \in view[r].todo : TRUE

\* verify_attempt: the start of the next attempt.
ReadStart(r) ==
  /\ view[r].pc = "rows"
  /\ view[r].todo # {}
  /\ Show(r, IF Readable("started", NextRow(r))
             THEN [view[r] EXCEPT !.pc = "completion", !.at = NextRow(r)]
             ELSE [view[r] EXCEPT !.pc = "failed"])
  /\ UNCHANGED vars

\* Its completion, if there is one.
ReadCompletion(r) ==
  /\ view[r].pc = "completion"
  /\ LET p == view[r].at IN
     Show(r, IF ~Readable("finished", p) THEN [view[r] EXCEPT !.pc = "failed"]
             ELSE [view[r] EXCEPT !.pc = "rows", !.at = None, !.todo = @ \ {p},
                     !.rows[p] = IF finished[p] = None THEN "start-only" ELSE finished[p].outcome])
  /\ UNCHANGED vars

ShowRows(r) ==
  /\ view[r].pc = "rows"
  /\ view[r].todo = {}
  /\ Show(r, [view[r] EXCEPT !.pc = "shown"])
  /\ UNCHANGED vars

\* The page is left or reloaded.
Leave(r) ==
  /\ view[r].pc \in {"shown", "failed"}
  /\ Show(r, Blank)
  /\ UNCHANGED vars

Look(r) == OpenList(r) \/ CloseList(r) \/ ReadStart(r) \/ ReadCompletion(r) \/ ShowRows(r)

ConsoleNext ==
  \/ Next /\ UNCHANGED view
  \/ \E r \in Readers : Look(r) \/ Leave(r)

ConsoleSpec ==
  /\ ConsoleInit /\ [][ConsoleNext]_<<vars, view>>
  /\ \A p \in Procs : WF_vars(Command(p))

-----------------------------------------------------------------------------
\* What Console shows of an attempt is true of the command, though it reads without a lock: a receipt
\* that is shown as produced is published, and preparation that is shown as failed never led to a run.
ViewIsTrue ==
  \A r \in Readers, p \in Procs :
    /\ view[r].rows[p] = "receipt_produced" => ran[p] /\ EvidenceIsThere(p)
    /\ view[r].rows[p] = "preparation_failed" => ~ran[p]

\* A row repeats the completion it was read from.
ViewInv ==
  /\ view \in [Readers -> View]
  /\ \A r \in Readers : view[r].pc = "completion" => view[r].at # None
  /\ \A r \in Readers, p \in Procs : view[r].rows[p] \in Outcomes =>
       finished[p] # None /\ finished[p].outcome = view[r].rows[p]

Writing(p) == pc[p] \notin {"idle", "exited", "dead"}

\* README.md:18: the attempts of interrupted commands can be inspected.  A list that is opened when no
\* command is at work does not fail.
InterruptedIsInspectable ==
  [][\A r \in Readers : view[r].pc # "failed" /\ view'[r].pc = "failed" =>
       \E p \in Procs : Writing(p)]_<<vars, view>>
=============================================================================
