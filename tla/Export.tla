------------------------------- MODULE Export -------------------------------
(***************************************************************************)
(* `skilltape export`: commands that copy the selected files of a package  *)
(* into a private directory, validate the copy, compare it with the        *)
(* package again and publish it with one rename that replaces nothing.     *)
(* The package may be edited meanwhile, other exports may go to the same   *)
(* place, and a command may fail or be killed anywhere.                    *)
(***************************************************************************)
EXTENDS Naturals, FiniteSets

CONSTANTS
  Exporters,   \* the commands
  Scripts,     \* files a workflow may run
  Fixtures,    \* files that are part of a package because of where they are
  Contents,    \* what a file may hold
  Receipts,    \* what the Receipts vouch for: the files of a package and what they hold
  MaxEdits,    \* bound on the changes of the package
  Workflow,    \* workflow.yaml with skilltape.lock
  Runs,        \* the scripts that a workflow of these contents runs
  StepIds,     \* the names of its steps
  Absent, None

Names == {Workflow} \cup Scripts \cup Fixtures

ASSUME NamesAssumption == Workflow \notin Scripts \cup Fixtures
ASSUME EditsAssumption == MaxEdits \in Nat
ASSUME RunsAssumption == Runs \in [Contents -> SUBSET Scripts]
ASSUME AbsentAssumption == Absent \notin Contents
ASSUME NoneAssumption == None \notin [Names -> Contents \cup {Absent}] \cup Contents

VARIABLES
  tree,      \* the package: what each file holds, and its stamp
  edits,     \* changes of it so far
  output,    \* the destination
  pc,        \* where each command is
  request,   \* its arguments
  loaded,    \* the workflow it read first
  files,     \* the files it selected
  left,      \* those the step at hand has still to visit
  stat,      \* the stamps of its snapshot
  staged,    \* its private copy
  basis      \* history: the package when the copy had been validated

disk    == <<tree, edits, output>>
private == <<request, loaded, files, left, stat, staged, basis>>
vars    == <<disk, pc, private>>

\* Device, inode, size, times and mode as one stamp: every change of a file is a new stamp.
Stamps    == 0..MaxEdits
File      == [is : Contents, stamp : Stamps]
Listings  == [Names -> Contents \cup {Absent}]
Blank     == [f \in Names |-> Absent]
NamesOf(l) == {f \in Names : l[f] # Absent}

\* What a package needs so that it can be run.
Runnable(l) == l[Workflow] # Absent /\ Runs[l[Workflow]] \subseteq NamesOf(l)

Packages == {l \in Listings : Runnable(l)}

ASSUME ReceiptsAssumption == Receipts \subseteq {l \in Listings : l[Workflow] # Absent}

Requests == [receipt : Receipts \cup {None}, agent : BOOLEAN]
Labels   == {"idle", "parse", "reserve", "select", "capture", "copy", "check", "validate", "check again",
             "select again", "compare", "last look", "publish", "done", "failed"}

TypeOK ==
  /\ tree \in [Names -> File \cup {Absent}]
  /\ \A f \in Names : tree[f] # Absent => tree[f].stamp \in 0..edits
  /\ edits \in 0..MaxEdits
  /\ output \in [by : Exporters, holds : Listings] \cup {Absent}
  /\ pc \in [Exporters -> Labels]
  /\ request \in [Exporters -> Requests]
  /\ loaded \in [Exporters -> Contents \cup {None}]
  /\ files \in [Exporters -> SUBSET Names]
  /\ left \in [Exporters -> SUBSET Names]
  /\ \A p \in Exporters : left[p] \subseteq files[p]
  /\ stat \in [Exporters -> [Names -> Stamps]]
  /\ staged \in [Exporters -> Listings]
  /\ basis \in [Exporters -> Listings]

Holding == [f \in Names |-> IF tree[f] = Absent THEN Absent ELSE tree[f].is]
Present == NamesOf(tree)

Init ==
  /\ \E l \in Packages :
       tree = [f \in Names |-> IF l[f] = Absent THEN Absent ELSE [is |-> l[f], stamp |-> 0]]
  /\ edits = 0
  /\ output = Absent
  /\ pc = [p \in Exporters |-> "idle"]
  /\ request = [p \in Exporters |-> [receipt |-> None, agent |-> FALSE]]
  /\ loaded = [p \in Exporters |-> None]
  /\ files = [p \in Exporters |-> {}]
  /\ left = [p \in Exporters |-> {}]
  /\ stat = [p \in Exporters |-> [f \in Names |-> 0]]
  /\ staged = [p \in Exporters |-> Blank]
  /\ basis = [p \in Exporters |-> Blank]

-----------------------------------------------------------------------------
(* Others edit the package. *)

Edit(f) ==
  /\ edits < MaxEdits
  /\ edits' = edits + 1
  /\ \/ \E c \in Contents : tree' = [tree EXCEPT ![f] = [is |-> c, stamp |-> edits + 1]]
     \/ tree' = [tree EXCEPT ![f] = Absent]
  /\ UNCHANGED <<output, pc, private>>

-----------------------------------------------------------------------------
(* One export *)

Move(p, here, next) ==
  /\ pc[p] = here
  /\ pc' = [pc EXCEPT ![p] = next]
  /\ UNCHANGED <<tree, edits>>

\* Every file is visited once: the next one in order, and after the last one the label that follows.
Visit(p, f, here, next) ==
  /\ Move(p, here, IF left[p] = {f} THEN next ELSE here)
  /\ f \in left[p] /\ f = CHOOSE g \in left[p] : TRUE
  /\ left' = [left EXCEPT ![p] = IF @ = {f} THEN files[p] ELSE @ \ {f}]

\* The command is over: its memory is gone, and its private directory is nobody's.
Forget(p) ==
  /\ loaded' = [loaded EXCEPT ![p] = None]
  /\ files' = [files EXCEPT ![p] = {}]
  /\ left' = [left EXCEPT ![p] = {}]
  /\ stat' = [stat EXCEPT ![p] = [f \in Names |-> 0]]
  /\ staged' = [staged EXCEPT ![p] = Blank]

\* A target that puts the package into a directory of its own, and a Receipt, add an outer private
\* directory and an outer publication.
Layered(p) == request[p].agent \/ request[p].receipt # None

\* SkillPackage::load, before anything else.
Load(p) ==
  /\ \E r \in Requests :
       /\ request' = [request EXCEPT ![p] = r]
       /\ Move(p, "idle", IF r.receipt # None THEN "parse" ELSE IF r.agent THEN "reserve" ELSE "select")
  /\ Workflow \in Present
  /\ loaded' = [loaded EXCEPT ![p] = tree[Workflow].is]
  /\ UNCHANGED <<output, files, left, stat, staged, basis>>

\* The steps of the Receipt have the names of those of the workflow in memory.
Parse(p) ==
  /\ Move(p, "parse", "reserve")
  /\ StepIds[request[p].receipt[Workflow]] = StepIds[loaded[p]]
  /\ UNCHANGED <<output, request, loaded, files, left, stat, staged, basis>>

\* ensure_output_absent, and the private directory: first thing in the outer layer, otherwise after
\* the snapshot.
Reserve(p) ==
  /\ Move(p, "reserve", IF Layered(p) THEN "select" ELSE "copy")
  /\ output = Absent
  /\ UNCHANGED <<output, request, loaded, files, left, stat, staged, basis>>

\* The required files, the fixtures, and the scripts of the workflow in memory, which must exist.
Selected(p)   == {f \in Present : f = Workflow \/ f \in Fixtures \/ f \in Runs[loaded[p]]}
Selectable(p) == {Workflow} \cup Runs[loaded[p]] \subseteq Present

SelectFiles(p) ==
  /\ Move(p, "select", "capture")
  /\ Selectable(p)
  /\ files' = [files EXCEPT ![p] = Selected(p)]
  /\ left' = [left EXCEPT ![p] = Selected(p)]
  /\ UNCHANGED <<output, request, loaded, stat, staged, basis>>

\* Snapshot::capture
Capture(p) == \E f \in Present :
  /\ Visit(p, f, "capture", IF Layered(p) THEN "copy" ELSE "reserve")
  /\ stat' = [stat EXCEPT ![p][f] = tree[f].stamp]
  /\ UNCHANGED <<output, request, loaded, files, staged, basis>>

IsSame(p, f) == f \in Present /\ tree[f].stamp = stat[p][f]

\* Snapshot::copy_to opens a file, copies it and looks at it again; the last look decides.
Copy(p) == \E f \in Present :
  /\ IsSame(p, f)
  /\ Visit(p, f, "copy", "check")
  /\ staged' = [staged EXCEPT ![p][f] = tree[f].is]
  /\ UNCHANGED <<output, request, loaded, files, stat, basis>>

\* Snapshot::check at the end of copy_to, and once more when the copy has been validated.
Check(p) == \E f \in Present :
  /\ IsSame(p, f)
  /\ \/ Visit(p, f, "check", "validate")
     \/ Visit(p, f, "check again", "select again")
  /\ UNCHANGED <<output, request, loaded, files, stat, staged, basis>>

CheckOnce(p) ==   \* mutant
  /\ Move(p, "validate", "select again")
  /\ basis' = [basis EXCEPT ![p] = Holding]
  /\ UNCHANGED <<output, request, loaded, files, left, stat, staged>>
\* The copy is loaded and linted; package_hash is the digest of the copy.
Validate(p) ==
  /\ Move(p, "validate", "check again")
  /\ basis' = [basis EXCEPT ![p] = Holding]
  /\ UNCHANGED <<output, request, loaded, files, left, stat, staged>>

\* The same files would be selected again, for the workflow in memory.
SelectAgain(p) ==
  /\ Move(p, "select again", IF Layered(p) THEN "compare" ELSE "last look")
  /\ Selectable(p) /\ Selected(p) = files[p]
  /\ UNCHANGED <<output, request, loaded, files, left, stat, staged, basis>>

CompareSteps(p) ==   \* mutant
  /\ Move(p, "compare", "last look")
  /\ request[p].receipt # None => StepIds[staged[p][Workflow]] = StepIds[request[p].receipt[Workflow]]
  /\ UNCHANGED <<output, request, loaded, files, left, stat, staged, basis>>
\* The digest of the copy is the one in the Receipt.
Compare(p) ==
  /\ Move(p, "compare", "last look")
  /\ request[p].receipt # None => staged[p] = request[p].receipt
  /\ UNCHANGED <<output, request, loaded, files, left, stat, staged, basis>>

\* ensure_output_absent
LastLook(p) ==
  /\ Move(p, "last look", "publish")
  /\ output = Absent
  /\ UNCHANGED <<output, request, loaded, files, left, stat, staged, basis>>

\* publish_directory_noreplace: one rename, which fails if there is anything.
Publish(p) ==
  /\ Move(p, "publish", "done")
  /\ output = Absent
  /\ output' = [by |-> p, holds |-> staged[p]]
  /\ Forget(p)
  /\ UNCHANGED <<request, basis>>

\* A check that does not hold, an error of the system, or the command is killed: what it was asked
\* and what it saw is of no interest any more.
Stop(p) ==
  /\ pc[p] \notin {"idle", "done", "failed"}
  /\ pc' = [pc EXCEPT ![p] = "failed"]
  /\ request' = [request EXCEPT ![p] = [receipt |-> None, agent |-> FALSE]]
  /\ basis' = [basis EXCEPT ![p] = Blank]
  /\ Forget(p)
  /\ UNCHANGED disk

Step(p) == \/ Load(p) \/ Parse(p) \/ Reserve(p) \/ SelectFiles(p) \/ Capture(p) \/ Copy(p) \/ Check(p)
           \/ Validate(p) \/ SelectAgain(p) \/ Compare(p) \/ LastLook(p) \/ Publish(p) \/ Stop(p)

Next == \/ \E f \in Names : Edit(f)
        \/ \E p \in Exporters : Step(p)

Spec == Init /\ [][Next]_vars

-----------------------------------------------------------------------------
Published == output # Absent

\* What was published was, file by file and all at one moment, the package itself, and that moment
\* is after the private copy had been read back and linted.
ExportIsCurrent ==
  Published =>
    LET l == basis[output.by] IN \A f \in NamesOf(output.holds) : l[f] = output.holds[f]

\* An export that refers to a Receipt is exactly what it vouches for: no file differs, is missing or
\* is there in addition, though the Receipt was parsed before any file was copied.
ReceiptVouches ==
  Published /\ request[output.by].receipt # None =>
    output.holds = request[output.by].receipt
=============================================================================
