------------------------------ MODULE Pipeline ------------------------------
(***************************************************************************)
(* From a recording to a replay: a person runs commands and moves files,   *)
(* the poller reports the workspace, the tape is compiled into a package,  *)
(* the package is linted, and its steps are replayed on a copy of the      *)
(* inputs, where a command does again what it did, and fails if it failed. *)
(***************************************************************************)
EXTENDS Proposal

CONSTANTS Contents,      \* contents of a file
          CommandLines,  \* what the first command may be, the second one, up to the bound of a
                         \* recording: program, whether an argument is the path of an input,
                         \* and the placeholders among the arguments
          Works,         \* bound: what each command may do to the files
          HandMoves,     \* bound: the moves a person makes, from one path to another
          MayFail,       \* bound: the commands that may fail
          MaxEdits       \* bound: changes of files in a recording

ASSUME ContentsAssumption == Contents # {} /\ Absent \notin Contents
ASSUME CommandLinesAssumption ==
  CommandLines \in Seq(SUBSET [program : Seq(STRING), reads : BOOLEAN, inputs : SUBSET STRING])

VARIABLES
  stage,     \* "recording", "finished", "compiled", "refused", "done"
  world,     \* the workspace that is recorded
  seen,      \* the workspace as of the last poll
  running,   \* a command is running
  did,       \* what each command did to the files
  failed,    \* the commands that did not exit with 0
  hand,      \* a move by hand since the last command: "none", "pending", "seen"
  misread,   \* a change is not compiled as what it was: a command's creation and deletion were
             \* taken for a move, or a name has a backslash, which is written as a slash
  collected, \* the changes that were collected, with their times
  terminal,  \* the events of the staging tape, with their times
  events,    \* the tape
  package,   \* the compiled package
  replay,    \* the replay workspace
  next,      \* the next step of the replay
  outcome,   \* of the replay: "none", "denied", "failed", "stopped", "outputs", "succeeded"
  outputs    \* the output root: what each place of it holds

recording == <<world, seen, running, did, failed, hand, misread, collected, terminal, events>>
run       == <<replay, next, outcome, outputs>>
vars      == <<stage, recording, package, run>>

Inputs == {p \in Paths : Name[p][1] = "inputs"}

NoPackage == [steps |-> <<>>]

Edits ==
  [op : {"write"}, path : Paths, content : Contents]
  \cup [op : {"delete"}, path : Paths, content : {Absent}]

Edited(files, edit) == [files EXCEPT ![edit.path] = edit.content]

AllEdits == FoldLeft(LAMBDA n, edits : n + Len(edits), 0, did)

\* The workspace a recording starts with, and the copy of the inputs a replay starts with.
Begin == [p \in Paths |-> IF p \in Inputs THEN CHOOSE c \in Contents : TRUE ELSE Absent]

Init ==
  /\ stage = "recording"
  /\ world = Begin
  /\ seen = Begin
  /\ running = FALSE
  /\ did = <<>>
  /\ failed = {}
  /\ hand = "none"
  /\ misread = FALSE
  /\ collected = <<>>
  /\ terminal = <<>>
  /\ events = <<>>
  /\ package = NoPackage
  /\ replay = Begin
  /\ next = 1
  /\ outcome = "none"
  /\ outputs = <<>>

-----------------------------------------------------------------------------
(* The recording *)

\* A poll is a new millisecond; what the terminal records after it is in that same millisecond.
Now == IF collected = <<>> THEN 0 ELSE Last(collected).at

Record(event) ==
  terminal' = Append(terminal, [at |-> Now, source |-> "tape", sequence |-> Len(terminal),
                                event |-> event])

Start ==
  /\ stage = "recording"
  /\ ~running
  /\ Len(did) < Len(CommandLines)
  /\ seen = world
  /\ \E line \in CommandLines[Len(did) + 1] :
       Record([kind |-> "started", program |-> line.program, reads |-> line.reads,
               inputs |-> line.inputs])
  /\ running' = TRUE
  /\ did' = Append(did, <<>>)
  /\ hand' = "none"
  /\ UNCHANGED <<stage, world, seen, failed, misread, collected, events, package, run>>

\* The command writes or deletes a file.
Edit(edit) ==
  /\ stage = "recording"
  /\ running
  /\ hand = "none"
  /\ AllEdits < MaxEdits
  /\ edit \in Works[Len(did)]
  /\ world[edit.path] # edit.content
  /\ world' = Edited(world, edit)
  /\ did' = [did EXCEPT ![Len(did)] = Append(@, edit)]
  /\ UNCHANGED <<stage, seen, running, failed, hand, misread, collected, terminal, events, package, run>>

\* A person moves a file, once between two commands, when the last one has done its work
\* and the poller has seen it.
MoveByHand(from, to) ==
  /\ stage = "recording"
  /\ seen = world
  /\ hand = "none"
  /\ <<from, to>> \in HandMoves
  /\ world[from] # Absent
  /\ world[to] = Absent
  /\ world' = [world EXCEPT ![from] = Absent, ![to] = world[from]]
  /\ hand' = "pending"
  /\ UNCHANGED <<stage, seen, running, did, failed, misread, collected, terminal, events, package, run>>

\* The poller scans the workspace: one batch of changes is collected.
Poll ==
  LET changes == Adapt(ScanEvents(seen, world), world) IN
  /\ stage = "recording"
  /\ seen # world
  /\ collected' = collected \o [i \in DOMAIN changes |->
                                  [at |-> Now + 1, source |-> "files",
                                   event |-> [kind |-> "changed", change |-> changes[i]]]]
  /\ seen' = world
  /\ misread' = (\/ misread
                 \/ hand # "pending" /\ OfKind(ToSet(changes), "moved") # {}
                 \/ \E change \in ToSet(changes) : Parsed(change) # change)
  /\ hand' = IF hand = "pending" THEN "seen" ELSE hand
  /\ UNCHANGED <<stage, world, running, did, failed, terminal, events, package, run>>

\* The command ends.  How it exits is told when the session ends, and the compiler passes it over.
Output ==
  /\ stage = "recording"
  /\ running
  /\ Record([kind |-> "output"])
  /\ running' = FALSE
  /\ failed' \in {failed, failed \cup ({Len(did)} \cap MayFail)}
  /\ UNCHANGED <<stage, world, seen, did, hand, misread, collected, events, package, run>>

\* The session ends; its events and the changes are merged into the tape.
Finish(cancelled) ==
  /\ stage = "recording"
  /\ ~running
  /\ seen = world
  /\ Record([kind |-> "finished", cancelled |-> cancelled])
  /\ LET merged == Merge(collected, terminal')
     IN events' = [i \in DOMAIN merged |-> merged[i].event]
  /\ stage' = "finished"
  /\ UNCHANGED <<world, seen, running, did, failed, hand, misread, collected, package, run>>

-----------------------------------------------------------------------------
(* The compilation *)

\* compile: the draft is linted in its staging directory and then published.
Compile ==
  LET acc   == Operations(events)
      draft == Compiled(acc.operations)
  IN
  /\ stage = "finished"
  /\ IF acc.error = "none" /\ Accounted(draft, events) /\ Lint(draft) = {}
     THEN stage' = "compiled" /\ package' = draft
     ELSE stage' = "refused" /\ UNCHANGED package
  /\ UNCHANGED <<recording, run>>

-----------------------------------------------------------------------------
(* The replay *)

PathNamed(name) == CHOOSE p \in Paths : Name[p] = name

\* A command does to the files what it did when it was recorded.
EditedBy(files, edits) ==
  LET after[n \in 0..Len(edits)] == IF n = 0 THEN files ELSE Edited(after[n - 1], edits[n])
  IN after[Len(edits)]
Again(k) == EditedBy(replay, did[k])

Commands(k) == Cardinality({i \in 1..k : package.steps[i].kind = "exec"})

\* move_path: it takes no file that is missing and replaces none.
MovePasses(step) ==
  replay[PathNamed(step.from)] # Absent /\ replay[PathNamed(step.to)] = Absent

\* execute_assert
AssertPasses(step) ==
  LET content == replay[PathNamed(step.path)] IN
  CASE step.check = "file_exists" -> content # Absent
    [] step.check = "file_absent" -> content = Absent
    [] OTHER                      -> content = step.hash

\* process_output, execute_file and execute_assert
Passes(step) ==
  CASE step.kind = "exec" -> Commands(next) \notin failed
    [] step.kind = "file" -> MovePasses(step)
    [] OTHER              -> AssertPasses(step)

Copied(step) ==   \* mutant
  CASE step.kind = "exec" -> Again(Commands(next))
    [] step.kind = "file" -> [replay EXCEPT ![PathNamed(step.to)] = replay[PathNamed(step.from)]]
    [] OTHER              -> replay
\* The files after the step.
Applied(step) ==
  CASE step.kind = "exec" -> Again(Commands(next))
    [] step.kind = "file" -> [replay EXCEPT ![PathNamed(step.from)] = Absent,
                                            ![PathNamed(step.to)] = replay[PathNamed(step.from)]]
    [] OTHER              -> replay

Allowed(step) == PolicyChecks(step, package.permissions) = {"allowed"}

Stop(result) == stage' = "done" /\ outcome' = result /\ UNCHANGED <<replay, next, outputs>>

\* execute_step on a step the policy allows
ReplayStep ==
  LET step == package.steps[next] IN
  /\ stage = "compiled"
  /\ next \in DOMAIN package.steps
  /\ Allowed(step)
  /\ Passes(step)
  /\ replay' = Applied(step)
  /\ next' = next + 1
  /\ UNCHANGED <<stage, recording, package, outcome, outputs>>

ReplayDenied ==
  /\ stage = "compiled"
  /\ next \in DOMAIN package.steps
  /\ ~Allowed(package.steps[next])
  /\ Stop("denied")
  /\ UNCHANGED <<recording, package>>

\* The step fails, or its command does not start or does not end in time.
ReplayFails ==
  /\ stage = "compiled"
  /\ next \in DOMAIN package.steps
  /\ Allowed(package.steps[next])
  /\ \/ ~Passes(package.steps[next]) /\ Stop("failed")
     \/ package.steps[next].kind = "exec" /\ Stop("stopped")
  /\ UNCHANGED <<recording, package>>

\* declared_output_paths, a set in the order of the names
DeclaredOutputs ==
  package.manifest.outputs
  \cup (UNION {s.outputs : s \in {t \in ToSet(package.steps) : t.kind = "exec"}})
  \cup {s.to : s \in {t \in ToSet(package.steps) : t.kind = "file"}}

\* The first output for a place is copied there; another one for it is passed over.
PathFor(place) ==
  CHOOSE p \in Paths :
    /\ Name[p] \in DeclaredOutputs /\ Materialized(Name[p]) = place
    /\ \A q \in Paths : Name[q] \in DeclaredOutputs /\ Materialized(Name[q]) = place => p <= q

\* materialize_outputs
Deliver ==
  LET missing == {name \in DeclaredOutputs : replay[PathNamed(name)] = Absent} IN
  /\ stage = "compiled"
  /\ next = Len(package.steps) + 1
  /\ IF missing # {} THEN Stop("outputs")
     ELSE /\ stage' = "done"
          /\ outcome' = "succeeded"
          /\ outputs' = [place \in {Materialized(n) : n \in DeclaredOutputs} |-> replay[PathFor(place)]]
          /\ UNCHANGED <<replay, next>>
  /\ UNCHANGED <<recording, package>>

Next ==
  \/ Start
  \/ \E edit \in Edits : Edit(edit)
  \/ \E from, to \in Paths : MoveByHand(from, to)
  \/ Poll
  \/ Output
  \/ \E cancelled \in BOOLEAN : Finish(cancelled)
  \/ Compile
  \/ ReplayStep
  \/ ReplayDenied
  \/ ReplayFails
  \/ Deliver

Spec == Init /\ [][Next]_vars
=============================================================================
