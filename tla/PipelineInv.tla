---------------------------- MODULE PipelineInv ----------------------------
(* The properties of recording, compiling, linting and replaying. *)
EXTENDS Pipeline

\* The type of the state.
TypeOK ==
  /\ stage \in {"recording", "finished", "compiled", "refused", "done"}
  /\ {world, seen, replay} \subseteq [Paths -> Contents \cup {Absent}]
  /\ running \in BOOLEAN
  /\ misread \in BOOLEAN
  /\ hand \in {"none", "pending", "seen"}
  /\ failed \subseteq DOMAIN did
  /\ outcome \in {"none", "denied", "failed", "stopped", "outputs", "succeeded"}

-----------------------------------------------------------------------------
(* What the properties rest on *)

FileChanges ==
  [kind : {"created", "modified", "deleted"}, path : Paths, previous : {NoPath},
   content : Contents \cup {Absent}]
  \cup [kind : {"moved"}, path : Paths, previous : Paths, content : Contents \cup {Absent}]

ChangeEvents == [kind : {"changed"}, change : FileChanges]
TerminalEvents ==
  [kind : {"started"}, program : Seq(STRING), reads : BOOLEAN, inputs : SUBSET STRING]
  \cup [kind : {"output"}] \cup [kind : {"finished"}, cancelled : BOOLEAN]

\* What has been recorded.
TapeInv ==
  /\ world \in [Paths -> Contents \cup {Absent}]
  /\ seen \in [Paths -> Contents \cup {Absent}]
  /\ did \in Seq(Seq(Edits))
  /\ collected \in Seq([at : Nat, source : {"files"}, event : ChangeEvents])
  /\ terminal \in Seq([at : Nat, source : {"tape"}, sequence : Nat, event : TerminalEvents])
  /\ events \in Seq(ChangeEvents \cup TerminalEvents)

\* The changes were collected in the order of the timeline, and the last one of a path tells what
\* the poller saw.
ToldInv ==
  /\ InTime(collected)
  /\ \A p \in Paths : Leaves(EventsOf(collected), Len(collected), p, Begin[p], seen[p])

\* What the recording compiles to so far.
Tape == EventsOf(Merge(collected, terminal))
Scan == Accepted(Tape)[Len(Tape)]

\* Nothing is dated after the last poll, and the terminal numbers its events.
ClockInv == \A i \in DOMAIN terminal : terminal[i].at <= Now /\ terminal[i].sequence = i - 1

\* A replay does not begin before there is a package, and has an outcome when it is over.
FreshInv ==
  /\ running \in BOOLEAN /\ misread \in BOOLEAN
  /\ stage \in {"recording", "finished", "refused"} => replay = Begin /\ next = 1
  /\ stage # "done" => outcome = "none"

\* Its paths can be written, and have no placeholders.
Writable(change) ==
  /\ RecordablePaths(change)
  /\ Mentioned(Name[Written[change.path]]) = {}
  /\ change.kind = "moved" => Mentioned(Name[Written[change.previous]]) = {}

\* Why a tape need not compile.
Excused(tape) ==
  \E i \in DOMAIN tape :
    \/ tape[i].kind = "finished" /\ tape[i].cancelled
    \/ tape[i].kind = "started" /\ tape[i].inputs # {}
    \/ tape[i].kind = "changed" /\ ~Writable(tape[i].change)

\* The operation has no placeholder.
Unmentioned(o) ==
  IF o.kind = "exec" THEN o.inputs = {}
  ELSE /\ Mentioned(Name[o.path]) = {}
       /\ o.kind = "moved" => Mentioned(Name[o.previous]) = {}

\* An operation is open while its command runs, and a recording that compiles is kept on its tape.
ScanInv ==
  /\ \/ /\ Scan.error = "none"
        /\ \A n \in DOMAIN Scan.operations : Unmentioned(Scan.operations[n])
     \/ Excused(Tape)
  /\ Scan.error = "none" => (Scan.open # 0 <=> running)
  /\ running => did # <<>>
  /\ stage # "recording" => events = Tape /\ seen = world /\ ~running

\* The files after every step of a replay, and the number of commands among the steps.
Done(files, o, edits) ==
  CASE o.kind = "exec"  -> EditedBy(files, edits)
    [] o.kind = "moved" -> [files EXCEPT ![o.previous] = Absent, ![o.path] = files[o.previous]]
    [] OTHER            -> files
Course(operations, edits, count, files) ==
  /\ count[0] = 0 /\ files[0] = Begin /\ count[Len(operations)] = Len(edits)
  /\ \A n \in 0..Len(operations) : count[n] \in 0..Len(edits)
  /\ \A n \in 1..Len(operations) :
       /\ count[n] = IF operations[n].kind = "exec" THEN count[n - 1] + 1 ELSE count[n - 1]
       /\ files[n] = Done(files[n - 1], operations[n], edits[count[n]])

\* The check that is made of an operation passes.
Shows(files, o) ==
  IF o.kind = "deleted" THEN files[o.path] = Absent
  ELSE files[o.path] = o.content /\ o.content # Absent
AsRecorded(files, o) ==
  CASE o.kind = "exec"  -> TRUE
    [] o.kind = "moved" -> files[o.previous] # Absent /\ files[o.path] = Absent
    [] OTHER            -> Shows(files, o)

\* All operations are as they were recorded, up to now.
Moved(acc, edits, count, files, now) ==
  /\ Course(acc.operations, edits, count, files)
  /\ \A n \in 1..Len(acc.operations) : AsRecorded(files[n - 1], acc.operations[n])
  /\ files[Len(acc.operations)] = now

\* ... except that what the last command has done so far is done, and that the changes since it
\* began tell what the poller has seen so far.
Unmoved(acc, edits, count, files, now, told) ==
  LET operations == acc.operations
      Current(n) == count[n] = Len(edits)
  IN
  /\ Course(operations, edits, count, files)
  /\ \A n \in 0..Len(operations) : Current(n) => files[n] = now
  /\ \A n \in 1..Len(operations) : LET o == operations[n] IN
       IF Current(n)
       THEN o.kind # "exec" => o.kind # "moved" /\ Shows(told, o) /\ acc.index[o.path] = n
       ELSE AsRecorded(files[n - 1], o)
  /\ \A p \in Paths : acc.index[p] # 0 =>
       LET n == acc.index[p] IN Current(n) /\ operations[n].kind # "exec" /\ operations[n].path = p

MovedByHand ==
  \E from, to \in Paths : /\ seen[from] # Absent /\ seen[to] = Absent
                          /\ world = [seen EXCEPT ![from] = Absent, ![to] = seen[from]]

\* Replaying the operations that were recorded does what was recorded.
Story(count, files) ==
  /\ stage = "recording" /\ hand = "none" => Unmoved(Scan, did, count, files, world, seen)
  /\ stage = "recording" /\ hand = "pending" => Unmoved(Scan, did, count, files, seen, seen) /\ MovedByHand
  /\ stage # "recording" \/ hand = "seen" => Moved(Scan, did, count, files, world) /\ seen = world
  /\ stage \in {"compiled", "done"} =>
       next \in 1..(Len(Scan.operations) + 1) /\ replay = files[next - 1]
StoryInv ==
  /\ hand \in {"none", "pending", "seen"}
  /\ ~misread /\ Scan.error = "none" => \E count, files : Story(count, files)

\* A package that is replayed is what the events compile to, and the linter has passed it.
PackageInv ==
  stage \in {"compiled", "done"} =>
    LET acc == Operations(events) IN
    /\ acc.error = "none"
    /\ package = Compiled(acc.operations)
    /\ Accounted(package, events)
    /\ Lint(package) = {}

-----------------------------------------------------------------------------
(* The properties *)

(* The changes on a finished tape, read in order, turn the workspace the recording
   started with into the one the poller saw last: whatever was merged, paired
   into a move or left out of a batch. *)
TapeTellsTheFiles ==
  stage = "finished" => Replayed(Begin, events) = seen

(* Every command and every change on the tape is the source of exactly one
   step, and the steps are in the order of the first events they cite: no
   observation is lost when changes of a path are merged, and none is counted
   twice. *)
EveryEventIsCited ==
  stage = "compiled" /\ next = 1 =>
    /\ \A i \in DOMAIN events : events[i].kind # "finished" =>
         Cardinality({s \in DOMAIN package.cites : i \in ToSet(package.cites[s])}) = 1
    /\ \A s, t \in DOMAIN package.cites : s < t => package.cites[s][1] < package.cites[t][1]

(* A recording fails to become a replay for these reasons only.  It does not
   compile, or its package does not pass the linter, if the session was
   cancelled, a path cannot be written in a workflow, or a path or an argument
   has a placeholder for an input, which the rendered manifest does not
   declare.  The policy engine denies a step if its program is never allowed:
   the permissions the compiler derives are otherwise enough.  A step fails if
   it is a command that failed when it was recorded, which the compiler does
   not look at, or if a change was misread: a creation and a deletion of a
   command were taken for a move, or a name had a backslash.  Else nothing but
   a command that does not start or end stops the replay. *)
OnlyTheseFail ==
  /\ stage = "refused" => Excused(events)
  /\ outcome = "denied" => /\ package.steps[next].kind = "exec"
                           /\ package.steps[next].program \in Dangerous \cup Malformed
  /\ outcome = "failed" => \/ misread
                           \/ package.steps[next].kind = "exec" /\ Commands(next) \in failed

(* A replay whose steps all pass fails only for an output that the recording
   itself no longer had at its end; otherwise every place of the output root
   holds what the recorded workspace ended with at a declared path.  This
   holds of a recording of which no change was misread. *)
OutputsAreTheRecorded ==
  ~misread =>
    /\ outcome = "outputs" => \E name \in DeclaredOutputs : world[PathNamed(name)] = Absent
    /\ outcome = "succeeded" =>
         \A name \in DeclaredOutputs : LET place == Materialized(name) IN
           /\ place \in DOMAIN outputs
           /\ \/ outputs[place] = world[PathNamed(name)]
              \/ \E other \in DeclaredOutputs \ {name} : Materialized(other) = place

IInv == TapeInv /\ ToldInv /\ TapeTellsTheFiles /\ PackageInv
ReplayInv == ClockInv /\ FreshInv /\ ScanInv /\ StoryInv /\ OnlyTheseFail /\ OutputsAreTheRecorded

(* What the linter and the proposals do not foresee *)

\* A path the policy engine refuses, whatever the scopes, though others accept it: none at all, a
\* drive or a name that begins like one, and names with characters of their own.
Peculiar(path) ==
  path = <<>> \/ path[1] \in Drives \cup Prefixed \/ Has(path, Backslashed \cup Controlled)

CheckedPaths(step) ==
  CASE step.kind = "exec"   -> step.outputs
    [] step.kind = "script" -> {step.path} \cup step.outputs
    [] step.kind = "file"   -> {step.to} \cup IF step.operation = "mkdir" THEN {} ELSE {step.from}
    [] OTHER                -> {step.path}

\* What the policy engine may say of a step that was accepted before.
Foreseen(step, permissions) ==
  {"allowed", "dangerous", "invalid"}
  \cup If("PKG007", \E path \in CheckedPaths(step) : Peculiar(path))
  \cup If("PKG004", step.kind = "script" /\ step.path \notin permissions.executables)

AllForeseen(steps, permissions) ==
  \A i \in DOMAIN steps : PolicyChecks(steps[i], permissions) \subseteq Foreseen(steps[i], permissions)

LintCovers(draft) == Lint(draft) = {} => AllForeseen(draft.steps, draft.permissions)

\* A team edits the package: a step more and other scopes, or no scope or program.
NewOutput == <<"outputs", "new">>
OddNames  == Prefixed \cup Backslashed \cup Controlled \cup DOMAIN Placeholders
Alone     == {<<name>> : name \in Drives \cup Prefixed}
AddedSteps ==
  [kind : {"file"}, operation : {"copy", "mkdir"}, from : {Name[1]}, to : {NewOutput}]
  \cup [kind : {"exec"}, program : {<<"tool">>}, inputs : {{}}, outputs : {{NewOutput}}]
  \cup [kind : {"script"}, path : {Name[1]}, inputs : {{}}, outputs : {{}}]
  \cup [kind : {"assert"}, check : {"file_exists"}, hash : {Absent},
        path : {<<>>} \cup Alone \cup {<<"outputs", name>> : name \in OddNames}]
Wider(reach) ==
  {Exactly(path) : path \in Alone} \cup {[base |-> <<"outputs">>, reach |-> reach]}
Revised(draft, step, scopes) ==
  [draft EXCEPT !.steps = Append(@, step),
                !.permissions.read = @ \cup scopes, !.permissions.write = scopes,
                !.manifest = [inputs |-> {"order"}, outputs |-> @.outputs \cup {NewOutput}],
                !.lock.scripts = {Name[1]}]
Revisions(draft) ==
  {Revised(draft, step, scopes) :
     step \in AddedSteps,
     scopes \in {{}} \cup {draft.permissions.write \cup Wider(reach) : reach \in {"all", "one"}}}
  \cup {[draft EXCEPT !.permissions.read = {}], [draft EXCEPT !.permissions.executables = {}]}

(* What the linter accepts, the policy engine allows when it is replayed: a
   package a team has edited is not stopped half way for a path, a scope or a
   program that the linter could have named.  What the linter lets pass and the
   engine does not is known: an assertion without a path, a path that is or
   begins like a drive or has a backslash or a control character, a script that
   is not among the executables, and a program that is never allowed. *)
LintMeansAllowed ==
  stage = "compiled" /\ next = 1 => \A draft \in {package} \cup Revisions(package) : LintCovers(draft)

\* What a provider may propose: another last step whose sources are kept, or one step more that
\* cites the first event or the last.
NewSteps(base) ==
  LET places == {Name[1]} \cup base.manifest.outputs IN
  [kind : {"exec"}, program : {<<"tool">>}, inputs : {{}}, outputs : {{place} : place \in places}]
  \cup [kind : {"file"}, operation : {"copy"}, from : {Name[1]}, to : places]
  \cup [kind : {"script"}, path : {Name[1]}, inputs : {{}}, outputs : {{}}]
  \cup [kind : {"assert"}, check : {"file_exists"}, hash : {Absent},
        path : {<<>>} \cup {<<"inputs", name>> : name \in Backslashed \cup Controlled}]
Kept(base) == [i \in 1..Len(base.steps) |-> [id |-> i, step |-> base.steps[i]]]
Changing(base, step) ==
  [status |-> "accepted", madeFor |-> base, sourced |-> FALSE,
   workflow |-> [Kept(base) EXCEPT ![Len(base.steps)] = [id |-> Len(base.steps), step |-> step]]]
Adding(base, step, event) ==
  LET id == Len(base.steps) + 1 IN
  [status |-> "accepted", madeFor |-> base, sourced |-> TRUE,
   workflow |-> Append(Kept(base), [id |-> id, step |-> step]),
   provenance |-> {[id |-> i, cites |-> base.cites[i]] : i \in 1..Len(base.steps)}
                  \cup {[id |-> id, cites |-> <<event>>]}]
Proposals(base) ==
  {Changing(base, step) : step \in IF base.steps = <<>> THEN {} ELSE NewSteps(base)}
  \cup {Adding(base, step, event) : step \in NewSteps(base), event \in {1, Len(events)}}

\* An accepted proposal for the package asks for nothing that is not foreseen.
StaysInside(proposal) ==
  Acceptable(package, proposal, PolicyFrom(package)) =>
    LET result == Proposed(package, proposal) IN
    /\ AllForeseen(result.steps, result.permissions)
    /\ Accounted(result, events)
    /\ PolicyFrom(result).events \subseteq PolicyFrom(package).events

(* An accepted proposal never asks for more than the recording showed: the
   policy engine, which has its own reading of paths and scopes, stops none of
   its steps for a path or a program the compiled package does not permit, but
   for an assertion without a path, a path with a backslash and a script, and
   every step cites events the compiled package cites. *)
ProposalsStayInside ==
  stage = "compiled" /\ next = 1 => \A proposal \in Proposals(package) : StaysInside(proposal)
=============================================================================
