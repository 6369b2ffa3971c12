------------------------------ MODULE Compiler ------------------------------
(***************************************************************************)
(* The deterministic compiler: the events of a finished tape become the    *)
(* steps of a workflow, the permissions they need and the account of which *)
(* events each step comes from.  Files are the numbered paths of Changes;  *)
(* Name gives the components of each.                                      *)
(***************************************************************************)
EXTENDS Policy, Changes

CONSTANTS Name,    \* the components of every path of the workspace, as the poller reports it
          Written  \* the path the compiler makes of each: a slash for every backslash

ASSUME NameAssumption ==
  Name \in Seq(Seq(STRING)) \ {<<>>} /\ \A p, q \in DOMAIN Name : Name[p] = Name[q] => p = q

Paths == DOMAIN Name

\* safe_relative_path accepts the path.  The poller reports no empty and no "." component,
\* which it would drop.
Recordable(path) ==
  /\ path # <<>> /\ path[1] \notin {""} \cup Colons
  /\ ~Has(path, {".."} \cup Controlled)

ASSUME WrittenAssumption ==
  /\ Written \in [Paths -> Paths]
  /\ \A p \in Paths :
       /\ ~Has(Name[p], Backslashed) => Written[p] = p
       /\ ~Has(Name[Written[p]], Backslashed)
       /\ Recordable(Name[p]) => Recordable(Name[Written[p]])

IsOutput(p) == Len(Name[p]) > 1 /\ Name[p][1] = "outputs"

-----------------------------------------------------------------------------
(* Events to operations *)

\* A refusal ends the compilation; open is the operation of the command that runs.
Empty == [operations |-> <<>>, index |-> [p \in Paths |-> 0], open |-> 0, error |-> "none"]

Refuse(acc, error) == [acc EXCEPT !.error = error]

\* A command keeps the place at which it started, and begins a new scope of changes.
AcceptStarted(acc, i, event) ==
  IF acc.open # 0 THEN Refuse(acc, "grouping")
  ELSE [acc EXCEPT
    !.operations = Append(@, [kind |-> "exec", program |-> event.program,
                              reads |-> event.reads, inputs |-> event.inputs,
                              cites |-> <<i>>]),
    !.index = [p \in Paths |-> 0],
    !.open = Len(acc.operations) + 1]

AcceptOutput(acc, i) ==
  IF acc.open = 0 THEN Refuse(acc, "grouping")
  ELSE [acc EXCEPT !.operations[acc.open].cites = Append(@, i), !.open = 0]

FileOperation(change, cites) ==
  [kind |-> change.kind, path |-> change.path, previous |-> change.previous,
   content |-> change.content, cites |-> cites]

KeepFirst(acc, i, change) ==   \* mutant
  LET k == acc.index[change.path]
      merges == k # 0 /\ change.kind # "moved" /\ acc.operations[k].kind # "moved"
  IN IF merges THEN acc
     ELSE [acc EXCEPT !.operations = Append(@, FileOperation(change, <<i>>)),
                      !.index[change.path] = Len(acc.operations) + 1]
\* Within a scope the last change of a path stands for all of them; a move stands alone.
AcceptChange(acc, i, change) ==
  LET k == acc.index[change.path]
      merges == k # 0 /\ change.kind # "moved" /\ acc.operations[k].kind # "moved"
  IN IF merges
     THEN [acc EXCEPT !.operations[k] = FileOperation(change, Append(@.cites, i))]
     ELSE [acc EXCEPT !.operations = Append(@, FileOperation(change, <<i>>)),
                      !.index[change.path] = Len(acc.operations) + 1]

\* parse_filesystem_event: it refuses a path it cannot write, and goes on with the written one.
RecordablePaths(change) ==
  /\ Recordable(Name[change.path])
  /\ change.kind = "moved" => Recordable(Name[change.previous])

Parsed(change) ==
  [change EXCEPT !.path = Written[@],
                 !.previous = IF change.kind = "moved" THEN Written[@] ELSE @]

\* compile_steps, and validate_capture_completion for the last event
Accept(acc, i, event) ==
  IF acc.error # "none" THEN acc ELSE
  CASE event.kind = "started"  -> AcceptStarted(acc, i, event)
    [] event.kind = "output"   -> AcceptOutput(acc, i)
    [] event.kind = "changed"  -> IF RecordablePaths(event.change)
                                  THEN AcceptChange(acc, i, Parsed(event.change))
                                  ELSE Refuse(acc, "path")
    [] event.kind = "finished" -> IF event.cancelled THEN Refuse(acc, "cancelled") ELSE acc

Accepted(events) ==
  LET acc[n \in 0..Len(events)] ==
        IF n = 0 THEN Empty ELSE Accept(acc[n - 1], n, events[n])
  IN acc

Operations(events) ==
  LET acc == Accepted(events)[Len(events)]
  IN IF acc.open # 0 THEN Refuse(acc, "grouping") ELSE acc

-----------------------------------------------------------------------------
(* Operations to a package *)

Execs(operations) == {i \in DOMAIN operations : operations[i].kind = "exec"}

Declares(operations, i) ==
  LET o == operations[i] IN
  o.kind \in {"created", "modified"} /\ IsOutput(o.path) /\ o.content # Absent

\* The outputs of a command: what was seen under outputs/ until the next one started.
OutputsOf(operations, exec) ==
  {Name[operations[i].path] : i \in
     {j \in DOMAIN operations : /\ j > exec /\ Declares(operations, j)
                                /\ \A k \in Execs(operations) : ~(exec < k /\ k < j)}}

StepOf(operations, i) ==
  LET o == operations[i] IN
  CASE o.kind = "exec" ->
         [kind |-> "exec", program |-> o.program, inputs |-> o.inputs,
          outputs |-> OutputsOf(operations, i)]
    [] o.kind = "moved" ->
         [kind |-> "file", operation |-> "move", from |-> Name[o.previous], to |-> Name[o.path]]
    [] o.kind = "deleted" ->
         [kind |-> "assert", check |-> "file_absent", path |-> Name[o.path], hash |-> Absent]
    [] OTHER ->
         [kind |-> "assert", path |-> Name[o.path], hash |-> o.content,
          check |-> IF o.content = Absent THEN "file_exists" ELSE "file_hash"]

\* The scope of an absolute working directory, and of the inputs if an argument names one.
ExecReads(o) ==
  {Below(<<"workspace">>)} \cup IF o.reads \/ o.inputs # {} THEN {Below(<<"inputs">>)} ELSE {}

ReadScopes(operations) ==
  UNION {LET o == operations[i] IN
         CASE o.kind = "exec"  -> ExecReads(o)
           [] o.kind = "moved" -> {Exactly(Name[o.previous])}
           [] OTHER            -> {Exactly(Name[o.path])} : i \in DOMAIN operations}

WriteScopes(operations) ==
  {Exactly(p) : p \in UNION {OutputsOf(operations, e) : e \in Execs(operations)}}
  \cup {Exactly(Name[operations[i].path]) : i \in
          {j \in DOMAIN operations : operations[j].kind = "moved"}}

\* build_compilation and the files the compiler renders beside the workflow
Compiled(operations) ==
  LET programs == {operations[e].program : e \in Execs(operations)} IN
  [steps       |-> [i \in DOMAIN operations |-> StepOf(operations, i)],
   cites       |-> [i \in DOMAIN operations |-> operations[i].cites],
   permissions |-> [read |-> ReadScopes(operations), write |-> WriteScopes(operations),
                    executables |-> programs],
   manifest    |-> [inputs |-> {},
                    outputs |-> UNION {OutputsOf(operations, e) : e \in Execs(operations)}],
   lock        |-> [tools |-> programs, scripts |-> {}]]

\* StepProvenance::validate, canonicalize_provenance and validate_tape_references
Accounted(package, events) ==
  \A i \in DOMAIN package.cites :
     LET cites == package.cites[i] IN
     /\ cites # <<>>
     /\ \A k \in 1..(Len(cites) - 1) : cites[k] < cites[k + 1]
     /\ ToSet(cites) \subseteq DOMAIN events
=============================================================================
