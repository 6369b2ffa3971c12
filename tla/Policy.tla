------------------------------- MODULE Policy -------------------------------
(***************************************************************************)
(* What a package may do, decided twice: the linter of the package and the *)
(* policy engine each read the paths and scopes for themselves.            *)
(*                                                                         *)
(* A path is the sequence of its components, which slashes separate: ""    *)
(* is an empty one, and a path that starts with it is absolute.  <<>> is   *)
(* the empty path, which stands for one that is left out.  What a name     *)
(* holds is told by the sets of names below.  A backslash is part of a     *)
(* name, unless every reading refuses the path for it (it comes first,     *)
(* follows a drive or borders on ".."): that is written as a slash.  A     *)
(* program is written as a path.                                           *)
(***************************************************************************)
EXTENDS Naturals, Sequences, FiniteSets, SequencesExt

CONSTANTS Drives,      \* names of a letter and a colon: "C:"
          Prefixed,    \* longer names that begin like that: "C:x"
          Colons,      \* names with a colon as second character: these and "1:"
          Backslashed, \* names with a backslash
          Controlled,  \* names with a control character
          Placeholders,    \* the inputs for which a name has placeholders, {{inputs.order}}
          Dangerous,   \* programs the built-in rules deny, with their arguments
          Malformed    \* command names the engine does not accept

ASSUME NamesAssumption ==
  /\ Colons \cup Backslashed \cup Controlled \cup DOMAIN Placeholders \subseteq STRING
  /\ Drives \cup Prefixed \subseteq Colons
  /\ {"inputs", "workspace"} \cap DOMAIN Placeholders = {}

Has(path, names) == \E i \in DOMAIN path : path[i] \in names

\* is_safe_workspace_path of the policy
SafePath(path) ==
  /\ path # <<>> /\ path[1] \notin {""} \cup Drives \cup Prefixed
  /\ ~Has(path, {".."} \cup Backslashed \cup Controlled)

\* is_unsafe_workspace_path of the linter, negated, as it is on Unix: a drive is one to it
\* if a path goes on from it, and it does not look at the characters of a name.
LintSafePath(path) ==
  /\ path # <<>> /\ path[1] # "" /\ ~Has(path, {".."})
  /\ ~(path[1] \in Drives /\ Len(path) > 1)

\* materialized_relative
Materialized(path) ==
  IF Len(path) > 1 /\ path[1] = "outputs" THEN Tail(path) ELSE path

-----------------------------------------------------------------------------
(* Scopes: a path and how far below it the scope reaches. *)

Exactly(path) == [base |-> path, reach |-> "itself"]
Below(path)   == [base |-> path, reach |-> "all"]

Under(path, base) == Len(path) > Len(base) /\ SubSeq(path, 1, Len(base)) = base

\* path_matches_scope, which policy and linter each have a copy of
InScope(path, scope) ==
  CASE scope.reach = "all" -> path = scope.base \/ Under(path, scope.base)
    [] scope.reach = "one" -> Under(path, scope.base) /\ Len(path) = Len(scope.base) + 1
    [] OTHER               -> path = scope.base

\* PolicyEngine::check_path
PathDecision(path, code, scopes) ==
  IF ~SafePath(path) THEN "PKG007"
  ELSE IF \E scope \in scopes : SafePath(scope.base) /\ InScope(path, scope)
  THEN "allowed" ELSE code

ReadDecision(path, permissions)  == PathDecision(path, "PKG005", permissions.read)
WriteDecision(path, permissions) == PathDecision(path, "PKG006", permissions.write)

\* PolicyEngine::check_command
CommandDecision(program, permissions) ==
  IF program \in Malformed THEN "invalid"
  ELSE IF program \in Dangerous THEN "dangerous"
  ELSE IF program \notin permissions.executables THEN "PKG004"
  ELSE "allowed"

\* policy_checks: the decisions on a step, before it runs and after it.
PolicyChecks(step, permissions) ==
  CASE step.kind = "exec" ->
         {CommandDecision(step.program, permissions)}
         \cup {WriteDecision(p, permissions) : p \in step.outputs}
    [] step.kind = "script" ->
         {ReadDecision(step.path, permissions), CommandDecision(step.path, permissions)}
         \cup {WriteDecision(p, permissions) : p \in step.outputs}
    [] step.kind = "file" ->
         {WriteDecision(step.to, permissions)}
         \cup IF step.operation = "mkdir" THEN {} ELSE {ReadDecision(step.from, permissions)}
    [] OTHER -> {ReadDecision(step.path, permissions)}   \* "" if the assertion has no path

\* policy_plan: what a preflight says of the package, which is not run.
Planned(package) ==
  UNION {PolicyChecks(package.steps[i], package.permissions) : i \in DOMAIN package.steps}

-----------------------------------------------------------------------------
(* The linter. *)

If(code, error) == IF error THEN {code} ELSE {}

\* input_references
Mentioned(path) == UNION {Placeholders[name] : name \in ToSet(path) \cap DOMAIN Placeholders}

\* lint_workspace_path_safety and lint_path_inputs
LintName(path, manifest) ==
  If("PKG007", ~LintSafePath(path)) \cup If("PKG008", ~(Mentioned(path) \subseteq manifest.inputs))

\* lint_read_path and lint_write_path
LintPath(path, code, scopes, manifest) ==
  LintName(path, manifest) \cup If(code, \A scope \in scopes : ~InScope(path, scope))

LintArgs(step, manifest) == If("PKG008", ~(step.inputs \subseteq manifest.inputs))

LintDeclared(step, package) ==   \* mutant
  If("PKG009", ~(step.outputs \subseteq package.manifest.outputs))
\* lint_step_outputs
LintOutputs(step, package) ==
  (UNION {LintPath(p, "PKG006", package.permissions.write, package.manifest) : p \in step.outputs})
  \cup If("PKG009", ~(step.outputs \subseteq package.manifest.outputs))

\* lint_workflow_permissions_and_paths
LintStep(step, package) ==
  LET Read(path)  == LintPath(path, "PKG005", package.permissions.read, package.manifest)
      Write(path) == LintPath(path, "PKG006", package.permissions.write, package.manifest) IN
  CASE step.kind = "exec" ->
         If("PKG004", step.program \notin package.permissions.executables)
         \cup LintArgs(step, package.manifest) \cup LintOutputs(step, package)
    [] step.kind = "script" ->
         Read(step.path)
         \cup LintArgs(step, package.manifest) \cup LintOutputs(step, package)
    [] step.kind = "file" ->
         Read(step.from) \cup Write(step.to)
    [] OTHER -> IF step.path = <<>> THEN {} ELSE Read(step.path)

\* lint_manifest_and_permission_paths
LintScopes(package) ==
  LET named == package.manifest.outputs
               \cup {s.base : s \in package.permissions.read \cup package.permissions.write}
  IN UNION {LintName(p, package.manifest) : p \in named}

\* lint_lockfile
LintLock(package) ==
  (UNION {LintName(p, package.manifest) : p \in package.lock.scripts}) \cup
  If("PKG010", \E step \in ToSet(package.steps) :
       \/ step.kind = "exec" /\ step.program \notin package.lock.tools
       \/ step.kind = "script" /\ step.path \notin package.lock.scripts)

\* LoadedSkillPackage::lint, the codes of its errors
Lint(package) ==
  LintScopes(package) \cup LintLock(package)
  \cup UNION {LintStep(package.steps[i], package) : i \in DOMAIN package.steps}
=============================================================================
