------------------------------ MODULE Proposal ------------------------------
(***************************************************************************)
(* apply_proposal: a provider proposes other steps for a compiled package. *)
(* A person accepts; the package keeps its permissions, and the steps must *)
(* stay inside what the compiler allowed.  A step has an id here: that of  *)
(* a compiled step is its number.                                          *)
(***************************************************************************)
EXTENDS Compiler

\* ProposalPolicy::from_base
PolicyFrom(base) ==
  [permissions |-> base.permissions, events |-> UNION {ToSet(c) : c \in ToSet(base.cites)}]

\* is_safe_relative_path of the proposals: a backslash is a slash to it, and empty components
\* are passed over.
ProposedSafe(path) ==
  /\ path # <<>> /\ path[1] \notin {""} \cup Colons
  /\ ~Has(path, {".", ".."} \cup Controlled)

\* path_matches_scope of the proposals: it knows "/**", below its base, and no other pattern.
ProposedInScope(path, scope) ==
  CASE scope.reach = "all"    -> Under(path, scope.base)
    [] scope.reach = "itself" -> path = scope.base
    [] OTHER                  -> FALSE

\* validate_path
ProposedPath(path, scopes) ==
  ProposedSafe(path) /\ \E scope \in scopes : ProposedInScope(path, scope)

InEitherScope(step, permissions) ==   \* mutant
  LET Reads(path)  == ProposedPath(path, permissions.read)
      Writes(path) == ProposedPath(path, permissions.write \cup permissions.read) IN
  CASE step.kind = "exec"   -> step.program \in permissions.executables /\ \A p \in step.outputs : Writes(p)
    [] step.kind = "script" -> Reads(step.path) /\ \A p \in step.outputs : Writes(p)
    [] step.kind = "file"   -> Reads(step.from) /\ Writes(step.to)
    [] OTHER                -> step.path = <<>> \/ Reads(step.path)
\* validate_workflow_capabilities, but for what it looks for in arguments: references to
\* networks and secrets, and paths out of the workspace
WithinCapabilities(step, permissions) ==
  LET Reads(path)  == ProposedPath(path, permissions.read)
      Writes(path) == ProposedPath(path, permissions.write) IN
  CASE step.kind = "exec"   -> step.program \in permissions.executables /\ \A p \in step.outputs : Writes(p)
    [] step.kind = "script" -> Reads(step.path) /\ \A p \in step.outputs : Writes(p)
    [] step.kind = "file"   -> Reads(step.from) /\ Writes(step.to)
    [] OTHER                -> step.path = <<>> \/ Reads(step.path)

\* preserve_provenance: a step keeps what the compiled step of its id cites, whatever it does now.
Preserved(base, workflow) == {[id |-> s.id, cites |-> base.cites[s.id]] : s \in ToSet(workflow)}

\* canonicalize_provenance, StepProvenance::validate and validate_event_sequences
Sourced(workflow, provenance, events) ==
  /\ \A i, j \in DOMAIN workflow : workflow[i].id = workflow[j].id => i = j
  /\ \A s \in ToSet(workflow) : Cardinality({p \in provenance : p.id = s.id}) = 1
  /\ \A p \in provenance :
       /\ \E s \in ToSet(workflow) : s.id = p.id
       /\ p.cites # <<>> /\ \A k \in 1..(Len(p.cites) - 1) : p.cites[k] < p.cites[k + 1]
       /\ ToSet(p.cites) \subseteq events

\* Where the steps of a proposal come from: what it says, or what the package says.
Sources(base, proposal) ==
  IF proposal.sourced THEN proposal.provenance ELSE Preserved(base, proposal.workflow)

\* apply_proposal returns no error: a person has accepted it, and it was made for this package.
Acceptable(base, proposal, policy) ==
  /\ proposal.status = "accepted"
  /\ proposal.madeFor = base
  /\ proposal.sourced \/ \A s \in ToSet(proposal.workflow) : s.id \in DOMAIN base.cites
  /\ Sourced(proposal.workflow, Sources(base, proposal), policy.events)
  /\ \A s \in ToSet(proposal.workflow) : WithinCapabilities(s.step, policy.permissions)

\* The package it returns.
Proposed(base, proposal) ==
  LET workflow == proposal.workflow IN
  [base EXCEPT
    !.steps = [i \in DOMAIN workflow |-> workflow[i].step],
    !.cites = [i \in DOMAIN workflow |->
                 (CHOOSE p \in Sources(base, proposal) : p.id = workflow[i].id).cites]]
=============================================================================
