---------------------------- MODULE MCTreeReads ----------------------------
(***************************************************************************)
(* Instances of the components that read a directory while others change   *)
(* it: two exports of a package, or one of the readers of TreeReads in a   *)
(* directory of its own.  They never meet, so each behaviour is of one     *)
(* component and the variables of the other one stay None.                 *)
(***************************************************************************)
EXTENDS ExportInv, TreeReadsInv, TLC

CONSTANTS
  e1, e2, s, x,    \* two commands, a script and a fixture
  a, b             \* two files

\* The workflow of contents 0 runs nothing, the other one runs the script.
MCRuns == [c \in Contents |-> IF c = 0 THEN {} ELSE {s}]
\* Both have steps of the same names.
MCStepIds == [c \in Contents |-> 0]
\* Of a package that ran with its script, and of one whose script nothing runs.
MCReceipts == {[f \in Names |-> CASE f = Workflow -> 1 [] f = s -> 0 [] OTHER -> Absent],
               [f \in Names |-> CASE f = Workflow -> 0 [] f = s -> 0 [] OTHER -> Absent]}
Commands == Permutations(Exporters)

NoExports == /\ tree = None /\ edits = None /\ output = Absent /\ pc = None /\ request = None
             /\ loaded = None /\ files = None /\ left = None /\ stat = None /\ staged = None /\ basis = None
NoReads   == /\ folder = None /\ changes = None /\ at = None /\ todo = None /\ looked = None
             /\ dir = None /\ manifest = None /\ kind = None /\ found = None /\ declared = None
             /\ got = None /\ seen = None

EitherInit == \/ Init /\ NoReads
              \/ ReadsInit /\ NoExports

EitherNext == \/ at = None /\ Next /\ UNCHANGED readsVars
              \/ pc = None /\ ReadsNext /\ UNCHANGED vars

EitherSpec == EitherInit /\ [][EitherNext]_<<vars, readsVars>>
=============================================================================
