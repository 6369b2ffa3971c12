----------------------------- MODULE ExportInv -----------------------------
(* The inductive invariant of Export. *)
EXTENDS Export

Copying   == {"copy", "check", "validate", "check again", "select again", "compare", "last look", "publish"}
Confirmed == {"select again", "compare", "last look", "publish"}

\* A stamp that was seen is not a stamp of the future.
StatInv(p) == \A f \in Names : stat[p][f] \in 0..edits

\* A pass over the files begins with all of them.
LeftInv(p) == pc[p] \in {"idle", "parse", "reserve", "select", "validate"} => left[p] = files[p]

\* The copy of a file is what the file holds for as long as it has the stamp of the snapshot.
CopyInv(p) ==
  /\ pc[p] \notin Copying => staged[p] = Blank
  /\ \A f \in Names :
       /\ f \notin files[p] \/ (pc[p] = "copy" /\ f \in left[p]) => staged[p][f] = Absent
       /\ /\ pc[p] \in Copying
          /\ f \in files[p] /\ ~(pc[p] = "copy" /\ f \in left[p])
          /\ IsSame(p, f)
          => staged[p][f] = tree[f].is

\* So is the package at the moment of its validation, and for good once the second check has passed.
BasisInv(p) ==
  /\ pc[p] = "check again" => \A f \in files[p] :
       IsSame(p, f) \/ f \notin left[p] => basis[p][f] = staged[p][f]
  /\ pc[p] \in Confirmed => \A f \in files[p] : basis[p][f] = staged[p][f]

\* Behind the comparison the copy is the one the Receipt vouches for.
VouchedInv(p) ==
  pc[p] \in {"last look", "publish"} /\ request[p].receipt # None => staged[p] = request[p].receipt

Local(p) == StatInv(p) /\ LeftInv(p) /\ CopyInv(p) /\ BasisInv(p) /\ VouchedInv(p)

OutputInv == Published => pc[output.by] = "done" /\ ExportIsCurrent /\ ReceiptVouches

IInv == TypeOK /\ (\A p \in Exporters : Local(p)) /\ OutputInv
=============================================================================
