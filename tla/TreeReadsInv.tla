---------------------------- MODULE TreeReadsInv ----------------------------
(***************************************************************************)
(* Why reading file by file shows one state of a directory.  Every change  *)
(* of a file is a new stamp, so a file that still has the stamp it was     *)
(* looked at with is unchanged since; and when the comparisons begin,      *)
(* every file that will pass them is what was read, all at that moment.    *)
(***************************************************************************)
EXTENDS TreeReads

\* The stamps there are were given by the changes so far.
StampInv ==
  /\ \A a \in FileNames : folder[a] # Missing => folder[a].stamp <= changes
  /\ \A a \in FileNames : looked.file[a] <= changes
  /\ dir.stamp <= changes /\ looked.dir <= changes

\* Each reader takes its own way, and a round over the names goes on while one is left.
WayInv ==
  /\ at \in {"root", "list"} => found = {}
  /\ at # "failed" => (todo = {} => found = {})
  /\ at \in {"read", "close"} => todo # {}
  /\ at = "close" => kind # "inputs"
  /\ at \in {"stat", "root again"} => kind # "review"
  /\ at = "list again" => kind # "outputs"
  /\ at \in {"recheck", "manifest again"} => kind = "review"
  /\ at = "stat again" => kind = "inputs"

\* The names whose reading is over, and those whose bytes are there.
Done == IF at \in {"root", "list", "stat", "failed"} THEN {}
        ELSE IF at \in {"open", "read", "close"} THEN found \ todo
        ELSE found
HasBytes == IF at = "close" THEN Done \cup {Current} ELSE Done

\* What was read of a file is what the file holds for as long as it has the stamp it was read with.
BytesInv ==
  at # "failed" =>
    /\ NamesIn(got) = HasBytes
    /\ \A a \in HasBytes : StillSame(a) => folder[a].is = got[a]

SeenInv == at \notin {"root", "failed"} => Snapshot(folder) \in seen

\* A directory with its first stamp held the same names all the time.
NamesInv ==
  kind = "outputs" /\ at \notin {"root", "failed"} /\ dir.stamp = looked.dir =>
    /\ \A l \in seen : NamesIn(l) = Existing
    /\ at # "list" => Existing = found

\* The state l has what `as` says of every file that has passed its last comparison, or still would.
Agrees(l, as) == \A a \in found : a \notin todo \/ StillSame(a) => l[a] = as[a]

InputsInv ==
  /\ at = "stat again" => \E l \in seen : NamesIn(l) = found /\ Agrees(l, got)
  /\ at = "passed" /\ kind = "inputs" => got \in seen
  /\ at = "passed" /\ kind = "outputs" => dir.stamp = looked.dir

ReviewInv ==
  kind = "review" =>
    /\ at \notin {"root", "list", "failed"} => found = NamesIn(declared)
    /\ \A a \in Done : got[a] = declared[a]
    /\ at = "recheck" => \E l \in seen : Agrees(l, declared)
    /\ at \in {"list again", "manifest again", "passed"} =>
         \E l \in seen : \A a \in found : l[a] = declared[a]

ReadsInv == /\ ReadsTypeOK /\ StampInv /\ WayInv /\ BytesInv /\ SeenInv
        /\ NamesInv /\ InputsInv /\ ReviewInv
=============================================================================
