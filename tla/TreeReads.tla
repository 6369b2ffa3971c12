------------------------------ MODULE TreeReads ------------------------------
(***************************************************************************)
(* Directories are read while other programs write to them.  Three readers *)
(* take no lock and compare what they saw instead: the input tree that is  *)
(* hashed or staged (inventory, contents, inventory), the outputs that are *)
(* copied out of the workspace (each file between two looks, the directory *)
(* between two looks), and Console's review of a saved delivery (each file *)
(* between two looks and a third one at the end).                          *)
(***************************************************************************)
EXTENDS Naturals, FiniteSets

CONSTANTS
  FileNames,   \* of the files in the directory
  Bytes,       \* what a file may hold
  MaxChanges,  \* bound on what others do
  Missing

VARIABLES
  folder,    \* the file at each name: what it holds, and its stamp
  dir,       \* the directory: its stamp, and whether it is at its path
  manifest,  \* delivery.json with the receipt it is bound to: what is declared at each name
  changes,   \* so far
  kind,      \* the reader: of inputs, of outputs, or of a delivery under review
  at,        \* where it is
  found,     \* the names it found
  todo,      \* those it has still to visit
  looked,    \* the stamps it saw: of the files and of the directory
  declared,  \* the manifest it read
  got,       \* what it read of each file
  seen       \* history: what the directory held while it read

outside   == <<folder, dir, manifest, changes>>
reader    == <<kind, at, found, todo, looked, declared, got, seen>>
readsVars == <<outside, reader>>

\* Device, inode, size and times of a file, as one stamp: every change of a file is a new stamp.
Versions == 0..MaxChanges
Entry    == [is : Bytes, stamp : Versions]
Listing  == [FileNames -> Bytes \cup {Missing}]
Nothing  == [a \in FileNames |-> Missing]
Unseen   == [file |-> [a \in FileNames |-> 0], dir |-> 0]

ASSUME ChangesAssumption == MaxChanges \in Nat
ASSUME MissingAssumption == Missing \notin Bytes /\ Missing \notin Entry

ReadLabels == {"root", "list", "stat", "open", "read", "close", "recheck", "root again", "list again",
               "stat again", "manifest again", "passed", "failed"}

ReadsTypeOK ==
  /\ folder \in [FileNames -> Entry \cup {Missing}]
  /\ dir \in [stamp : Versions, inPlace : BOOLEAN]
  /\ manifest \in Listing
  /\ changes \in 0..MaxChanges
  /\ kind \in {"inputs", "outputs", "review"}
  /\ at \in ReadLabels
  /\ found \subseteq FileNames /\ todo \subseteq found
  /\ looked \in [file : [FileNames -> Versions], dir : Versions]
  /\ declared \in Listing /\ got \in Listing
  /\ seen \subseteq Listing

ReadsInit ==
  /\ folder \in [FileNames -> [is : Bytes, stamp : {0}] \cup {Missing}]
  /\ dir = [stamp |-> 0, inPlace |-> TRUE]
  /\ manifest \in Listing
  /\ changes = 0
  /\ kind \in {"inputs", "outputs", "review"}
  /\ kind # "review" => manifest = Nothing
  /\ at = "root"
  /\ found = {} /\ todo = {} /\ looked = Unseen
  /\ declared = Nothing /\ got = Nothing /\ seen = {}

Snapshot(t)  == [a \in FileNames |-> IF t[a] = Missing THEN Missing ELSE t[a].is]
Existing     == {a \in FileNames : folder[a] # Missing}
NamesIn(l)  == {a \in FileNames : l[a] # Missing}
Finished    == at \in {"passed", "failed"}

-----------------------------------------------------------------------------
(* What others do.  Making or removing a name also changes the directory. *)

Change ==
  /\ changes < MaxChanges
  /\ ~Finished
  /\ changes' = changes + 1
  /\ UNCHANGED <<kind, at, found, todo, looked, declared, got>>

Remember == seen' = IF at = "root" THEN seen ELSE seen \cup {Snapshot(folder')}

WriteFile(a) ==
  /\ Change
  /\ folder[a] # Missing
  /\ \E c \in Bytes : folder' = [folder EXCEPT ![a] = [is |-> c, stamp |-> changes + 1]]
  /\ Remember
  /\ UNCHANGED <<dir, manifest>>

\* A new file, also over one of that name.
PutFile(a) ==
  /\ Change
  /\ \E c \in Bytes : folder' = [folder EXCEPT ![a] = [is |-> c, stamp |-> changes + 1]]
  /\ dir' = [dir EXCEPT !.stamp = changes + 1]
  /\ Remember
  /\ UNCHANGED manifest

RemoveFile(a) ==
  /\ Change
  /\ folder[a] # Missing
  /\ folder' = [folder EXCEPT ![a] = Missing]
  /\ dir' = [dir EXCEPT !.stamp = changes + 1]
  /\ Remember
  /\ UNCHANGED manifest

\* The directory is renamed away, or back.
MoveDirectory ==
  /\ Change
  /\ dir' = [stamp |-> changes + 1, inPlace |-> ~dir.inPlace]
  /\ UNCHANGED <<folder, manifest, seen>>

RewriteManifest ==
  /\ Change
  /\ kind = "review"
  /\ manifest' \in Listing
  /\ UNCHANGED <<folder, dir, seen>>

-----------------------------------------------------------------------------
(* The steps of the readers *)

Goto(label) ==
  /\ at' = label
  /\ UNCHANGED <<kind, outside>>

Fail ==
  /\ Goto("failed")
  /\ UNCHANGED <<found, todo, looked, declared, got, seen>>

\* A review holds the directory open; the others go by its path.
Reachable == kind = "review" \/ dir.inPlace
Stamp(a)  == folder[a].stamp
Current   == CHOOSE a \in todo : TRUE   \* the next name in order
StillSame(a) == a \in Existing /\ Stamp(a) = looked.file[a]

\* canonical_input_root, or copy_entry's first look; a review reads delivery.json and receipt.json.
Root ==
  /\ at = "root"
  /\ Reachable
  /\ looked' = [looked EXCEPT !.dir = dir.stamp]
  /\ declared' = IF kind = "review" THEN manifest ELSE declared
  /\ seen' = {Snapshot(folder)}
  /\ Goto("list")
  /\ UNCHANGED <<found, todo, got>>

\* The directory is enumerated.  A review requires the declared set.
List ==
  /\ at = "list"
  /\ Reachable
  /\ kind = "review" => Existing = NamesIn(declared)
  /\ found' = Existing
  /\ todo' = Existing
  /\ Goto(IF kind = "review" THEN "open" ELSE "stat")
  /\ UNCHANGED <<looked, declared, got, seen>>

\* One name is done: the next one, or else the label that follows.
Advance(here, next) ==
  IF todo = {Current}
  THEN todo' = found /\ Goto(next)
  ELSE todo' = todo \ {Current} /\ Goto(here)

\* inspect_input_directory and copy_entry look at every entry before a file is read.
Stat ==
  /\ at = "stat"
  /\ IF todo = {} THEN Goto("open") /\ UNCHANGED <<todo, looked>>
     ELSE /\ Reachable /\ Current \in Existing
          /\ looked' = [looked EXCEPT !.file[Current] = Stamp(Current)]
          /\ Advance("stat", "open")
  /\ UNCHANGED <<found, declared, got, seen>>

AfterReading == CASE kind = "inputs"  -> "root again"
                  [] kind = "outputs" -> "root again"
                  [] kind = "review"  -> "recheck"

\* open_input: an input is still what the inventory saw.  The others look now.
Open ==
  /\ at = "open"
  /\ IF todo = {} THEN Goto(AfterReading) /\ UNCHANGED looked
     ELSE /\ Reachable /\ Current \in Existing
          /\ kind = "inputs" => StillSame(Current)
          /\ looked' = [looked EXCEPT !.file[Current] = Stamp(Current)]
          /\ Goto("read")
  /\ UNCHANGED <<found, todo, declared, got, seen>>

\* read_observed: a file that changed meanwhile yields anything.  Its bytes may be as many as before.
Read ==
  /\ at = "read"
  /\ \E c \in IF StillSame(Current) THEN {folder[Current].is} ELSE Bytes :
       got' = [got EXCEPT ![Current] = c]
  /\ IF kind = "inputs" THEN Advance("open", AfterReading) ELSE Goto("close") /\ UNCHANGED todo
  /\ UNCHANGED <<found, looked, declared, seen>>

\* read_source and digest: the name and the open file are what they were.
Close ==
  /\ at = "close"
  /\ Reachable
  /\ StillSame(Current)
  /\ kind = "review" => got[Current] = declared[Current]
  /\ Advance("open", AfterReading)
  /\ UNCHANGED <<found, looked, declared, got, seen>>

SkipRecheck ==   \* mutant
  /\ at = "recheck"
  /\ todo' = {}
  /\ Goto("list again")
  /\ UNCHANGED <<found, looked, declared, got, seen>>
\* review: every file is looked at again after the last was read.
Recheck ==
  /\ at = "recheck"
  /\ IF todo = {} THEN Goto("list again") /\ UNCHANGED todo
     ELSE StillSame(Current) /\ Advance("recheck", "list again")
  /\ UNCHANGED <<found, looked, declared, got, seen>>

\* The directory has its first stamp: check_snapshot, and the end of copy_entry.
RootAgain ==
  /\ at = "root again"
  /\ dir.inPlace /\ dir.stamp = looked.dir
  /\ Goto(IF kind = "inputs" THEN "list again" ELSE "passed")
  /\ UNCHANGED <<found, todo, looked, declared, got, seen>>

\* The names are the same; a review also requires that its directory is still the delivery's.
ListAgain ==
  /\ at = "list again"
  /\ dir.inPlace
  /\ Existing = found
  /\ todo' = found
  /\ Goto(IF kind = "inputs" THEN "stat again" ELSE "manifest again")
  /\ UNCHANGED <<found, looked, declared, got, seen>>

TrustNames ==   \* mutant
  /\ at = "stat again"
  /\ Goto("passed")
  /\ UNCHANGED <<found, todo, looked, declared, got, seen>>
\* check_snapshot compares every entry.
StatAgain ==
  /\ at = "stat again"
  /\ IF todo = {} THEN Goto("passed") /\ UNCHANGED todo
     ELSE dir.inPlace /\ StillSame(Current) /\ Advance("stat again", "passed")
  /\ UNCHANGED <<found, looked, declared, got, seen>>

ManifestAgain ==
  /\ at = "manifest again"
  /\ manifest = declared
  /\ dir.inPlace
  /\ Goto("passed")
  /\ UNCHANGED <<found, todo, looked, declared, got, seen>>

ReaderStep == \/ Root \/ List \/ Stat \/ Open \/ Read \/ Close \/ Recheck
              \/ RootAgain \/ ListAgain \/ StatAgain \/ ManifestAgain

\* Any comparison that does not hold, and any error of the system, ends the read.
ReadFails ==
  /\ ~Finished
  /\ Fail

ReadsNext ==
  \/ \E a \in FileNames : WriteFile(a) \/ PutFile(a) \/ RemoveFile(a)
  \/ MoveDirectory \/ RewriteManifest
  \/ ReaderStep \/ ReadFails

ReadsSpec == ReadsInit /\ [][ReadsNext]_readsVars

-----------------------------------------------------------------------------
\* What was read file by file without an error is one state of the directory: an input tree that was
\* hashed or staged was there at one moment with every file and every name, and while outputs were
\* copied nothing was added to them or removed.
CopiesHoldStill ==
  at = "passed" =>
    /\ kind = "inputs" => got \in seen
    /\ kind = "outputs" => \A l \in seen : NamesIn(l) = NamesIn(got)

\* A review that passed saw a delivery all of whose files were at one moment what its manifest declares.
ReviewIsOneMoment ==
  at = "passed" /\ kind = "review" =>
    \E l \in seen : \A a \in NamesIn(declared) : l[a] = declared[a]
=============================================================================
