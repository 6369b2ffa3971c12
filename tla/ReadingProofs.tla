---------------------------- MODULE ReadingProofs ----------------------------
(***************************************************************************)
(* Proofs about what is read while others change it: the exports of a      *)
(* package, for any commands, packages, Receipts and edits, and the copies *)
(* and reviews of a directory, for any files and any number of changes.    *)
(* For each, the inductive invariant and the properties that follow.       *)
(***************************************************************************)
EXTENDS ExportInv, TreeReadsInv, TLAPS

-----------------------------------------------------------------------------
(* Copies and reviews of a directory: the operators *)

USE ChangesAssumption, MissingAssumption

LEMMA CurrentIsLeft == todo # {} => Current \in todo
  BY DEF Current

LEMMA SnapshotIs ==
  ASSUME NEW t \in [FileNames -> Entry \cup {Missing}]
  PROVE  /\ Snapshot(t) \in Listing
         /\ NamesIn(Snapshot(t)) = {a \in FileNames : t[a] # Missing}
         /\ \A a \in FileNames : t[a] # Missing => Snapshot(t)[a] = t[a].is
<1>1. \A a \in FileNames : t[a] # Missing => t[a].is \in Bytes
  BY DEF Entry
<1> QED BY <1>1 DEF Snapshot, NamesIn, Listing

\* A new stamp is none that was seen.
LEMMA NewStampDiffers ==
  ASSUME ReadsTypeOK, StampInv
  PROVE  /\ \A a \in FileNames : looked.file[a] # changes + 1
         /\ looked.dir # changes + 1
         /\ changes < MaxChanges => changes + 1 \in Versions
  BY DEF ReadsTypeOK, StampInv, Versions

-----------------------------------------------------------------------------
(* What others do *)

\* What the readers know of a change: it leaves them alone, a file that has the stamp it was looked at
\* with is as it was, and so are the names if the directory has its first stamp.
Outside ==
  /\ at \notin {"passed", "failed"}
  /\ UNCHANGED <<kind, at, found, todo, looked, declared, got>>
  /\ \A a \in FileNames : StillSame(a)' => StillSame(a) /\ folder'[a] = folder[a]
  /\ seen \subseteq seen'
  /\ \A l \in seen' : l \in seen \/ l = Snapshot(folder')
  /\ at # "root" => Snapshot(folder') \in seen'
  /\ dir'.stamp = looked.dir => dir.stamp = looked.dir /\ Existing' = Existing

\* A file is written, put or removed.
Touches(a) ==
  /\ folder' \in [FileNames -> Entry \cup {Missing}]
  /\ \A n \in FileNames \ {a} : folder'[n] = folder[n]
  /\ folder'[a] # Missing => folder'[a].stamp = changes + 1

LEMMA TouchesIsOutside ==
  ASSUME ReadsInv, Change, Remember, NEW a \in FileNames, Touches(a),
         UNCHANGED manifest,
         \/ UNCHANGED dir /\ folder[a] # Missing /\ folder'[a] # Missing
         \/ dir' = [dir EXCEPT !.stamp = changes + 1]
  PROVE  Outside /\ ReadsTypeOK' /\ StampInv'
<1>1. /\ \A n \in FileNames : looked.file[n] # changes + 1
      /\ looked.dir # changes + 1 /\ changes + 1 \in Versions
  BY NewStampDiffers DEF ReadsInv, Change
<1>2. /\ at \notin {"passed", "failed"}
      /\ UNCHANGED <<kind, at, found, todo, looked, declared, got>>
      /\ changes' = changes + 1
  BY DEF Change, Finished
<1>3. \A n \in FileNames : StillSame(n)' => StillSame(n) /\ folder'[n] = folder[n]
  BY <1>1, <1>2 DEF StillSame, Existing, Stamp, Touches
<1>4. /\ seen \subseteq seen'
      /\ \A l \in seen' : l \in seen \/ l = Snapshot(folder')
      /\ at # "root" => Snapshot(folder') \in seen'
  BY DEF Remember
<1>5. ASSUME dir'.stamp = looked.dir
      PROVE  dir.stamp = looked.dir /\ Existing' = Existing
  <2>1. dir' # [dir EXCEPT !.stamp = changes + 1]
    BY <1>1, <1>5 DEF ReadsInv, ReadsTypeOK
  <2>2. dir' = dir /\ folder[a] # Missing /\ folder'[a] # Missing
    BY <2>1
  <2> QED BY <2>2, <1>5 DEF Existing, Touches
<1>6. Outside
  BY <1>2, <1>3, <1>4, <1>5 DEF Outside
<1>7. dir' \in [stamp : Versions, inPlace : BOOLEAN]
  BY <1>1 DEF ReadsInv, ReadsTypeOK
<1>8. seen' \subseteq Listing
  BY SnapshotIs DEF ReadsInv, ReadsTypeOK, Remember, Touches
<1>9. changes' \in 0..MaxChanges
  BY <1>1, <1>2 DEF Versions
<1>10. ReadsTypeOK'
  BY <1>2, <1>7, <1>8, <1>9 DEF ReadsInv, ReadsTypeOK, Touches
<1>11. StampInv'
  <2>1. changes \in Nat /\ \A n \in FileNames : looked.file[n] \in Nat
    BY DEF ReadsInv, ReadsTypeOK, Versions
  <2>2. dir.stamp \in Nat /\ looked.dir \in Nat
    BY DEF ReadsInv, ReadsTypeOK, Versions
  <2>3. \A n \in FileNames : folder[n] # Missing => folder[n].stamp \in Nat
    BY DEF ReadsInv, ReadsTypeOK, Versions, Entry
  <2>4. \A n \in FileNames : folder'[n] # Missing => folder'[n].stamp <= changes'
    BY <2>1, <2>3, <1>2 DEF ReadsInv, StampInv, Touches
  <2>5. dir'.stamp <= changes'
    BY <2>1, <2>2, <1>2 DEF ReadsInv, StampInv, ReadsTypeOK
  <2> QED BY <2>1, <2>2, <2>4, <2>5, <1>2 DEF ReadsInv, StampInv
<1> QED BY <1>6, <1>10, <1>11

LEMMA WriteFileIsOutside ==
  ASSUME ReadsInv, NEW a \in FileNames, WriteFile(a)
  PROVE  Outside /\ ReadsTypeOK' /\ StampInv'
<1>1. PICK c \in Bytes : folder' = [folder EXCEPT ![a] = [is |-> c, stamp |-> changes + 1]]
  BY DEF WriteFile
<1>2. changes + 1 \in Versions
  BY NewStampDiffers DEF ReadsInv, WriteFile, Change
<1>3. folder'[a] \in Entry /\ folder'[a] # Missing /\ Touches(a)
  BY <1>1, <1>2 DEF ReadsInv, ReadsTypeOK, Entry, Touches
<1> QED BY <1>3, TouchesIsOutside DEF WriteFile

LEMMA PutFileIsOutside ==
  ASSUME ReadsInv, NEW a \in FileNames, PutFile(a)
  PROVE  Outside /\ ReadsTypeOK' /\ StampInv'
<1>1. PICK c \in Bytes : folder' = [folder EXCEPT ![a] = [is |-> c, stamp |-> changes + 1]]
  BY DEF PutFile
<1>2. changes + 1 \in Versions
  BY NewStampDiffers DEF ReadsInv, PutFile, Change
<1>3. Touches(a)
  BY <1>1, <1>2 DEF ReadsInv, ReadsTypeOK, Entry, Touches
<1> QED BY <1>3, TouchesIsOutside DEF PutFile

LEMMA RemoveFileIsOutside ==
  ASSUME ReadsInv, NEW a \in FileNames, RemoveFile(a)
  PROVE  Outside /\ ReadsTypeOK' /\ StampInv'
<1>1. Touches(a)
  BY DEF ReadsInv, ReadsTypeOK, Touches, RemoveFile
<1> QED BY <1>1, TouchesIsOutside DEF RemoveFile

\* The files stay: the directory moves, or the manifest is rewritten.
LEMMA OtherEditIsOutside ==
  ASSUME ReadsInv, MoveDirectory \/ RewriteManifest
  PROVE  Outside /\ ReadsTypeOK' /\ StampInv'
<1>1. Change /\ UNCHANGED <<folder, seen>>
  BY DEF MoveDirectory, RewriteManifest
<1>2. /\ at \notin {"passed", "failed"}
      /\ UNCHANGED <<kind, at, found, todo, looked, declared, got>>
      /\ changes' = changes + 1
  BY <1>1 DEF Change, Finished
<1>3. looked.dir # changes + 1 /\ changes + 1 \in Versions
  BY <1>1, NewStampDiffers DEF ReadsInv, Change
<1>4. dir' = dir \/ dir' = [stamp |-> changes + 1, inPlace |-> ~dir.inPlace]
  BY DEF MoveDirectory, RewriteManifest
<1>5. manifest' \in Listing
  BY DEF ReadsInv, ReadsTypeOK, MoveDirectory, RewriteManifest
<1>6. Outside
  BY <1>1, <1>2, <1>3, <1>4 DEF Outside, ReadsInv, SeenInv, StillSame, Existing, Stamp
<1>7. dir' \in [stamp : Versions, inPlace : BOOLEAN]
  <2>1. dir \in [stamp : Versions, inPlace : BOOLEAN]
    BY DEF ReadsInv, ReadsTypeOK
  <2>2. (~dir.inPlace) \in BOOLEAN
    OBVIOUS
  <2>3. PICK moved \in BOOLEAN : moved = ~dir.inPlace
    BY <2>2
  <2>4. dir' = dir \/ dir' = [stamp |-> changes + 1, inPlace |-> moved]
    BY <1>4, <2>3, Zenon
  <2> QED BY <1>3, <2>1, <2>4
<1>8. ReadsTypeOK'
  BY <1>1, <1>2, <1>3, <1>5, <1>7 DEF ReadsInv, ReadsTypeOK, Versions
<1>9. StampInv'
  <2>1. changes \in Nat /\ \A n \in FileNames : looked.file[n] \in Nat
    BY DEF ReadsInv, ReadsTypeOK, Versions
  <2>2. dir.stamp \in Nat /\ looked.dir \in Nat
    BY DEF ReadsInv, ReadsTypeOK, Versions
  <2>3. \A n \in FileNames : folder[n] # Missing => folder[n].stamp \in Nat
    BY DEF ReadsInv, ReadsTypeOK, Versions, Entry
  <2> QED BY <1>1, <1>2, <1>4, <2>1, <2>2, <2>3 DEF ReadsInv, StampInv
<1> QED BY <1>6, <1>8, <1>9

\* Nothing an outsider does undoes what the reader has found out.
LEMMA OutsideKeeps ==
  ASSUME ReadsInv, Outside, ReadsTypeOK', StampInv'
  PROVE  ReadsInv'
<1> USE DEF ReadsInv
<1>1. /\ UNCHANGED <<kind, at, found, todo, looked, declared, got, Current, Done, HasBytes>>
      /\ at \notin {"passed", "failed"}
  BY DEF Outside, Current, Done, HasBytes
<1>2. WayInv'
  BY <1>1 DEF WayInv
<1>3. HasBytes \subseteq FileNames
  BY DEF BytesInv, NamesIn, Outside
<1>4. BytesInv'
  BY <1>1, <1>3 DEF BytesInv, Outside, NamesIn
<1>5. SeenInv'
  BY DEF SeenInv, Outside
<1>6. folder' \in [FileNames -> Entry \cup {Missing}]
  BY DEF ReadsTypeOK
<1>7. NamesIn(Snapshot(folder')) = Existing'
  BY <1>6, SnapshotIs DEF Existing
<1>8. NamesInv'
  BY <1>1, <1>7 DEF NamesInv, Outside
<1>9. ASSUME NEW l \in seen, NEW as, Agrees(l, as) PROVE Agrees(l, as)'
  BY <1>9, <1>1 DEF Agrees, Outside, ReadsTypeOK
<1>10. InputsInv'
  BY <1>1, <1>9 DEF InputsInv, Outside, NamesIn
<1>11. ReviewInv'
  BY <1>1, <1>9 DEF ReviewInv, Outside, NamesIn
<1> QED BY <1>2, <1>4, <1>5, <1>8, <1>10, <1>11

-----------------------------------------------------------------------------
(* Steps of a reader *)

LEMMA AdvanceIs ==
  ASSUME ReadsTypeOK, todo # {}, NEW here, NEW next, Advance(here, next)
  PROVE  /\ UNCHANGED <<kind, outside>>
         /\ Current \in todo
         /\ \/ todo = {Current} /\ todo' = found /\ at' = next
            \/ todo' = todo \ {Current} /\ todo' # {} /\ at' = here
  BY CurrentIsLeft DEF Advance, Goto

LEMMA RootStep ==
  ASSUME ReadsInv, Root
  PROVE  ReadsInv'
<1> USE DEF ReadsInv
<1>1. /\ UNCHANGED <<folder, dir, manifest, changes, kind, found, todo, got>>
      /\ at = "root" /\ at' = "list"
      /\ looked' = [looked EXCEPT !.dir = dir.stamp]
      /\ declared' \in {manifest, declared}
      /\ seen' = {Snapshot(folder)}
  BY DEF Root, Goto, outside
<1>2. /\ Snapshot(folder) \in Listing /\ NamesIn(Snapshot(folder)) = Existing
  BY SnapshotIs DEF ReadsTypeOK, Existing
<1>3. ReadsTypeOK'
  BY <1>1, <1>2 DEF ReadsTypeOK, ReadLabels
<1>4. StampInv'
  BY <1>1 DEF StampInv, ReadsTypeOK
<1>5. found = {} /\ todo = {}
  BY <1>1 DEF WayInv, ReadsTypeOK
<1>6. Done' = {} /\ HasBytes' = {} /\ HasBytes = {} /\ Done = {}
  BY <1>1 DEF Done, HasBytes
<1>7. WayInv' /\ BytesInv'
  BY <1>1, <1>5, <1>6 DEF WayInv, BytesInv, NamesIn
<1>8. SeenInv'
  BY <1>1 DEF SeenInv, Snapshot
<1>9. NamesInv'
  BY <1>1, <1>2 DEF NamesInv, Existing, NamesIn
<1>10. InputsInv' /\ ReviewInv'
  BY <1>1, <1>6 DEF InputsInv, ReviewInv
<1> QED BY <1>3, <1>4, <1>7, <1>8, <1>9, <1>10

LEMMA ListStep ==
  ASSUME ReadsInv, List
  PROVE  ReadsInv'
<1> USE DEF ReadsInv
<1>1. /\ UNCHANGED <<folder, dir, manifest, changes, kind, looked, declared, got, seen>>
      /\ at = "list" /\ at' = (IF kind = "review" THEN "open" ELSE "stat")
      /\ found' = Existing /\ todo' = Existing
      /\ kind = "review" => Existing = NamesIn(declared)
  BY DEF List, Goto, outside
<1>2. ReadsTypeOK'
  BY <1>1 DEF ReadsTypeOK, ReadLabels, Existing
<1>3. StampInv'
  BY <1>1 DEF StampInv
<1>4. WayInv'
  BY <1>1 DEF WayInv, ReadsTypeOK
<1>5. Done' = {} /\ HasBytes' = {} /\ HasBytes = {} /\ Done = {}
  BY <1>1 DEF Done, HasBytes
<1>6. BytesInv'
  BY <1>1, <1>5 DEF BytesInv, NamesIn
<1>7. SeenInv'
  BY <1>1 DEF SeenInv, Snapshot
<1>8. NamesInv'
  BY <1>1 DEF NamesInv, Existing, NamesIn
<1>9. InputsInv'
  BY <1>1 DEF InputsInv
<1>10. ReviewInv'
  BY <1>1, <1>5 DEF ReviewInv, NamesIn
<1> QED BY <1>2, <1>3, <1>4, <1>6, <1>7, <1>8, <1>9, <1>10

\* What a step that only compares or looks keeps: the invariants that do not depend on the round.
LEMMA QuietKeeps ==
  ASSUME ReadsInv, UNCHANGED <<outside, kind, found, declared, got, seen>>, looked'.dir = looked.dir,
         at' \notin {"root", "list"}, at # "root", at = "list" => at' = "failed",
         at # "failed"
  PROVE  SeenInv' /\ NamesInv'
<1> USE DEF ReadsInv
<1>1. UNCHANGED <<folder, dir>> /\ Existing' = Existing
  BY DEF outside, Existing
<1>2. SeenInv'
  BY <1>1 DEF SeenInv, Snapshot
<1>3. NamesInv'
  BY <1>1 DEF NamesInv, NamesIn
<1> QED BY <1>2, <1>3

LEMMA FailStep ==
  ASSUME ReadsInv, ReadFails
  PROVE  ReadsInv'
<1> USE DEF ReadsInv
<1>1. /\ UNCHANGED <<folder, dir, manifest, changes, kind, found, todo, looked, declared, got, seen>>
      /\ at' = "failed"
  BY DEF ReadFails, Fail, Goto, outside
<1>2. ReadsTypeOK' /\ StampInv' /\ WayInv'
  BY <1>1 DEF ReadsTypeOK, StampInv, WayInv, ReadLabels
<1>3. BytesInv' /\ SeenInv' /\ NamesInv' /\ InputsInv' /\ ReviewInv'
  BY <1>1 DEF BytesInv, SeenInv, NamesInv, InputsInv, ReviewInv, Done
<1> QED BY <1>2, <1>3

LEMMA StatStep ==
  ASSUME ReadsInv, Stat
  PROVE  ReadsInv'
<1> USE DEF ReadsInv
<1>1. /\ UNCHANGED <<folder, dir, manifest, changes, kind, found, declared, got, seen>>
      /\ at = "stat" /\ at' \in {"stat", "open"}
      /\ UNCHANGED outside
  BY DEF Stat, Goto, outside, Advance
<1>2. /\ looked' \in [file : [FileNames -> Versions], dir : Versions] /\ looked'.dir = looked.dir
      /\ \A a \in FileNames : looked'.file[a] <= changes
      /\ todo' \subseteq found
      /\ todo' = {} => found = {}
      /\ at' = "open" => todo' = found
  <2>1. CASE todo = {}
    <3>1. UNCHANGED <<todo, looked>> /\ found = {}
      BY <2>1, <1>1 DEF Stat, WayInv
    <3> QED BY <2>1, <3>1 DEF ReadsTypeOK, StampInv
  <2>2. CASE todo # {}
    <3>1. /\ Advance("stat", "open") /\ Current \in Existing
          /\ looked' = [looked EXCEPT !.file[Current] = folder[Current].stamp]
      BY <2>2 DEF Stat, Stamp
    <3>2. Current \in FileNames /\ folder[Current].stamp \in Versions /\ folder[Current].stamp <= changes
      BY <3>1 DEF ReadsTypeOK, StampInv, Existing, Entry
    <3>3. /\ looked' \in [file : [FileNames -> Versions], dir : Versions] /\ looked'.dir = looked.dir
          /\ \A a \in FileNames : looked'.file[a] <= changes
      BY <3>1, <3>2 DEF ReadsTypeOK, StampInv
    <3>4. /\ todo' \subseteq found
          /\ todo' = {} => found = {}
          /\ at' = "open" => todo' = found
      BY <2>2, <3>1, AdvanceIs DEF ReadsTypeOK
    <3> QED BY <3>3, <3>4
  <2> QED BY <2>1, <2>2
<1>3. ReadsTypeOK' /\ StampInv'
  BY <1>1, <1>2 DEF ReadsTypeOK, StampInv, ReadLabels
<1>4. WayInv'
  BY <1>1, <1>2 DEF WayInv
<1>5. Done' = {} /\ HasBytes' = {} /\ HasBytes = {} /\ Done = {}
  BY <1>1, <1>2 DEF Done, HasBytes
<1>6. BytesInv'
  BY <1>1, <1>5 DEF BytesInv, NamesIn
<1>7. SeenInv' /\ NamesInv'
  BY <1>1, <1>2, QuietKeeps
<1>8. InputsInv' /\ ReviewInv'
  BY <1>1, <1>4, <1>5 DEF InputsInv, ReviewInv, NamesIn, WayInv
<1> QED BY <1>3, <1>4, <1>6, <1>7, <1>8

\* The step AfterReading depends on the reader only.
LEMMA AfterReadingIs ==
  ASSUME ReadsTypeOK
  PROVE  /\ AfterReading \in {"root again", "recheck"}
         /\ AfterReading = "recheck" <=> kind = "review"
  BY DEF AfterReading, ReadsTypeOK

LEMMA OpenStep ==
  ASSUME ReadsInv, Open
  PROVE  ReadsInv'
<1> USE DEF ReadsInv
<1>1. /\ UNCHANGED <<folder, dir, manifest, changes, kind, found, todo, declared, got, seen, Current>>
      /\ at = "open" /\ UNCHANGED outside
  BY DEF Open, Goto, outside, Current
<1>2. Done = found \ todo /\ HasBytes = found \ todo
  BY <1>1 DEF Done, HasBytes
<1>3. CASE todo = {}
  <2>1. /\ UNCHANGED looked /\ at' = AfterReading /\ found = {}
    BY <1>1, <1>3 DEF Open, Goto, WayInv
  <2>2. /\ at' \in {"root again", "recheck"}
        /\ at' = "recheck" <=> kind = "review"
    BY <2>1, AfterReadingIs
  <2>3. Done' = {} /\ HasBytes' = {}
    BY <1>1, <2>1, <2>2 DEF Done, HasBytes
  <2>4. ReadsTypeOK' /\ StampInv' /\ WayInv'
    BY <1>1, <2>1, <2>2 DEF ReadsTypeOK, StampInv, WayInv, ReadLabels
  <2>5. BytesInv'
    BY <1>1, <1>2, <2>1, <2>3 DEF BytesInv, NamesIn
  <2>6. SeenInv' /\ NamesInv'
    BY <1>1, <2>1, <2>2, QuietKeeps
  <2>7. seen # {}
    BY <1>1 DEF SeenInv
  <2>8. InputsInv' /\ ReviewInv'
    BY <1>1, <2>1, <2>2, <2>3, <2>7 DEF InputsInv, ReviewInv, Agrees, NamesIn
  <2> QED BY <2>4, <2>5, <2>6, <2>8
<1>4. CASE todo # {}
  <2>1. /\ at' = "read" /\ Current \in todo /\ Current \in Existing
        /\ looked' = [looked EXCEPT !.file[Current] = folder[Current].stamp]
    BY <1>4, CurrentIsLeft DEF Open, Goto, Stamp
  <2>2. Current \in FileNames /\ folder[Current].stamp \in Versions /\ folder[Current].stamp <= changes
    BY <2>1 DEF ReadsTypeOK, StampInv, Existing, Entry
  <2>3. looked' \in [file : [FileNames -> Versions], dir : Versions] /\ looked'.dir = looked.dir
    BY <2>1, <2>2 DEF ReadsTypeOK
  <2>4. \A a \in FileNames : looked'.file[a] <= changes
    BY <2>1, <2>2 DEF ReadsTypeOK, StampInv
  <2>5. ReadsTypeOK' /\ StampInv' /\ WayInv'
    BY <1>1, <1>4, <2>1, <2>3, <2>4 DEF ReadsTypeOK, StampInv, WayInv, ReadLabels
  <2>6. Done' = Done /\ HasBytes' = HasBytes /\ Current \notin HasBytes
    BY <1>1, <1>2, <2>1 DEF Done, HasBytes
  <2>7. \A a \in HasBytes : looked'.file[a] = looked.file[a]
    BY <1>2, <2>1, <2>6 DEF ReadsTypeOK
  <2>8. BytesInv'
    BY <1>1, <2>1, <2>6, <2>7 DEF BytesInv, NamesIn, StillSame, Stamp, Existing
  <2>9. SeenInv' /\ NamesInv'
    BY <1>1, <2>1, <2>3, QuietKeeps
  <2>10. InputsInv' /\ ReviewInv'
    BY <1>1, <2>1, <2>6 DEF InputsInv, ReviewInv, NamesIn
  <2> QED BY <2>5, <2>8, <2>9, <2>10
<1> QED BY <1>3, <1>4

LEMMA ReadStep ==
  ASSUME ReadsInv, Read
  PROVE  ReadsInv'
<1> USE DEF ReadsInv
<1>1. /\ UNCHANGED <<folder, dir, manifest, changes, kind, found, looked, declared, seen>>
      /\ at = "read" /\ UNCHANGED outside
  BY DEF Read, Goto, Advance, outside
<1>2. PICK c \in IF StillSame(Current) THEN {folder[Current].is} ELSE Bytes :
        got' = [got EXCEPT ![Current] = c]
  BY DEF Read
<1>3. Current \in todo /\ Current \in FileNames /\ todo # {}
  BY <1>1, CurrentIsLeft DEF WayInv, ReadsTypeOK
<1>4. c \in Bytes /\ StillSame(Current) => c = folder[Current].is
  BY <1>2, <1>3 DEF StillSame
<1>5. c \in Bytes /\ c # Missing
  BY <1>2, <1>3 DEF StillSame, ReadsTypeOK, Existing, Entry
<1>6. Done = found \ todo /\ HasBytes = found \ todo /\ Current \notin Done
  BY <1>1, <1>3 DEF Done, HasBytes
<1>7. /\ at' \in {"open", "close", "root again"}
      /\ at' \in {"open", "root again"} => kind = "inputs"
      /\ at' = "close" => kind # "inputs" /\ todo' = todo /\ Current' = Current
      /\ todo' \subseteq found /\ todo' # {}
      /\ HasBytes' = HasBytes \cup {Current}
  <2>1. CASE kind = "inputs"
    <3>1. Advance("open", "root again")
      BY <2>1 DEF Read, AfterReading
    <3>2. \/ todo = {Current} /\ todo' = found /\ at' = "root again"
          \/ todo' = todo \ {Current} /\ todo' # {} /\ at' = "open"
      BY <1>3, <3>1, AdvanceIs
    <3>3. todo \subseteq found /\ found' = found
      BY <1>1 DEF ReadsTypeOK
    <3> QED BY <1>3, <1>6, <2>1, <3>2, <3>3 DEF HasBytes, Done
  <2>2. CASE kind # "inputs"
    <3>1. at' = "close" /\ todo' = todo /\ Current' = Current
      BY <2>2 DEF Read, Goto, Current
    <3> QED BY <1>1, <1>3, <1>6, <2>2, <3>1 DEF HasBytes, Done, ReadsTypeOK
  <2> QED BY <2>1, <2>2
<1>8. ReadsTypeOK' /\ StampInv' /\ WayInv'
  <2>1. got' \in Listing
    BY <1>2, <1>3, <1>5 DEF ReadsTypeOK, Listing
  <2> QED BY <1>1, <1>7, <2>1 DEF ReadsTypeOK, StampInv, WayInv, ReadLabels
<1>9. BytesInv'
  <2>1. got \in Listing /\ NamesIn(got) = HasBytes
    BY <1>1 DEF ReadsTypeOK, BytesInv
  <2>2. NamesIn(got') = HasBytes'
    BY <1>2, <1>3, <1>5, <1>7, <2>1 DEF NamesIn, Listing
  <2>3. ASSUME NEW a \in HasBytes', StillSame(a)' PROVE folder'[a].is = got'[a]
    <3>1. StillSame(a)
      BY <1>1, <2>3 DEF StillSame, Stamp, Existing
    <3>2. CASE a = Current
      BY <1>1, <1>2, <1>3, <1>4, <1>5, <2>1, <3>1, <3>2 DEF Listing
    <3>3. CASE a # Current
      <4>1. a \in HasBytes /\ a \in FileNames
        BY <1>7, <2>1, <3>3 DEF NamesIn
      <4>2. folder[a].is = got[a]
        BY <1>1, <3>1, <4>1 DEF BytesInv
      <4> QED BY <1>1, <1>2, <2>1, <3>3, <4>1, <4>2 DEF Listing
    <3> QED BY <3>2, <3>3
  <2> QED BY <2>2, <2>3 DEF BytesInv
<1>10. SeenInv' /\ NamesInv'
  BY <1>1, <1>7 DEF SeenInv, NamesInv, Existing, NamesIn, Snapshot
<1>11. InputsInv'
  BY <1>1, <1>7 DEF InputsInv
<1>12. ReviewInv'
  <2> SUFFICES ASSUME kind = "review" PROVE ReviewInv'
    BY <1>1 DEF ReviewInv
  <2>1. at' = "close" /\ Done' = Done
    BY <1>1, <1>6, <1>7 DEF Done
  <2>2. \A a \in Done : got'[a] = got[a]
    BY <1>2, <1>6 DEF ReadsTypeOK, Listing
  <2> QED BY <1>1, <2>1, <2>2 DEF ReviewInv, NamesIn
<1> QED BY <1>8, <1>9, <1>10, <1>11, <1>12

LEMMA CloseStep ==
  ASSUME ReadsInv, Close
  PROVE  ReadsInv'
<1> USE DEF ReadsInv
<1>1. /\ UNCHANGED <<folder, dir, manifest, changes, kind, found, looked, declared, got, seen>>
      /\ at = "close" /\ UNCHANGED outside
      /\ StillSame(Current) /\ Advance("open", AfterReading)
      /\ kind = "review" => got[Current] = declared[Current]
  BY DEF Close, Goto, Advance, outside
<1>2. /\ Current \in todo /\ Current \in FileNames /\ todo # {} /\ todo \subseteq found
      /\ kind # "inputs"
  BY <1>1, CurrentIsLeft DEF WayInv, ReadsTypeOK
<1>3. \/ todo = {Current} /\ todo' = found /\ at' = AfterReading
      \/ todo' = todo \ {Current} /\ todo' # {} /\ at' = "open"
  BY <1>1, <1>2, AdvanceIs
<1>4. /\ AfterReading \in {"root again", "recheck"}
      /\ AfterReading = "recheck" <=> kind = "review"
  BY AfterReadingIs
<1>5. Done = found \ todo /\ HasBytes = Done \cup {Current}
  BY <1>1 DEF Done, HasBytes
<1>6. Done' = HasBytes /\ HasBytes' = HasBytes
  BY <1>1, <1>2, <1>3, <1>4, <1>5 DEF Done, HasBytes
<1>7. ReadsTypeOK' /\ StampInv' /\ WayInv'
  BY <1>1, <1>2, <1>3, <1>4 DEF ReadsTypeOK, StampInv, WayInv, ReadLabels
<1>8. BytesInv'
  BY <1>1, <1>6 DEF BytesInv, NamesIn, StillSame, Stamp, Existing
<1>9. SeenInv' /\ NamesInv'
  BY <1>1, <1>3, <1>4, QuietKeeps
<1>10. InputsInv'
  BY <1>3, <1>4 DEF InputsInv
<1>11. ReviewInv'
  <2> SUFFICES ASSUME kind = "review" PROVE ReviewInv'
    BY <1>1 DEF ReviewInv
  <2>1. found = NamesIn(declared) /\ \A a \in HasBytes : got[a] = declared[a]
    BY <1>1, <1>5 DEF ReviewInv
  <2>2. at' \in {"recheck", "open"}
    BY <1>3, <1>4
  <2>3. ASSUME at' = "recheck" PROVE \E l \in seen : \A a \in found : StillSame(a) => l[a] = declared[a]
    <3>1. todo = {Current} /\ HasBytes = found
      BY <1>2, <1>3, <1>5, <2>3
    <3>2. \A a \in found : StillSame(a) => folder[a].is = declared[a] /\ a \in FileNames /\ folder[a] # Missing
      BY <1>1, <2>1, <3>1 DEF BytesInv, StillSame, Existing
    <3>3. \A a \in found : StillSame(a) => Snapshot(folder)[a] = declared[a]
      BY <3>2 DEF Snapshot
    <3>4. Snapshot(folder) \in seen
      BY <1>1 DEF SeenInv
    <3> QED BY <3>3, <3>4
  <2>4. at' = "recheck" => todo' = found
    BY <1>3
  <2>5. at' = "recheck" => (\E l \in seen : Agrees(l, declared))'
    BY <1>1, <2>3, <2>4 DEF Agrees, StillSame, Stamp, Existing
  <2> QED BY <1>1, <1>6, <2>1, <2>2, <2>5 DEF ReviewInv, NamesIn
<1> QED BY <1>7, <1>8, <1>9, <1>10, <1>11

\* A comparison of the next name: what agreed goes on agreeing, with one name more that is done with.
LEMMA CheckedAgrees ==
  ASSUME ReadsTypeOK, todo # {}, StillSame(Current), NEW here, NEW next, here # next, Advance(here, next),
         UNCHANGED <<found, looked>>, NEW l, NEW as, Agrees(l, as)
  PROVE  /\ at' = next => \A a \in found : l[a] = as[a]
         /\ at' = here => Agrees(l, as)'
<1>1. /\ UNCHANGED <<folder, dir>> /\ Current \in todo
      /\ \/ todo = {Current} /\ todo' = found /\ at' = next
         \/ todo' = todo \ {Current} /\ todo' # {} /\ at' = here
  BY AdvanceIs DEF outside
<1> QED BY <1>1 DEF Agrees, StillSame, Stamp, Existing

LEMMA RecheckStep ==
  ASSUME ReadsInv, Recheck
  PROVE  ReadsInv'
<1> USE DEF ReadsInv
<1>1. /\ UNCHANGED <<folder, dir, manifest, changes, kind, found, looked, declared, got, seen>>
      /\ at = "recheck" /\ at' \in {"recheck", "list again"} /\ UNCHANGED outside
      /\ kind = "review"
  BY DEF Recheck, Goto, Advance, outside, WayInv
<1>2. PICK l \in seen : Agrees(l, declared)
  BY <1>1 DEF ReviewInv
<1>3. /\ todo' \subseteq found
      /\ todo' = {} => found = {}
      /\ at' = "list again" => \A a \in found : l[a] = declared[a]
      /\ at' = "recheck" => Agrees(l, declared)'
  <2>1. CASE todo = {}
    <3>1. UNCHANGED todo /\ at' = "list again" /\ found = {}
      BY <1>1, <2>1 DEF Recheck, Goto, WayInv
    <3> QED BY <2>1, <3>1
  <2>2. CASE todo # {}
    <3>1. StillSame(Current) /\ Advance("recheck", "list again")
      BY <2>2 DEF Recheck
    <3>2. todo' \subseteq found /\ (todo' = {} => found = {})
      BY <2>2, <3>1, AdvanceIs DEF ReadsTypeOK
    <3>3. PICK as : as = declared
      OBVIOUS
    <3>4. /\ at' = "list again" => \A a \in found : l[a] = as[a]
          /\ at' = "recheck" => Agrees(l, as)'
      BY <1>1, <1>2, <2>2, <3>1, <3>3, CheckedAgrees
    <3> QED BY <1>1, <3>2, <3>3, <3>4 DEF Agrees
  <2> QED BY <2>1, <2>2
<1>4. Done' = found /\ Done = found /\ HasBytes' = found /\ HasBytes = found
  BY <1>1 DEF Done, HasBytes
<1>5. ReadsTypeOK' /\ StampInv' /\ WayInv'
  BY <1>1, <1>3 DEF ReadsTypeOK, StampInv, WayInv, ReadLabels
<1>6. BytesInv'
  BY <1>1, <1>4 DEF BytesInv, NamesIn, StillSame, Stamp, Existing
<1>7. SeenInv' /\ NamesInv'
  BY <1>1, QuietKeeps
<1>8. InputsInv' /\ ReviewInv'
  BY <1>1, <1>2, <1>3, <1>4 DEF InputsInv, ReviewInv, NamesIn, Agrees
<1> QED BY <1>5, <1>6, <1>7, <1>8

LEMMA RootAgainStep ==
  ASSUME ReadsInv, RootAgain
  PROVE  ReadsInv'
<1> USE DEF ReadsInv
<1>1. /\ UNCHANGED <<folder, dir, manifest, changes, kind, found, todo, looked, declared, got, seen>>
      /\ at = "root again" /\ UNCHANGED outside
      /\ at' = (IF kind = "inputs" THEN "list again" ELSE "passed")
      /\ dir.stamp = looked.dir /\ kind \in {"inputs", "outputs"}
  BY DEF RootAgain, Goto, outside, WayInv, ReadsTypeOK
<1>2. Done' = found /\ Done = found /\ HasBytes' = found /\ HasBytes = found
  BY <1>1 DEF Done, HasBytes
<1>3. ReadsTypeOK' /\ StampInv' /\ WayInv'
  BY <1>1 DEF ReadsTypeOK, StampInv, WayInv, ReadLabels
<1>4. BytesInv'
  BY <1>1, <1>2 DEF BytesInv, NamesIn, StillSame, Stamp, Existing
<1>5. SeenInv' /\ NamesInv'
  BY <1>1, QuietKeeps
<1>6. InputsInv' /\ ReviewInv'
  BY <1>1, <1>2 DEF InputsInv, ReviewInv
<1> QED BY <1>3, <1>4, <1>5, <1>6

\* The moment at which the inputs are what was read.
LEMMA ListAgainStep ==
  ASSUME ReadsInv, ListAgain
  PROVE  ReadsInv'
<1> USE DEF ReadsInv
<1>1. /\ UNCHANGED <<folder, dir, manifest, changes, kind, found, looked, declared, got, seen>>
      /\ at = "list again" /\ UNCHANGED outside /\ todo' = found /\ Existing = found
      /\ at' = (IF kind = "inputs" THEN "stat again" ELSE "manifest again")
      /\ kind \in {"inputs", "review"}
  BY DEF ListAgain, Goto, outside, WayInv, ReadsTypeOK
<1>2. Done' = found /\ Done = found /\ HasBytes' = found /\ HasBytes = found
  BY <1>1 DEF Done, HasBytes
<1>3. ReadsTypeOK' /\ StampInv' /\ WayInv'
  BY <1>1 DEF ReadsTypeOK, StampInv, WayInv, ReadLabels
<1>4. BytesInv'
  BY <1>1, <1>2 DEF BytesInv, NamesIn, StillSame, Stamp, Existing
<1>5. SeenInv' /\ NamesInv'
  BY <1>1, QuietKeeps
<1>6. Snapshot(folder) \in seen /\ NamesIn(Snapshot(folder)) = found
  BY <1>1, SnapshotIs DEF SeenInv, ReadsTypeOK, Existing
<1>7. \A a \in found : StillSame(a) => Snapshot(folder)[a] = got[a]
  <2>1. \A a \in found : StillSame(a) => folder[a].is = got[a] /\ a \in FileNames /\ folder[a] # Missing
    BY <1>1, <1>2 DEF BytesInv, StillSame, Existing
  <2> QED BY <2>1 DEF Snapshot
<1>8. InputsInv'
  <2>1. CASE kind = "inputs"
    <3>1. Agrees(Snapshot(folder), got)'
      BY <1>1, <1>7 DEF Agrees, StillSame, Stamp, Existing, Snapshot
    <3> QED BY <1>1, <1>6, <2>1, <3>1 DEF InputsInv, NamesIn, Snapshot
  <2>2. CASE kind = "review"
    BY <1>1, <2>2 DEF InputsInv
  <2> QED BY <1>1, <2>1, <2>2
<1>9. ReviewInv'
  BY <1>1, <1>2 DEF ReviewInv, NamesIn
<1> QED BY <1>3, <1>4, <1>5, <1>8, <1>9

LEMMA StatAgainStep ==
  ASSUME ReadsInv, StatAgain
  PROVE  ReadsInv'
<1> USE DEF ReadsInv
<1>1. /\ UNCHANGED <<folder, dir, manifest, changes, kind, found, looked, declared, got, seen>>
      /\ at = "stat again" /\ at' \in {"stat again", "passed"} /\ UNCHANGED outside
      /\ kind = "inputs"
  BY DEF StatAgain, Goto, Advance, outside, WayInv
<1>2. PICK l \in seen : NamesIn(l) = found /\ Agrees(l, got)
  BY <1>1 DEF InputsInv
<1>3. /\ todo' \subseteq found
      /\ todo' = {} => found = {}
      /\ at' = "passed" => \A a \in found : l[a] = got[a]
      /\ at' = "stat again" => Agrees(l, got)'
  <2>1. CASE todo = {}
    <3>1. UNCHANGED todo /\ at' = "passed" /\ found = {}
      BY <2>1, <1>1 DEF StatAgain, Goto, WayInv
    <3> QED BY <2>1, <3>1
  <2>2. CASE todo # {}
    <3>1. StillSame(Current) /\ Advance("stat again", "passed")
      BY <2>2 DEF StatAgain
    <3>2. todo' \subseteq found /\ (todo' = {} => found = {})
      BY <2>2, <3>1, AdvanceIs DEF ReadsTypeOK
    <3>3. PICK as : as = got
      OBVIOUS
    <3>4. Agrees(l, as) /\ "stat again" # "passed"
      BY <1>2, <3>3
    <3>5. UNCHANGED <<found, looked>> /\ ReadsTypeOK
      BY <1>1
    <3>6. /\ at' = "passed" => \A a \in found : l[a] = as[a]
          /\ at' = "stat again" => Agrees(l, as)'
      BY <2>2, <3>1, <3>4, <3>5, CheckedAgrees
    <3> QED BY <1>1, <3>2, <3>3, <3>6 DEF Agrees
  <2> QED BY <2>1, <2>2
<1>4. Done' = found /\ Done = found /\ HasBytes' = found /\ HasBytes = found
  BY <1>1 DEF Done, HasBytes
<1>5. ReadsTypeOK' /\ StampInv' /\ WayInv'
  BY <1>1, <1>3 DEF ReadsTypeOK, StampInv, WayInv, ReadLabels
<1>6. BytesInv'
  BY <1>1, <1>4 DEF BytesInv, NamesIn, StillSame, Stamp, Existing
<1>7. SeenInv' /\ NamesInv'
  BY <1>1, QuietKeeps
<1>8. at' = "passed" => l = got
  <2> SUFFICES ASSUME at' = "passed" PROVE l = got
    OBVIOUS
  <2>1. l \in Listing /\ got \in Listing /\ NamesIn(got) = found
    BY <1>1, <1>4 DEF ReadsTypeOK, BytesInv
  <2>2. \A a \in FileNames : l[a] = got[a]
    BY <1>2, <1>3, <2>1 DEF NamesIn
  <2> QED BY <2>1, <2>2 DEF Listing
<1>9. InputsInv' /\ ReviewInv'
  BY <1>1, <1>2, <1>3, <1>8 DEF InputsInv, ReviewInv, NamesIn
<1> QED BY <1>5, <1>6, <1>7, <1>9

LEMMA ManifestAgainStep ==
  ASSUME ReadsInv, ManifestAgain
  PROVE  ReadsInv'
<1> USE DEF ReadsInv
<1>1. /\ UNCHANGED <<folder, dir, manifest, changes, kind, found, todo, looked, declared, got, seen>>
      /\ at = "manifest again" /\ UNCHANGED outside /\ at' = "passed" /\ kind = "review"
  BY DEF ManifestAgain, Goto, outside, WayInv
<1>2. Done' = found /\ Done = found /\ HasBytes' = found /\ HasBytes = found
  BY <1>1 DEF Done, HasBytes
<1>3. ReadsTypeOK' /\ StampInv' /\ WayInv'
  BY <1>1 DEF ReadsTypeOK, StampInv, WayInv, ReadLabels
<1>4. BytesInv'
  BY <1>1, <1>2 DEF BytesInv, NamesIn, StillSame, Stamp, Existing
<1>5. SeenInv' /\ NamesInv'
  BY <1>1, QuietKeeps
<1>6. InputsInv' /\ ReviewInv'
  BY <1>1, <1>2 DEF InputsInv, ReviewInv, NamesIn
<1> QED BY <1>3, <1>4, <1>5, <1>6

-----------------------------------------------------------------------------
(* The theorems *)

LEMMA ReadsBegin ==
  ASSUME ReadsInit
  PROVE  ReadsInv
<1>1. ReadsTypeOK
  BY DEF ReadsInit, ReadsTypeOK, Entry, Versions, Listing, Nothing, Unseen, ReadLabels
<1>2. Done = {} /\ HasBytes = {}
  BY DEF ReadsInit, Done, HasBytes
<1>3. StampInv /\ WayInv
  BY DEF ReadsInit, StampInv, WayInv, Unseen
<1>4. BytesInv /\ SeenInv
  BY <1>2 DEF ReadsInit, BytesInv, SeenInv, NamesIn, Nothing
<1>5. NamesInv /\ InputsInv /\ ReviewInv
  BY <1>2 DEF ReadsInit, NamesInv, InputsInv, ReviewInv
<1> QED BY <1>1, <1>3, <1>4, <1>5 DEF ReadsInv

LEMMA NextInvariant ==
  ASSUME ReadsInv, [ReadsNext]_readsVars
  PROVE  ReadsInv'
<1>1. ASSUME NEW a \in FileNames, WriteFile(a) \/ PutFile(a) \/ RemoveFile(a) PROVE ReadsInv'
  BY <1>1, WriteFileIsOutside, PutFileIsOutside, RemoveFileIsOutside, OutsideKeeps
<1>2. ASSUME MoveDirectory \/ RewriteManifest PROVE ReadsInv'
  BY <1>2, OtherEditIsOutside, OutsideKeeps
<1>3. ASSUME ReaderStep PROVE ReadsInv'
  BY <1>3, RootStep, ListStep, StatStep, OpenStep, ReadStep, CloseStep, RecheckStep, RootAgainStep,
     ListAgainStep, StatAgainStep, ManifestAgainStep DEF ReaderStep
<1>4. ASSUME ReadFails PROVE ReadsInv'
  BY <1>4, FailStep
<1>5. ASSUME UNCHANGED readsVars PROVE ReadsInv'
  <2>1. /\ UNCHANGED <<folder, dir, manifest, changes, kind, at, found, todo, looked, declared, got, seen>>
        /\ UNCHANGED <<Done, HasBytes, Existing>>
    BY <1>5 DEF readsVars, outside, reader, Done, HasBytes, Current, Existing
  <2>2. ReadsTypeOK' /\ StampInv' /\ WayInv' /\ SeenInv' /\ NamesInv'
    BY <2>1 DEF ReadsInv, ReadsTypeOK, StampInv, WayInv, SeenInv, NamesInv, NamesIn, Snapshot
  <2>3. BytesInv'
    BY <2>1 DEF ReadsInv, BytesInv, StillSame, Stamp, NamesIn
  <2>4. InputsInv' /\ ReviewInv'
    <3>1. ASSUME NEW l, NEW as PROVE Agrees(l, as)' <=> Agrees(l, as)
      BY <2>1 DEF Agrees, StillSame, Stamp
    <3>2. InputsInv'
      BY <2>1, <3>1 DEF ReadsInv, InputsInv, NamesIn
    <3>3. ReviewInv'
      BY <2>1, <3>1 DEF ReadsInv, ReviewInv, NamesIn
    <3> QED BY <3>2, <3>3
  <2> QED BY <2>2, <2>3, <2>4 DEF ReadsInv
<1> QED BY <1>1, <1>2, <1>3, <1>4, <1>5 DEF ReadsNext

\* The inductive invariant of the readers, whatever files there are and however often others change them.
THEOREM ReadsInvariance == ReadsSpec => []ReadsInv
<1>1. ReadsInit => ReadsInv
  BY ReadsBegin
<1>2. ReadsInv /\ [ReadsNext]_readsVars => ReadsInv'
  BY NextInvariant
<1> QED BY <1>1, <1>2, PTL DEF ReadsSpec

\* snapshot_input_tree and copy_entry: an input tree that was read without an error was there at one
\* moment, with every file and every name, and no output was added or removed while they were copied.
THEOREM CopiesAreWhole == ReadsSpec => []CopiesHoldStill
<1>1. ReadsInv => CopiesHoldStill
  <2> SUFFICES ASSUME ReadsInv, at = "passed"
               PROVE  /\ kind = "inputs" => got \in seen
                      /\ kind = "outputs" => \A l \in seen : NamesIn(l) = NamesIn(got)
    BY DEF CopiesHoldStill
  <2>1. HasBytes = found
    BY DEF HasBytes, Done
  <2> QED BY <2>1 DEF ReadsInv, BytesInv, InputsInv, NamesInv
<1> QED BY <1>1, ReadsInvariance, PTL

\* Console's review of a delivery: if it passes, then at one moment every declared file was there as it
\* was declared, although each was read at a time of its own.
THEOREM ReviewsAreOfOneMoment == ReadsSpec => []ReviewIsOneMoment
<1>1. ReadsInv => ReviewIsOneMoment
  BY DEF ReadsInv, ReviewInv, ReviewIsOneMoment
<1> QED BY <1>1, ReadsInvariance, PTL
-----------------------------------------------------------------------------
(* The exports of a package *)

USE NamesAssumption, EditsAssumption, RunsAssumption, AbsentAssumption, NoneAssumption, ReceiptsAssumption

\* What a command alone can see and change.
Own(q) == <<pc[q], request[q], loaded[q], files[q], left[q], stat[q], staged[q], basis[q]>>

LEMMA InitInvariant == Init => IInv
<1> SUFFICES ASSUME Init PROVE IInv
  OBVIOUS
<1>1. TypeOK
  BY DEF Init, TypeOK, Packages, Listings, File, Stamps, Requests, Labels, Blank, Names
<1>2. ASSUME NEW p \in Exporters PROVE Local(p)
  BY DEF Init, Local, StatInv, LeftInv, CopyInv, BasisInv, VouchedInv, Copying, Confirmed, Blank
<1>3. OutputInv
  BY DEF Init, OutputInv, Published
<1> QED BY <1>1, <1>2, <1>3 DEF IInv

-----------------------------------------------------------------------------
(* Edits: a file that looks the same is the same. *)

LEMMA EditStep ==
  ASSUME IInv, NEW e \in Names, Edit(e)
  PROVE  IInv'
<1> USE DEF IInv
<1>1. TypeOK'
  <2>1. edits' \in 0..MaxEdits /\ edits' = edits + 1 /\ edits \in Nat
    BY DEF Edit, TypeOK
  <2>2. tree' \in [Names -> File \cup {Absent}]
    BY <2>1 DEF Edit, TypeOK, File, Stamps
  <2>3. \A f \in Names : tree'[f] # Absent => tree'[f].stamp \in 0..edits'
    BY <2>1 DEF Edit, TypeOK
  <2> QED BY <2>1, <2>2, <2>3 DEF Edit, TypeOK, private
<1>2. ASSUME NEW p \in Exporters, NEW f \in Names, IsSame(p, f)'
      PROVE  IsSame(p, f) /\ tree'[f] = tree[f]
  <2>1. stat'[p][f] = stat[p][f] /\ stat[p][f] \in 0..edits /\ edits \in Nat
    BY DEF Edit, private, Local, StatInv, TypeOK
  <2>2. tree'[f] # Absent /\ tree'[f].stamp = stat[p][f]
    BY <2>1, <1>2 DEF IsSame, Present, NamesOf
  <2>3. f # e
    BY <2>1, <2>2 DEF Edit, TypeOK
  <2>4. tree'[f] = tree[f]
    BY <2>3 DEF Edit, TypeOK
  <2> QED BY <2>1, <2>2, <2>4 DEF IsSame, Present, NamesOf
<1>3. ASSUME NEW p \in Exporters PROVE Local(p)'
  <2>1. Local(p) /\ TypeOK /\ edits \in Nat /\ edits' = edits + 1
    BY DEF Edit, TypeOK
  <2>2. UNCHANGED <<pc, request, loaded, files, left, stat, staged, basis>>
    BY DEF Edit, private
  <2>3. StatInv(p)' /\ LeftInv(p)' /\ VouchedInv(p)'
    <3>1. \A f \in Names : stat'[p][f] \in 0..edits'
      BY <2>1, <2>2 DEF Local, StatInv
    <3> QED BY <2>1, <2>2, <3>1 DEF Local, StatInv, LeftInv, VouchedInv
  <2>4. CopyInv(p)'
    BY <2>1, <2>2, <1>2 DEF Local, CopyInv, Blank
  <2>5. BasisInv(p)'
    <3>1. files[p] \subseteq Names
      BY <2>1 DEF TypeOK
    <3> QED BY <2>1, <2>2, <1>2, <3>1 DEF Local, BasisInv
  <2> QED BY <2>3, <2>4, <2>5 DEF Local
<1>4. OutputInv'
  BY DEF Edit, private, OutputInv, Published, ExportIsCurrent, ReceiptVouches, NamesOf
<1> QED BY <1>1, <1>3, <1>4 DEF IInv

-----------------------------------------------------------------------------
(* Steps of a command *)

\* No other command notices.
LEMMA OthersKeep ==
  ASSUME NEW q \in Exporters, Local(q), UNCHANGED <<tree, edits>>, Own(q)' = Own(q)
  PROVE  Local(q)'
<1>1. /\ pc'[q] = pc[q] /\ request'[q] = request[q] /\ files'[q] = files[q] /\ left'[q] = left[q]
      /\ stat'[q] = stat[q] /\ staged'[q] = staged[q] /\ basis'[q] = basis[q]
  BY DEF Own
<1>2. \A f \in Names : IsSame(q, f)' <=> IsSame(q, f)
  BY <1>1 DEF IsSame, Present, NamesOf
<1>3. \A f : f \in files[q] => (IsSame(q, f)' <=> IsSame(q, f))
  BY <1>1 DEF IsSame, Present, NamesOf
<1> QED BY <1>1, <1>2, <1>3 DEF Local, StatInv, LeftInv, CopyInv, BasisInv, VouchedInv, Blank

\* A step that publishes nothing keeps what is said of the destination.
LEMMA OutputKept ==
  ASSUME TypeOK, OutputInv, NEW p \in Exporters, pc[p] # "done", output' = output,
         \A q \in Exporters \ {p} : Own(q)' = Own(q)
  PROVE  OutputInv'
<1> SUFFICES ASSUME Published PROVE OutputInv'
  BY DEF OutputInv, Published
<1>1. output.by \in Exporters \ {p} /\ pc[output.by] = "done"
  BY DEF OutputInv, TypeOK, Published
<1>2. Own(output.by)' = Own(output.by)
  BY <1>1
<1>3. /\ pc'[output.by] = pc[output.by] /\ request'[output.by] = request[output.by]
      /\ basis'[output.by] = basis[output.by]
  BY <1>2 DEF Own
<1> QED BY <1>1, <1>3 DEF OutputInv, Published, ExportIsCurrent, ReceiptVouches, NamesOf

\* Going on to the next file keeps the types of what it changes.
LEMMA VisitTypes ==
  ASSUME TypeOK, NEW p \in Exporters, NEW f, NEW here \in Labels, NEW next \in Labels,
         Visit(p, f, here, next)
  PROVE  /\ f \in left[p] /\ f \in files[p] /\ f \in Names
         /\ pc' \in [Exporters -> Labels]
         /\ left' \in [Exporters -> SUBSET Names]
         /\ \A q \in Exporters : left'[q] \subseteq files[q]
         /\ \A q \in Exporters \ {p} : pc'[q] = pc[q] /\ left'[q] = left[q]
         /\ pc[p] = here
<1>1. f \in left[p] /\ left[p] \subseteq files[p] /\ files[p] \subseteq Names
  BY DEF Visit, TypeOK
<1>2. left' = [left EXCEPT ![p] = IF left[p] = {f} THEN files[p] ELSE left[p] \ {f}]
  BY DEF Visit
<1>3. \A q \in Exporters : left'[q] = IF q = p THEN (IF left[p] = {f} THEN files[p] ELSE left[p] \ {f}) ELSE left[q]
  BY <1>2 DEF TypeOK
<1>4. left' \in [Exporters -> SUBSET Names]
  BY <1>1, <1>2 DEF TypeOK
<1>5. \A q \in Exporters : left'[q] \subseteq files[q]
  BY <1>1, <1>3 DEF TypeOK
<1>6. pc' \in [Exporters -> Labels] /\ (\A q \in Exporters \ {p} : pc'[q] = pc[q]) /\ pc[p] = here
  BY DEF Visit, Move, TypeOK
<1> QED BY <1>1, <1>3, <1>4, <1>5, <1>6

LEMMA ForgetTypes ==
  ASSUME TypeOK, NEW p \in Exporters, Forget(p)
  PROVE  /\ loaded' \in [Exporters -> Contents \cup {None}]
         /\ files' \in [Exporters -> SUBSET Names]
         /\ left' \in [Exporters -> SUBSET Names]
         /\ \A q \in Exporters : left'[q] \subseteq files'[q]
         /\ stat' \in [Exporters -> [Names -> Stamps]]
         /\ staged' \in [Exporters -> Listings]
         /\ \A q \in Exporters \ {p} : /\ loaded'[q] = loaded[q] /\ files'[q] = files[q] /\ left'[q] = left[q]
                                       /\ stat'[q] = stat[q] /\ staged'[q] = staged[q]
<1>1. Blank \in Listings
  BY DEF Blank, Listings
<1>2. [f \in Names |-> 0] \in [Names -> Stamps]
  BY DEF Stamps
<1>3. loaded' \in [Exporters -> Contents \cup {None}] /\ files' \in [Exporters -> SUBSET Names]
      /\ left' \in [Exporters -> SUBSET Names]
  BY DEF Forget, TypeOK
<1>4. stat' \in [Exporters -> [Names -> Stamps]]
  BY <1>2 DEF Forget, TypeOK
<1>5. staged' \in [Exporters -> Listings]
  BY <1>1 DEF Forget, TypeOK
<1>6. \A q \in Exporters \ {p} : /\ loaded'[q] = loaded[q] /\ files'[q] = files[q] /\ left'[q] = left[q]
                                /\ stat'[q] = stat[q] /\ staged'[q] = staged[q]
  BY DEF Forget, TypeOK
<1>7. files'[p] = {} /\ left'[p] = {}
  BY DEF Forget, TypeOK
<1>8. \A q \in Exporters : left'[q] \subseteq files'[q]
  BY <1>6, <1>7 DEF TypeOK
<1> QED BY <1>3, <1>4, <1>5, <1>6, <1>8

LEMMA StepTypes ==
  ASSUME TypeOK, NEW p \in Exporters, Step(p)
  PROVE  /\ TypeOK'
         /\ UNCHANGED <<tree, edits>>
         /\ \A q \in Exporters \ {p} : Own(q)' = Own(q)
         /\ pc[p] # "done"
<1>1. CASE Load(p)
  <2>1. PICK r \in Requests :
          /\ request' = [request EXCEPT ![p] = r]
          /\ Move(p, "idle", IF r.receipt # None THEN "parse" ELSE IF r.agent THEN "reserve" ELSE "select")
    BY <1>1 DEF Load
  <2>2. tree[Workflow].is \in Contents
    BY <1>1 DEF Load, TypeOK, Present, NamesOf, File, Names
  <2>3. loaded' \in [Exporters -> Contents \cup {None}] /\ request' \in [Exporters -> Requests]
    BY <1>1, <2>1, <2>2 DEF Load, TypeOK
  <2>4. pc' \in [Exporters -> Labels] /\ pc[p] = "idle"
    BY <2>1 DEF Move, TypeOK, Labels
  <2>5. \A q \in Exporters \ {p} : pc'[q] = pc[q] /\ request'[q] = request[q] /\ loaded'[q] = loaded[q]
    BY <1>1, <2>1 DEF Load, Move, TypeOK
  <2>6. UNCHANGED <<tree, edits, output, files, left, stat, staged, basis>>
    BY <1>1, <2>1 DEF Load, Move
  <2> QED BY <2>3, <2>4, <2>5, <2>6 DEF TypeOK, Own
<1>2. CASE Parse(p)
  BY <1>2 DEF Parse, TypeOK, Labels, Own, Move
<1>3. CASE Reserve(p)
  BY <1>3 DEF Reserve, TypeOK, Labels, Own, Move
<1>4. CASE SelectFiles(p)
  BY <1>4 DEF SelectFiles, Selected, Present, NamesOf, TypeOK, Labels, Own, Move
<1>5. CASE Capture(p)
  <2>1. PICK f \in Present : /\ Visit(p, f, "capture", IF Layered(p) THEN "copy" ELSE "reserve")
                             /\ stat' = [stat EXCEPT ![p][f] = tree[f].stamp]
    BY <1>5 DEF Capture
  <2>2. Visit(p, f, "capture", "copy") \/ Visit(p, f, "capture", "reserve")
    BY <2>1
  <2>3. "capture" \in Labels /\ "copy" \in Labels /\ "reserve" \in Labels
    BY DEF Labels
  <2>4. /\ f \in Names /\ pc' \in [Exporters -> Labels] /\ left' \in [Exporters -> SUBSET Names]
        /\ \A q \in Exporters : left'[q] \subseteq files[q]
        /\ \A q \in Exporters \ {p} : pc'[q] = pc[q] /\ left'[q] = left[q]
        /\ pc[p] = "capture"
    BY <2>2, <2>3, VisitTypes
  <2>5. tree[f].stamp \in Stamps
    BY <2>1, <2>4 DEF TypeOK, Present, NamesOf, File
  <2>6. stat' \in [Exporters -> [Names -> Stamps]] /\ \A q \in Exporters \ {p} : stat'[q] = stat[q]
    BY <2>1, <2>4, <2>5 DEF TypeOK
  <2>7. UNCHANGED <<tree, edits, output, request, loaded, files, staged, basis>>
    BY <1>5, <2>1 DEF Capture, Visit, Move
  <2> QED BY <2>4, <2>6, <2>7 DEF TypeOK, Own
<1>6. CASE Copy(p)
  <2>1. PICK f \in Present : /\ Visit(p, f, "copy", "check")
                             /\ staged' = [staged EXCEPT ![p][f] = tree[f].is]
    BY <1>6 DEF Copy
  <2>3. "copy" \in Labels /\ "check" \in Labels
    BY DEF Labels
  <2>4. /\ f \in Names /\ pc' \in [Exporters -> Labels] /\ left' \in [Exporters -> SUBSET Names]
        /\ \A q \in Exporters : left'[q] \subseteq files[q]
        /\ \A q \in Exporters \ {p} : pc'[q] = pc[q] /\ left'[q] = left[q]
        /\ pc[p] = "copy"
    BY <2>1, <2>3, VisitTypes
  <2>5. tree[f].is \in Contents
    BY <2>1, <2>4 DEF TypeOK, Present, NamesOf, File
  <2>6. staged' \in [Exporters -> Listings] /\ \A q \in Exporters \ {p} : staged'[q] = staged[q]
    BY <2>1, <2>4, <2>5 DEF TypeOK, Listings
  <2>7. UNCHANGED <<tree, edits, output, request, loaded, files, stat, basis>>
    BY <1>6, <2>1 DEF Copy, Visit, Move
  <2> QED BY <2>4, <2>6, <2>7 DEF TypeOK, Own
<1>7. CASE Check(p)
  <2>1. PICK f \in Present : Visit(p, f, "check", "validate") \/ Visit(p, f, "check again", "select again")
    BY <1>7 DEF Check
  <2>3. {"check", "validate", "check again", "select again"} \subseteq Labels
    BY DEF Labels
  <2>4. /\ f \in Names /\ pc' \in [Exporters -> Labels] /\ left' \in [Exporters -> SUBSET Names]
        /\ \A q \in Exporters : left'[q] \subseteq files[q]
        /\ \A q \in Exporters \ {p} : pc'[q] = pc[q] /\ left'[q] = left[q]
        /\ pc[p] \in {"check", "check again"}
    BY <2>1, <2>3, VisitTypes
  <2>7. UNCHANGED <<tree, edits, output, request, loaded, files, stat, staged, basis>>
    BY <1>7, <2>1 DEF Check, Visit, Move
  <2> QED BY <2>4, <2>7 DEF TypeOK, Own
<1>8. CASE Validate(p)
  BY <1>8 DEF Validate, Holding, Listings, File, TypeOK, Labels, Own, Move
<1>9. CASE SelectAgain(p)
  BY <1>9 DEF SelectAgain, TypeOK, Labels, Own, Move
<1>10. CASE Compare(p)
  BY <1>10 DEF Compare, TypeOK, Labels, Own, Move
<1>11. CASE LastLook(p)
  BY <1>11 DEF LastLook, TypeOK, Labels, Own, Move
<1>12. CASE Publish(p)
  <2>1. Forget(p) /\ UNCHANGED <<tree, edits, request, basis>> /\ pc[p] = "publish"
    BY <1>12 DEF Publish, Move
  <2>2. pc' \in [Exporters -> Labels] /\ \A q \in Exporters \ {p} : pc'[q] = pc[q]
    BY <1>12 DEF Publish, Move, TypeOK, Labels
  <2>3. output' \in [by : Exporters, holds : Listings]
    BY <1>12 DEF Publish, TypeOK
  <2> QED BY <2>1, <2>2, <2>3, ForgetTypes DEF TypeOK, Own
<1>13. CASE Stop(p)
  <2>1. Forget(p) /\ UNCHANGED <<tree, edits, output>> /\ pc[p] # "done"
    BY <1>13 DEF Stop, disk
  <2>2. pc' \in [Exporters -> Labels] /\ \A q \in Exporters \ {p} : pc'[q] = pc[q]
    BY <1>13 DEF Stop, TypeOK, Labels
  <2>3. request' \in [Exporters -> Requests] /\ \A q \in Exporters \ {p} : request'[q] = request[q]
    BY <1>13 DEF Stop, TypeOK, Requests
  <2>4. basis' \in [Exporters -> Listings] /\ \A q \in Exporters \ {p} : basis'[q] = basis[q]
    BY <1>13 DEF Stop, TypeOK, Listings, Blank
  <2> QED BY <2>1, <2>2, <2>3, <2>4, ForgetTypes DEF TypeOK, Own
<1> QED BY <1>1, <1>2, <1>3, <1>4, <1>5, <1>6, <1>7, <1>8, <1>9, <1>10, <1>11, <1>12, <1>13 DEF Step
-----------------------------------------------------------------------------
(* What a command knows of its copy *)

\* One more file: what Visit does to the place and to what is left.
LEMMA VisitEffect ==
  ASSUME TypeOK, NEW p \in Exporters, NEW f, NEW here, NEW next, Visit(p, f, here, next)
  PROVE  \/ left[p] = {f} /\ pc'[p] = next /\ left'[p] = files[p]
         \/ left[p] # {f} /\ pc'[p] = here /\ left'[p] = left[p] \ {f}
  BY DEF Visit, Move, TypeOK

\* Steps before the first file is copied.
LEMMA SelectionStep ==
  ASSUME TypeOK, NEW p \in Exporters, Local(p),
         Load(p) \/ Parse(p) \/ Reserve(p) \/ SelectFiles(p)
  PROVE  Local(p)'
<1>1. /\ pc[p] \in {"idle", "parse", "reserve", "select"}
      /\ pc'[p] \in {"parse", "reserve", "select", "capture", "copy"}
      /\ staged' = staged /\ stat' = stat /\ edits' = edits
  BY DEF Load, Parse, Reserve, SelectFiles, Move, TypeOK
<1>2. staged[p] = Blank /\ left[p] = files[p]
  BY <1>1 DEF Local, CopyInv, LeftInv, Copying
<1>3. left'[p] = files'[p]
  BY <1>2 DEF Load, Parse, Reserve, SelectFiles, TypeOK
<1>4. StatInv(p)' /\ LeftInv(p)' /\ BasisInv(p)' /\ VouchedInv(p)'
  BY <1>1, <1>3 DEF Local, StatInv, LeftInv, BasisInv, VouchedInv, Confirmed
<1>5. CopyInv(p)'
  BY <1>1, <1>2, <1>3 DEF CopyInv, Blank, Copying
<1> QED BY <1>4, <1>5 DEF Local

LEMMA CaptureStep ==
  ASSUME TypeOK, NEW p \in Exporters, Local(p), Capture(p)
  PROVE  Local(p)'
<1>1. PICK f \in Present : /\ Visit(p, f, "capture", IF Layered(p) THEN "copy" ELSE "reserve")
                           /\ stat' = [stat EXCEPT ![p][f] = tree[f].stamp]
  BY DEF Capture
<1>2. /\ staged' = staged /\ edits' = edits /\ tree' = tree /\ files' = files
      /\ pc[p] = "capture" /\ f \in Names
  BY <1>1 DEF Capture, Visit, Move, Present, NamesOf
<1>3. \/ pc'[p] \in {"copy", "reserve"} /\ left'[p] = files[p]
      \/ pc'[p] = "capture"
  BY <1>1, VisitEffect
<1>4. StatInv(p)'
  <2>1. tree[f].stamp \in 0..edits
    BY <1>1, <1>2 DEF TypeOK, Present, NamesOf
  <2> QED BY <1>1, <1>2, <2>1 DEF Local, StatInv, TypeOK
<1>5. LeftInv(p)' /\ BasisInv(p)' /\ VouchedInv(p)'
  BY <1>2, <1>3 DEF LeftInv, BasisInv, VouchedInv, Confirmed
<1>6. staged'[p] = Blank
  BY <1>2 DEF Local, CopyInv, Copying
<1>7. CopyInv(p)'
  BY <1>2, <1>3, <1>6 DEF CopyInv, Blank, Copying
<1> QED BY <1>4, <1>5, <1>7 DEF Local

LEMMA CopyStep ==
  ASSUME TypeOK, NEW p \in Exporters, Local(p), Copy(p)
  PROVE  Local(p)'
<1>1. PICK f \in Present : /\ Visit(p, f, "copy", "check")
                           /\ staged' = [staged EXCEPT ![p][f] = tree[f].is]
  BY DEF Copy
<1>2. /\ stat' = stat /\ edits' = edits /\ tree' = tree /\ files' = files
      /\ pc[p] = "copy" /\ f \in Names /\ f \in left[p] /\ left[p] \subseteq files[p]
  BY <1>1 DEF Copy, Visit, Move, Present, NamesOf, TypeOK
<1>3. \/ left[p] = {f} /\ pc'[p] = "check" /\ left'[p] = files[p]
      \/ pc'[p] = "copy" /\ left'[p] = left[p] \ {f}
  BY <1>1, VisitEffect
<1>4. \A g \in Names : staged'[p][g] = IF g = f THEN tree[f].is ELSE staged[p][g]
  BY <1>1, <1>2 DEF TypeOK, Listings
<1>5. StatInv(p)' /\ LeftInv(p)' /\ BasisInv(p)' /\ VouchedInv(p)'
  BY <1>2, <1>3 DEF Local, StatInv, LeftInv, BasisInv, VouchedInv, Confirmed
<1>6. ASSUME NEW g \in Names
      PROVE  /\ g \notin files'[p] \/ (pc'[p] = "copy" /\ g \in left'[p]) => staged'[p][g] = Absent
             /\ g \in files'[p] /\ ~(pc'[p] = "copy" /\ g \in left'[p]) /\ IsSame(p, g)' => staged'[p][g] = tree'[g].is
  <2>1. IsSame(p, g)' <=> IsSame(p, g)
    BY <1>2 DEF IsSame, Present, NamesOf
  <2>2. CASE g = f
    BY <1>2, <1>3, <1>4, <2>2
  <2>3. CASE g # f
    <3>1. staged'[p][g] = staged[p][g]
      BY <1>4, <2>3
    <3>2. pc'[p] = "copy" /\ g \in left'[p] <=> g \in left[p]
      BY <1>3, <2>3
    <3> QED BY <1>2, <2>1, <3>1, <3>2 DEF Local, CopyInv, Copying
  <2> QED BY <2>2, <2>3
<1>7. pc'[p] \in Copying
  BY <1>3 DEF Copying
<1>8. CopyInv(p)'
  BY <1>6, <1>7 DEF CopyInv
<1> QED BY <1>5, <1>8 DEF Local

LEMMA CheckStep ==
  ASSUME TypeOK, NEW p \in Exporters, Local(p), Check(p)
  PROVE  Local(p)'
<1>1. PICK f \in Present : /\ IsSame(p, f)
                           /\ Visit(p, f, "check", "validate") \/ Visit(p, f, "check again", "select again")
  BY DEF Check
<1>2. /\ UNCHANGED <<tree, edits, request, files, stat, staged, basis>>
      /\ f \in left[p] /\ left[p] \subseteq files[p] /\ files[p] \subseteq Names
  BY <1>1 DEF Check, Visit, Move, TypeOK
<1>3. \/ pc[p] = "check" /\ pc'[p] = "check"
      \/ pc[p] = "check" /\ pc'[p] = "validate" /\ left'[p] = files[p]
      \/ pc[p] = "check again" /\ pc'[p] = "check again" /\ left'[p] = left[p] \ {f}
      \/ pc[p] = "check again" /\ pc'[p] = "select again" /\ left[p] = {f}
  BY <1>1, VisitEffect DEF Visit, Move
<1>4. \A g \in Names : IsSame(p, g)' <=> IsSame(p, g)
  BY <1>2 DEF IsSame, Present, NamesOf
<1>5. StatInv(p)' /\ LeftInv(p)' /\ VouchedInv(p)'
  BY <1>2, <1>3 DEF Local, StatInv, LeftInv, VouchedInv
<1>6. CopyInv(p)'
  BY <1>2, <1>3, <1>4 DEF Local, CopyInv, Copying, Blank
<1>7. BasisInv(p)'
  <2>1. CASE pc[p] = "check"
    BY <1>3, <2>1 DEF BasisInv, Confirmed
  <2>2. CASE pc[p] = "check again"
    <3>1. basis[p][f] = staged[p][f]
      <4>1. \A g \in files[p] : IsSame(p, g) \/ g \notin left[p] => basis[p][g] = staged[p][g]
        BY <2>2 DEF Local, BasisInv
      <4>2. f \in files[p] /\ IsSame(p, f)
        BY <1>1, <1>2
      <4> QED BY <4>1, <4>2
    <3>2. \A g \in files[p] : g # f => (g \notin left[p] => basis[p][g] = staged[p][g])
      BY <2>2 DEF Local, BasisInv
    <3>3. \A g \in files[p] : IsSame(p, g) => basis[p][g] = staged[p][g]
      BY <2>2 DEF Local, BasisInv
    <3> QED BY <1>2, <1>3, <1>4, <2>2, <3>1, <3>2, <3>3 DEF BasisInv, Confirmed
  <2> QED BY <1>3, <2>1, <2>2
<1> QED BY <1>5, <1>6, <1>7 DEF Local

LEMMA ValidateStep ==
  ASSUME TypeOK, NEW p \in Exporters, Local(p), Validate(p)
  PROVE  Local(p)'
<1>1. /\ UNCHANGED <<tree, edits, request, files, left, stat, staged>>
      /\ pc[p] = "validate" /\ pc'[p] = "check again" /\ basis'[p] = Holding
      /\ left[p] = files[p] /\ files[p] \subseteq Names
  BY DEF Validate, Move, TypeOK, Local, LeftInv
<1>2. \A g \in Names : IsSame(p, g)' <=> IsSame(p, g)
  BY <1>1 DEF IsSame, Present, NamesOf
<1>3. \A g \in Names : IsSame(p, g) => basis'[p][g] = tree[g].is
  BY <1>1 DEF Holding, IsSame, Present, NamesOf
<1>4. StatInv(p)' /\ LeftInv(p)' /\ VouchedInv(p)'
  BY <1>1 DEF Local, StatInv, LeftInv, VouchedInv
<1>5. CopyInv(p)'
  BY <1>1, <1>2 DEF Local, CopyInv, Copying, Blank
<1>6. BasisInv(p)'
  <2>1. \A g \in files[p] : IsSame(p, g) => staged[p][g] = tree[g].is
    BY <1>1 DEF Local, CopyInv, Copying
  <2> QED BY <1>1, <1>2, <1>3, <2>1 DEF BasisInv, Confirmed
<1> QED BY <1>4, <1>5, <1>6 DEF Local

\* Steps that only look.
LEMMA ComparisonStep ==
  ASSUME TypeOK, NEW p \in Exporters, Local(p),
         SelectAgain(p) \/ Compare(p) \/ LastLook(p)
  PROVE  Local(p)'
<1>1. /\ UNCHANGED <<tree, edits, request, files, left, stat, staged, basis>>
      /\ pc[p] \in {"select again", "compare", "last look"}
      /\ pc'[p] \in {"compare", "last look", "publish"}
  BY DEF SelectAgain, Compare, LastLook, Move, TypeOK
<1>2. \A g \in Names : IsSame(p, g)' <=> IsSame(p, g)
  BY <1>1 DEF IsSame, Present, NamesOf
<1>3. StatInv(p)' /\ LeftInv(p)' /\ BasisInv(p)'
  BY <1>1 DEF Local, StatInv, LeftInv, BasisInv, Confirmed
<1>4. CopyInv(p)'
  BY <1>1, <1>2 DEF Local, CopyInv, Copying, Blank
<1>5. VouchedInv(p)'
  <2>1. CASE SelectAgain(p)
    BY <2>1 DEF SelectAgain, Move, Layered, TypeOK, VouchedInv
  <2>2. CASE Compare(p)
    BY <2>2 DEF Compare, Move, VouchedInv
  <2>3. CASE LastLook(p)
    BY <2>3 DEF LastLook, Move, Local, VouchedInv
  <2> QED BY <2>1, <2>2, <2>3
<1> QED BY <1>3, <1>4, <1>5 DEF Local

LEMMA EndStep ==
  ASSUME TypeOK, NEW p \in Exporters, Local(p), Publish(p) \/ Stop(p)
  PROVE  Local(p)'
<1>1. Forget(p) /\ pc'[p] \in {"done", "failed"} /\ edits' = edits
  BY DEF Publish, Stop, Move, TypeOK, disk
<1>2. stat'[p] = [f \in Names |-> 0] /\ staged'[p] = Blank
  BY <1>1 DEF Forget, TypeOK
<1>3. StatInv(p)'
  <2>1. edits \in Nat
    BY DEF TypeOK
  <2> QED BY <1>1, <1>2, <2>1 DEF StatInv
<1>4. LeftInv(p)' /\ BasisInv(p)' /\ VouchedInv(p)'
  BY <1>1 DEF LeftInv, BasisInv, VouchedInv, Confirmed
<1>5. CopyInv(p)'
  <2>1. \A f \in Names : staged'[p][f] = Absent
    BY <1>2 DEF Blank
  <2> QED BY <1>1, <1>2, <2>1 DEF CopyInv, Copying, Blank
<1> QED BY <1>3, <1>4, <1>5 DEF Local

LEMMA LocalStep ==
  ASSUME TypeOK, NEW p \in Exporters, Local(p), Step(p)
  PROVE  Local(p)'
  BY SelectionStep, CaptureStep, CopyStep, CheckStep, ValidateStep, ComparisonStep, EndStep DEF Step

-----------------------------------------------------------------------------
(* The destination *)

LEMMA OutputStep ==
  ASSUME IInv, NEW p \in Exporters, Step(p)
  PROVE  OutputInv'
<1>1. TypeOK /\ OutputInv /\ Local(p)
  BY DEF IInv
<1>2. pc[p] # "done" /\ \A q \in Exporters \ {p} : Own(q)' = Own(q)
  BY <1>1, StepTypes
<1>3. CASE output' = output
  BY <1>1, <1>2, <1>3, OutputKept
<1>4. CASE output' # output
  <2>1. Publish(p)
    BY <1>4 DEF Step, Load, Parse, Reserve, SelectFiles, Capture, Copy, Check, Validate, SelectAgain,
                Compare, LastLook, Stop, disk
  <2>2. /\ output' = [by |-> p, holds |-> staged[p]] /\ basis' = basis /\ request' = request
        /\ pc[p] = "publish" /\ pc'[p] = "done"
    BY <1>1, <2>1 DEF Publish, Move, TypeOK
  <2>3. \A f \in NamesOf(staged[p]) : basis[p][f] = staged[p][f]
    BY <1>1, <2>2 DEF Local, CopyInv, BasisInv, Confirmed, NamesOf
  <2>4. request[p].receipt # None => staged[p] = request[p].receipt
    BY <1>1, <2>2 DEF Local, VouchedInv
  <2>5. ExportIsCurrent'
    BY <2>2, <2>3 DEF ExportIsCurrent, NamesOf
  <2>6. ReceiptVouches'
    BY <2>2, <2>4 DEF ReceiptVouches
  <2> QED BY <2>2, <2>5, <2>6 DEF OutputInv
<1> QED BY <1>3, <1>4

-----------------------------------------------------------------------------
(* Theorems *)

\* The inductive invariant: what every command knows of its copy, and that nobody replaces the output.
THEOREM ExportInvariance == Spec => []IInv
<1>1. ASSUME IInv, [Next]_vars PROVE IInv'
  <2>1. ASSUME NEW f \in Names, Edit(f) PROVE IInv'
    BY <1>1, <2>1, EditStep
  <2>2. ASSUME NEW p \in Exporters, Step(p) PROVE IInv'
    <3>1. TypeOK' /\ UNCHANGED <<tree, edits>> /\ \A q \in Exporters \ {p} : Own(q)' = Own(q)
      BY <1>1, <2>2, StepTypes DEF IInv
    <3>2. \A q \in Exporters \ {p} : Local(q)'
      BY <1>1, <3>1, OthersKeep DEF IInv
    <3>3. Local(p)'
      BY <1>1, <2>2, LocalStep DEF IInv
    <3>4. OutputInv'
      BY <1>1, <2>2, OutputStep
    <3> QED BY <3>1, <3>2, <3>3, <3>4 DEF IInv
  <2>3. CASE UNCHANGED vars
    <3>1. UNCHANGED <<tree, edits, output, pc, request, loaded, files, left, stat, staged, basis>>
      BY <2>3 DEF vars, disk, private
    <3>2. TypeOK'
      BY <1>1, <3>1 DEF IInv, TypeOK
    <3>3. \A q \in Exporters : Own(q)' = Own(q)
      BY <3>1 DEF Own
    <3>4. \A q \in Exporters : Local(q)'
      BY <1>1, <3>1, <3>3, OthersKeep DEF IInv
    <3>5. OutputInv'
      BY <1>1, <3>1 DEF IInv, OutputInv, Published, ExportIsCurrent, ReceiptVouches, NamesOf
    <3> QED BY <3>2, <3>4, <3>5 DEF IInv
  <2> QED BY <1>1, <2>1, <2>2, <2>3 DEF Next
<1> QED BY <1>1, InitInvariant, PTL DEF Spec

\* What is published was the package at one moment after the copy had been validated, whatever was
\* edited before, meanwhile and since.
THEOREM ExportsAreCurrent == Spec => []ExportIsCurrent
<1>1. IInv => ExportIsCurrent
  BY DEF IInv, OutputInv, ExportIsCurrent
<1> QED BY <1>1, ExportInvariance, PTL

\* An export that refers to a Receipt is the package the Receipt vouches for, file by file.
THEOREM ReceiptsVouch == Spec => []ReceiptVouches
<1>1. IInv => ReceiptVouches
  BY DEF IInv, OutputInv, ReceiptVouches
<1> QED BY <1>1, ExportInvariance, PTL
=============================================================================
