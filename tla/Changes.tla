------------------------------ MODULE Changes ------------------------------
(***************************************************************************)
(* How a recording turns what the poller saw into file changes, and merges *)
(* them with the events of the terminal.  Paths are numbers in the order   *)
(* of their names; the root of the workspace is 0.                         *)
(***************************************************************************)
EXTENDS Naturals, Sequences, FiniteSets, SequencesExt

CONSTANT Absent     \* the content of a path at which there is no file

\* The elements of a finite set in a total order of them.
InOrder(S, Before(_, _)) ==
  [k \in 1..Cardinality(S) |-> CHOOSE x \in S : Cardinality({y \in S : Before(y, x)}) = k - 1]

\* sort_by: a sequence in order, with what is equal left as it came.
InStableOrder(s, Before(_, _)) ==
  LET Earlier(i, j) == Before(s[i], s[j]) \/ (i < j /\ ~Before(s[j], s[i]))
      order         == InOrder(DOMAIN s, Earlier)
  IN [k \in DOMAIN order |-> s[order[k]]]

Root   == 0
NoPath == 0

KindRank(kind) ==
  CASE kind = "created"  -> 1
    [] kind = "modified" -> 2
    [] kind = "moved"    -> 3
    [] OTHER             -> 4

\* change_for_path reads the file when the event is adapted, not when it was seen.
ChangeFor(kind, path, previous, disk) ==
  [kind |-> kind, path |-> path, previous |-> previous,
   content |-> IF kind = "deleted" THEN Absent ELSE disk[path]]

PathsOf(events, kind) ==
  LET chosen == InOrder({i \in DOMAIN events : events[i].kind = kind}, LAMBDA i, j : i < j)
  IN [k \in DOMAIN chosen |-> events[chosen[k]].path]

\* Rename halves are paired in the order they came.  Of what is left over, the loop that pairs them
\* has taken the first one and lost it; the others are deletions or creations.
PairedHalves(from, to, disk) ==
  LET both == DOMAIN from \cap DOMAIN to
      rest(halves) == {i \in DOMAIN halves : i > Cardinality(both) + 1}
  IN {ChangeFor("moved", to[i], from[i], disk) : i \in both}
     \cup {ChangeFor("deleted", from[i], NoPath, disk) : i \in rest(from)}
     \cup {ChangeFor("created", to[i], NoPath, disk) : i \in rest(to)}

\* A rename without a direction: what exists now is its end.
UndirectedRenames(paths, disk) ==
  LET to   == {i \in DOMAIN paths : disk[paths[i]] # Absent}
      from == DOMAIN paths \ to
  IN IF Cardinality(to) = 1 /\ Cardinality(from) = 1
     THEN {ChangeFor("moved", paths[t], paths[f], disk) : t \in to, f \in from}
     ELSE {ChangeFor("deleted", paths[f], NoPath, disk) : f \in from}
          \cup {ChangeFor("created", paths[t], NoPath, disk) : t \in to}

OfKind(changes, kind) == {c \in changes : c.kind = kind}

\* infer_single_poll_rename: one creation and one deletion, elsewhere, are a move.
InferRename(changes) ==
  LET created == OfKind(changes, "created")
      deleted == OfKind(changes, "deleted")
  IN IF OfKind(changes, "moved") = {} /\ Cardinality(created) = 1 /\ Cardinality(deleted) = 1
     THEN LET c == CHOOSE x \in created : TRUE
              d == CHOOSE x \in deleted : TRUE
          IN IF c.path = d.path THEN changes
             ELSE (changes \ {c, d}) \cup {[c EXCEPT !.kind = "moved", !.previous = d.path]}
     ELSE changes

DropAnyModified(changes) ==   \* mutant
  IF OfKind(changes, "created") \cup OfKind(changes, "moved") = {} THEN changes
  ELSE {c \in changes : c.kind # "modified"}
\* A path that was created or moved is not also modified.
DropModified(changes) ==
  LET structural == {c.path : c \in OfKind(changes, "created") \cup OfKind(changes, "moved")}
  IN {c \in changes : c.kind = "modified" => c.path \notin structural}

\* FilesystemChange::cmp
ChangeBefore(a, b) ==
  \/ a.path < b.path
  \/ a.path = b.path /\ KindRank(a.kind) < KindRank(b.kind)
  \/ a.path = b.path /\ a.kind = b.kind /\ a.previous < b.previous

\* What a batch of events says of the files, but for the root of the workspace.
Noticed(events, disk) ==
  LET plain(kind, name) == {ChangeFor(name, p, NoPath, disk) : p \in ToSet(PathsOf(events, kind))}
      noticed == plain("create", "created") \cup plain("modify", "modified")
                 \cup plain("remove", "deleted")
                 \cup PairedHalves(PathsOf(events, "from"), PathsOf(events, "to"), disk)
                 \cup UndirectedRenames(PathsOf(events, "any"), disk)
  IN {c \in noticed : ~(c.kind = "modified" /\ c.path = Root)}

\* adapt_events: the changes of one batch, in the order of their paths.
Adapt(events, disk) == InOrder(DropModified(InferRename(Noticed(events, disk))), ChangeBefore)

\* reconcile_kind: a creation of a known path is a modification.
Reconciled(change, known) ==
  IF change.kind = "created" /\ change.path \in known
  THEN [change EXCEPT !.kind = "modified"] ELSE change

KnownAfter(change, known) ==
  CASE change.kind = "deleted" -> known \ {change.path}
    [] change.kind = "moved"   -> (known \ {change.previous}) \cup {change.path}
    [] OTHER                   -> known \cup {change.path}

\* What the poller reports of a scan, in the order of the paths: the poller is external.
ScanEvents(old, new) ==
  LET differ == InOrder({p \in DOMAIN old : old[p] # new[p]}, LAMBDA a, b : a < b)
  IN [i \in DOMAIN differ |->
        [path |-> differ[i],
         kind |-> IF old[differ[i]] = Absent THEN "create"
                  ELSE IF new[differ[i]] = Absent THEN "remove" ELSE "modify"]]

-----------------------------------------------------------------------------
(* The timeline: an entry is a change or an event of the terminal, with its time. *)

TapeFirst(a, b) ==   \* mutant
  \/ a.at < b.at
  \/ a.at = b.at /\ a.source = "tape" /\ b.source = "files"
  \/ a.at = b.at /\ a.source = b.source /\
       IF a.source = "files" THEN ChangeBefore(a.event.change, b.event.change) ELSE a.sequence < b.sequence
\* compare_timeline_events
TimelineBefore(a, b) ==
  \/ a.at < b.at
  \/ a.at = b.at /\ a.source = "files" /\ b.source = "tape"
  \/ a.at = b.at /\ a.source = b.source /\
       IF a.source = "files" THEN ChangeBefore(a.event.change, b.event.change) ELSE a.sequence < b.sequence

\* merge_capture_timeline.  The windows it groups the entries by are flattened again.
Merge(files, tape) == InStableOrder(files \o tape, TimelineBefore)

-----------------------------------------------------------------------------
(* Reading the changes back *)

\* What a reader of a recording concludes of the files from one change.
Told(files, c) ==
  CASE c.kind = "deleted" -> [files EXCEPT ![c.path] = Absent]
    [] c.kind = "moved"   -> [files EXCEPT ![c.previous] = Absent, ![c.path] = c.content]
    [] OTHER              -> [files EXCEPT ![c.path] = c.content]

\* ... and from the changes among the events, in their order.
Replayed(disk, events) ==
  LET after[n \in 0..Len(events)] ==
        IF n = 0 THEN disk
        ELSE IF events[n].kind = "changed" THEN Told(after[n - 1], events[n].change)
        ELSE after[n - 1]
  IN after[Len(events)]

Named(changes) == {changes[i].path : i \in DOMAIN changes}
                  \cup {changes[i].previous : i \in {j \in DOMAIN changes : changes[j].kind = "moved"}}

\* A path that a change of the set names.
NamedIn(changes, p) == \E c \in changes : c.path = p \/ (c.kind = "moved" /\ c.previous = p)

EventsOf(entries) == [i \in DOMAIN entries |-> entries[i].event]
InTime(entries) == \A j, k \in DOMAIN entries : j < k => TimelineBefore(entries[j], entries[k])

Mentions(event, p) ==
  /\ event.kind = "changed"
  /\ event.change.path = p \/ (event.change.kind = "moved" /\ event.change.previous = p)

\* What a change that names a path tells of it.
Tells(c, p) == IF c.kind # "deleted" /\ c.path = p THEN c.content ELSE Absent

\* The last of the first n events that names a path tells what it holds after them.
Leaves(events, n, p, before, after) ==
  \/ after = before /\ \A i \in 1..n : ~Mentions(events[i], p)
  \/ \E m \in 1..n : /\ Mentions(events[m], p)
                     /\ after = Tells(events[m].change, p)
                     /\ \A i \in 1..n : i > m => ~Mentions(events[i], p)
=============================================================================
