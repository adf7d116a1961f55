----------------------------- MODULE LiveIndex ------------------------------
(***************************************************************************)
(* One volume's records from the file system's point of view to the        *)
(* view's: files are created, renamed, moved and deleted, the journal      *)
(* reports it, and the worker applies the reports in batches to a delta,   *)
(* compacts, enumerates the volume again, and is killed and resumed from   *)
(* what is on disk. VolumeFeed shows that a batch that is applied misses   *)
(* nothing since the last one; here it is a run of consecutive events.     *)
(***************************************************************************)
EXTENDS Compaction

CONSTANTS
  Files,      \* FRNs other than the root's
  Dirs,       \* those of them that are directories
  Names,      \* what a file can be called
  FirstTrees, \* bound: the trees the daemon may first enumerate
  MaxEvents   \* bound: changes to the volume after that

\* No directory is, in the end, in itself.
Acyclic(files) ==
  \A S \in SUBSET (DOMAIN files \ {Root}) : S # {} => \E f \in S : files[f].parent \notin S

ASSUME FilesAssumption ==
  /\ Files \subseteq Nat \ {Root} /\ Dirs \subseteq Files
  /\ IsFiniteSet(Files) /\ Names \subseteq Nat \ {0}
  /\ MaxEvents \in Nat
  /\ FirstTrees \subseteq UNION {[fs -> [name : Names, parent : fs \cup {Root}]] : fs \in SUBSET Files}
  /\ \A files \in FirstTrees : Acyclic(files)

VARIABLES
  tree,       \* NTFS: FRN -> [name, parent] of every file there is
  trees,      \* history: the tree before each event, and now
  journal,    \* NTFS: the events, in order
  pos,        \* how many of them the worker has dealt with
  base, delta,\* the published view
  next_usn,   \* the journal position the view claims
  saved,      \* the position in the snapshot on disk, whose records are base
  scan,       \* position captured by a running build_view, NoScan otherwise
  orphans,    \* history: files stranded by one of the known defects
  defects     \* history: the known ways a compaction goes wrong that have happened

vars == <<tree, trees, journal, pos, base, delta, next_usn, saved, scan, orphans, defects>>
ntfs == <<tree, trees, journal>>

NoScan == -1
RootEntry == [name |-> 0, parent |-> Root]

Init ==
  /\ \E files \in FirstTrees : tree = Inserted(files, Root, RootEntry)
  /\ trees = <<tree>>
  /\ journal = <<>> /\ pos = 0
  /\ base = BuildBase(tree) /\ delta = NewDelta
  /\ next_usn = 0 /\ saved = 0
  /\ scan = NoScan /\ orphans = {} /\ defects = {}

-----------------------------------------------------------------------------
(* The volume (external). FRNs are not reused; a directory's entries have  *)
(* different names, and it is deleted only when it has none.               *)

Journaled(event, after) ==
  /\ Len(journal) < MaxEvents
  /\ journal' = Append(journal, event)
  /\ tree' = after
  /\ trees' = Append(trees, after)
  /\ UNCHANGED <<pos, base, delta, next_usn, saved, scan, orphans, defects>>

Free(parent, name) ==
  /\ parent \in DOMAIN tree \cap ({Root} \cup Dirs)
  /\ \A f \in DOMAIN tree \ {Root} : tree[f] # [name |-> name, parent |-> parent]

\* f and the directories it is in.
Ancestry(files, f) ==
  LET up[n \in 0 .. Cardinality(DOMAIN files)] ==
        IF n = 0 THEN {f} ELSE up[n - 1] \cup {files[g].parent : g \in up[n - 1]}
  IN  up[Cardinality(DOMAIN files)]

FsCreate(f) ==
  /\ \A i \in DOMAIN trees : f \notin DOMAIN trees[i]
  /\ \E name \in Names, parent \in DOMAIN tree :
       /\ Free(parent, name)
       /\ Journaled([kind |-> "created", frn |-> f, parent |-> parent, name |-> name],
                    Inserted(tree, f, [name |-> name, parent |-> parent]))

FsRename(f) ==
  /\ f \in DOMAIN tree
  /\ \E name \in Names, parent \in DOMAIN tree :
       /\ Free(parent, name) /\ f \notin Ancestry(tree, parent)
       /\ Journaled([kind |-> "renamed", frn |-> f, parent |-> parent, name |-> name],
                    [tree EXCEPT ![f] = [name |-> name, parent |-> parent]])

FsDelete(f) ==
  /\ f \in DOMAIN tree /\ \A g \in DOMAIN tree : tree[g].parent # f
  /\ Journaled([kind |-> "deleted", frn |-> f, parent |-> tree[f].parent, name |-> tree[f].name],
               Restrict(tree, DOMAIN tree \ {f}))

-----------------------------------------------------------------------------
(* The worker. *)

Frn(ref) == Record(base, delta, ref).frn

\* Records an event adds, and files it leaves under a record that it kills.
AddedBy(before, after) == DOMAIN after.added \ DOMAIN before.added
StrandedBy(before, after) ==
  {Record(base, after, ref).frn :
     ref \in Stranded(base, after) \ {DeltaRef(i) : i \in AddedBy(before, after)}}

\* One event, on what the events before it may have led to.
ApplyEach(done, event) ==
  UNION { { [ delta   |-> d,
              orphans |-> (s.orphans \ {d.added[i].frn : i \in AddedBy(s.delta, d)})
                            \cup StrandedBy(s.delta, d) ]
            : d \in Apply(s.delta, base, event) } : s \in done }

\* The loop over a batch: it stops at the first event that asks for a reindex.
ApplyAll(first, events) ==
  LET done[k \in 0 .. Len(events)] ==
        IF k = 0 THEN {[delta |-> first, orphans |-> orphans]}
        ELSE ApplyEach(done[k - 1], events[k])
  IN  done[Len(events)]

\* A batch is applied to a copy of the delta and published. The position is
\* brought up to date if the batch's last message was the end of a read.
ApplyBatch ==
  /\ scan = NoScan /\ pos < Len(journal)
  /\ \E last \in pos + 1 .. Len(journal) :
       /\ \E s \in ApplyAll(delta, SubSeq(journal, pos + 1, last)) :
            delta' = s.delta /\ orphans' = s.orphans
       /\ pos' = last
       /\ next_usn' \in {next_usn, last}
  /\ UNCHANGED <<ntfs, base, saved, scan, defects>>

\* A batch cannot be applied, or messages were dropped: build_view captures
\* the journal's position. Whatever was drained or dropped is not applied.
BuildCursor ==
  /\ scan = NoScan /\ pos < Len(journal)
  /\ pos' \in pos + 1 .. Len(journal)
  /\ scan' = Len(journal)
  /\ UNCHANGED <<ntfs, base, delta, next_usn, saved, orphans, defects>>

\* The enumeration meets each file as it is at some time since then.
Seen(when) ==
  [f \in {g \in Files \cup {Root} : g \in DOMAIN trees[when[g]]} |-> trees[when[f]][f]]

\* Mutant: the base is stamped with the position the enumeration ended at.
BuildPublish_LateCursor ==
  /\ scan # NoScan
  /\ \E when \in [Files \cup {Root} -> scan + 1 .. Len(trees)] :
       /\ base' = BuildBase(Seen(when))
       /\ orphans' = {f \in DOMAIN Seen(when) : Seen(when)[f].parent \notin DOMAIN Seen(when)}
  /\ delta' = NewDelta /\ next_usn' = Len(journal) /\ saved' = Len(journal)
  /\ scan' = NoScan /\ defects' = {}
  /\ UNCHANGED <<ntfs, pos>>

\* The new base is saved and published. Messages that were on their way are
\* applied on top of it, however old they are. A file whose directory was
\* not met is put in the root, and its creation, when it comes, is ignored.
BuildPublish ==
  /\ scan # NoScan
  /\ \E when \in [Files \cup {Root} -> scan + 1 .. Len(trees)] :
       /\ base' = BuildBase(Seen(when))
       /\ orphans' = {f \in DOMAIN Seen(when) : Seen(when)[f].parent \notin DOMAIN Seen(when)}
  /\ delta' = NewDelta /\ next_usn' = scan /\ saved' = scan
  /\ scan' = NoScan /\ defects' = {}
  /\ UNCHANGED <<ntfs, pos>>

\* Mutant: the compacted base is published with the old overlay.
Compact_KeepsDelta ==
  /\ scan = NoScan /\ delta # NewDelta
  /\ base' = Compacted(base, delta)
  /\ saved' = next_usn
  /\ UNCHANGED <<ntfs, pos, delta, next_usn, scan, orphans, defects>>

\* The view is compacted, saved and published: above 5%, when idle, or by
\* the shutdown handler before a restart. Right after a rebuild the position
\* may be ahead of the events applied: old ones have been taken back into
\* the view, and a snapshot of it would not have the newer ones replayed.
Compact ==
  /\ scan = NoScan
  /\ delta # NewDelta \/ next_usn # saved
  /\ base' = Compacted(base, delta) /\ delta' = NewDelta
  /\ saved' = next_usn
  /\ defects' = defects
       \cup {d \in {"equal names"} : Ties(base, delta)}
       \cup {d \in {"stale record"} : next_usn > pos /\ delta # NewDelta}
  /\ UNCHANGED <<ntfs, pos, next_usn, scan, orphans>>

\* The daemon is killed and started again: resume_view replays the journal
\* from the snapshot's position, or the volume is enumerated.
Restart ==
  /\ \/ /\ \E s \in ApplyAll(NewDelta, SubSeq(journal, saved + 1, Len(journal))) :
             delta' = s.delta /\ orphans' = s.orphans
        /\ next_usn' = Len(journal) /\ scan' = NoScan
     \/ scan' = Len(journal) /\ UNCHANGED <<delta, next_usn, orphans>>
  /\ pos' = Len(journal)
  /\ UNCHANGED <<ntfs, base, saved, defects>>

Next ==
  \/ \E f \in Files : FsCreate(f) \/ FsRename(f) \/ FsDelete(f)
  \/ ApplyBatch \/ BuildCursor \/ BuildPublish \/ Compact \/ Restart

Spec == Init /\ [][Next]_vars

-----------------------------------------------------------------------------
(* Properties. *)

Position == 0 .. MaxEvents
Event == [kind : {"created", "renamed", "deleted"}, frn : Files,
          parent : Files \cup {Root}, name : Names]

\* Type correctness; every index a layer holds is one of the records there are.
TypeOK ==
  /\ \A i \in DOMAIN trees : DOMAIN trees[i] \subseteq Files \cup {Root}
  /\ tree = trees[Len(journal) + 1]
  /\ journal \in Seq(Event)
  /\ pos \in 0 .. Len(journal) /\ next_usn \in Position /\ saved \in Position
  /\ scan \in Position \cup {NoScan}
  /\ \A i \in DOMAIN base.recs : base.recs[i].parent \in {PARENT_NONE} \cup DOMAIN base.recs
  /\ \A f \in DOMAIN base.frns : base.frns[f] \in DOMAIN base.recs
  /\ delta.tombstones \subseteq DOMAIN base.recs
  /\ \A i \in DOMAIN delta.added :
       delta.added[i].parent \in {BaseRef(j) : j \in DOMAIN base.recs}
                                   \cup {DeltaRef(j) : j \in 1 .. i - 1}
  /\ orphans \subseteq Files /\ defects \subseteq {"equal names", "stale record"}

\* A view is being served, and its base comes from no compaction that is
\* known to go wrong.
Sound == scan = NoScan /\ defects = {}

\* The overlay keeps one live record per file, found through added_frns or
\* the sidecar, whatever stale or repeated events are applied to it. The base
\* stays sorted by name, which every search of it relies on, and its sidecar
\* resolves every file to its own record.
OverlayConsistent ==
  /\ Sound => Consistent(base, delta)
  /\ \A i, j \in DOMAIN base.recs : i < j => base.recs[i].name <= base.recs[j].name
  /\ defects = {} =>
       /\ \A i \in DOMAIN base.recs : base.frns[base.recs[i].frn] = i
       /\ Cardinality(DOMAIN base.frns) = Len(base.recs)

\* The view has exactly the records it should have of a file.
Agrees(f) ==
  LET refs == RecordsOf(base, delta, f) IN
  IF f \notin DOMAIN tree THEN refs = {}
  ELSE \E ref \in refs :
         /\ refs = {ref} /\ Record(base, delta, ref).name = tree[f].name
         /\ f \in orphans \/ {Frn(p) : p \in ParentOf(base, delta, ref)} = {tree[f].parent}

\* Wherever the view and the volume disagree about a file, an event about
\* that file is still on its way: after stale events, fuzzy enumerations,
\* compactions and restarts alike.
DivergenceIsQueued ==
  Sound => \A f \in Files :
    Agrees(f) \/ \E i \in pos + 1 .. Len(journal) : journal[i].frn = f

TruePath(f) ==
  LET n == Cardinality(DOMAIN tree)
      paths[hops \in 0 .. n] ==
        [g \in DOMAIN tree |->
           IF hops = 0 \/ g = Root THEN <<tree[g].name>>
           ELSE Append(paths[hops - 1][tree[g].parent], tree[g].name)]
  IN  paths[n][f]

ShownPaths(f) == {PathOf(base, delta, ref) : ref \in RecordsOf(base, delta, f)}

\* Once every event is applied, a file is found under its path and no other,
\* unless it or a directory it is in was stranded.
PathExact ==
  Sound /\ pos = Len(journal) => \A f \in DOMAIN tree :
    Ancestry(tree, f) \cap orphans = {} => ShownPaths(f) = {TruePath(f)}

\* A compaction shows the records it was given, and those whose directories
\* are all live under the paths they had. An enumeration can meet two
\* directories in each other: their paths have no beginning.
KeepsPaths(refs) ==
  \A ref \in refs :
    {PathOf(base', delta', r) : r \in RecordsOf(base', delta', Frn(ref))}
      = {PathOf(base, delta, ref)}

Rooted ==
  {ref \in LiveRecords(base, delta) :
     LET up == Ancestors(base, delta, ref) IN
     /\ up \subseteq LiveRecords(base, delta)
     /\ \E top \in up : ParentOf(base, delta, top) = {}}

CompactionKeepsPaths ==
  [][ Compact /\ "equal names" \notin defects' =>
        /\ KeepsPaths(Rooted)
        /\ Len(base'.recs) = Cardinality(LiveRecords(base, delta)) ]_vars

\* What the code's own words promise and it does not do.

\* Compaction keeps the path of every live record, those of a directory that
\* was renamed in the delta included.
CompactionKeepsMovedContents ==
  [][ Compact /\ "equal names" \notin defects' => KeepsPaths(LiveRecords(base, delta)) ]_vars
=============================================================================
