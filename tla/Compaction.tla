----------------------------- MODULE Compaction -----------------------------
(***************************************************************************)
(* How a base is made: from an enumeration of the volume (IndexAssembly    *)
(* and ArenaBuilder::build), and by compact_to_snapshot, which merges a    *)
(* view's two layers by computing where each record will end up.           *)
(***************************************************************************)
EXTENDS DeltaOverlay, FiniteSetsExt

Root == 0  \* FRN of the volume's root directory

\* IndexAssembly::finish and build: `seen` maps each enumerated file to its
\* name and parent. The records are sorted by name, ties in the order they
\* were enumerated; a parent that was not seen becomes the root.
BuildBase(seen) ==
  LET Before(f, g) == seen[f].name < seen[g].name
                        \/ (seen[f].name = seen[g].name /\ f <= g)
      index == [f \in DOMAIN seen |-> Cardinality({g \in DOMAIN seen : Before(g, f)})]
      order == AntiFunction(index)
      parent(f) == IF f = Root THEN PARENT_NONE
                   ELSE IF seen[f].parent \in DOMAIN seen THEN index[seen[f].parent]
                   ELSE index[Root]
  IN  [ recs |-> [i \in DOMAIN order |->
                    [frn |-> order[i], name |-> seen[order[i]].name, parent |-> parent(order[i])]],
        frns |-> index ]

-----------------------------------------------------------------------------
(* compact_to_snapshot *)

\* delta_rank: the place of an addition among the sorted live additions.
\* The sort is unstable; equal names are taken in the order they were added.
DeltaRank(delta, i) ==
  Quantify(LiveAdded(delta), LAMBDA j :
    \/ delta.added[j].name < delta.added[i].name
    \/ delta.added[j].name = delta.added[i].name /\ j < i)

\* final_index_of_base: base_new_index plus delta_before_count.
FinalIndexOfBase(base, delta, i) ==
  Quantify(LiveBase(base, delta), LAMBDA j : j <= i)
    + Quantify(LiveAdded(delta), LAMBDA j : delta.added[j].name < base.recs[i].name)

\* Mutant: tombstoned base records before an addition are counted.
FinalIndexOfDelta_CountsDead(base, delta, i) ==
  Quantify(DOMAIN base.recs, LAMBDA j : base.recs[j].name < delta.added[i].name)
    + DeltaRank(delta, i) + 1

\* final_index_of_delta: base_before_count plus delta_rank. Base names
\* equal to the addition's are not counted.
FinalIndexOfDelta(base, delta, i) ==
  Quantify(LiveBase(base, delta), LAMBDA j : base.recs[j].name < delta.added[i].name)
    + DeltaRank(delta, i) + 1

\* Where the merge pushes an addition: base records win ties.
PushedAt(base, delta, i) ==
  Quantify(LiveBase(base, delta), LAMBDA j : base.recs[j].name <= delta.added[i].name)
    + DeltaRank(delta, i) + 1

\* A live record's final parent; none for a root or when the parent is gone.
FinalParent(base, delta, ref) ==
  { IF p[1] = "base" THEN FinalIndexOfBase(base, delta, p[2])
                     ELSE FinalIndexOfDelta(base, delta, p[2])
    : p \in ParentOf(base, delta, ref) \cap LiveRecords(base, delta) }

\* The second pass patches parents at the computed places, base records
\* first, so that an addition's patch wins.
PatchedParent(base, delta, place) ==
  LET added == UNION {FinalParent(base, delta, DeltaRef(i)) :
                 i \in {j \in LiveAdded(delta) : FinalIndexOfDelta(base, delta, j) = place}}
      old   == UNION {FinalParent(base, delta, BaseRef(i)) :
                 i \in {j \in LiveBase(base, delta) : FinalIndexOfBase(base, delta, j) = place}}
  IN  CHOOSE p \in IF added # {} THEN added ELSE IF old # {} THEN old ELSE {PARENT_NONE} : TRUE

\* Mutant: the entries of tombstoned records stay in the sidecar.
MergedSidecar_KeepsDead(base, delta) ==
  [f \in DOMAIN base.frns \cup DOMAIN delta.added_frns |->
     IF f \in DOMAIN base.frns THEN FinalIndexOfBase(base, delta, base.frns[f])
     ELSE FinalIndexOfDelta(base, delta, delta.added_frns[f])]

\* The sidecar: the base's remapped entries with those of the live additions.
MergedSidecar(base, delta) ==
  LET kept  == {f \in DOMAIN base.frns : base.frns[f] \notin delta.tombstones}
      added == {delta.added[i].frn : i \in LiveAdded(delta)}
  IN  [f \in kept \cup added |->
         IF f \in kept THEN FinalIndexOfBase(base, delta, base.frns[f])
         ELSE FinalIndexOfDelta(base, delta, delta.added_frns[f])]

\* The merged arena and its sidecar.
Compacted(base, delta) ==
  LET pushed == [ref \in LiveRecords(base, delta) |->
                   IF ref[1] = "base" THEN FinalIndexOfBase(base, delta, ref[2])
                                      ELSE PushedAt(base, delta, ref[2])]
      at     == AntiFunction(pushed)
  IN  [ recs |-> [place \in 1 .. Cardinality(DOMAIN pushed) |->
                    [ frn    |-> Record(base, delta, at[place]).frn,
                      name   |-> Record(base, delta, at[place]).name,
                      parent |-> PatchedParent(base, delta, place) ]],
        frns |-> MergedSidecar(base, delta) ]

\* An addition has the name of a live base record.
Ties(base, delta) ==
  \E i \in LiveAdded(delta), j \in LiveBase(base, delta) :
    delta.added[i].name = base.recs[j].name
=============================================================================
