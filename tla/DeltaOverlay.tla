---------------------------- MODULE DeltaOverlay ----------------------------
(***************************************************************************)
(* The two layers of a published view: an immutable base sorted by name    *)
(* with its FRN sidecar, and the delta of journal events applied on top.   *)
(* Indices count from 1. A name stands for its place in the                *)
(* case-insensitive order. Every record carries the FRN it was made for,   *)
(* which the arena does not store: only properties look at it.             *)
(*                                                                         *)
(* An operator that may ask for a full reindex returns the set of its      *)
(* results, empty when it does.                                            *)
(***************************************************************************)
EXTENDS Integers, Sequences, FiniteSets, Functions, SequencesExt

PARENT_NONE == 0

\* ParentRef: a base index, an index into the delta's additions, or none.
BaseRef(i) == <<"base", i>>
DeltaRef(i) == <<"delta", i>>

NewDelta == [tombstones |-> {}, added |-> <<>>, added_frns |-> <<>>]

\* Lookups in the sidecar and in added_frns; 0 when there is nothing.
Lookup(frns, frn) == IF frn \in DOMAIN frns THEN frns[frn] ELSE 0

\* A map with an entry put into it.
Inserted(map, key, value) ==
  [k \in DOMAIN map \cup {key} |-> IF k = key THEN value ELSE map[k]]

LiveBase(base, delta) == DOMAIN base.recs \ delta.tombstones
LiveAdded(delta) == {i \in DOMAIN delta.added : delta.added[i].live}

-----------------------------------------------------------------------------
(* Applying events. *)

\* Mutant: the base is asked before the delta.
ResolveParent_BaseFirst(delta, base, frn) ==
  IF Lookup(base.frns, frn) # 0 THEN {BaseRef(base.frns[frn])}
  ELSE IF Lookup(delta.added_frns, frn) # 0 THEN {DeltaRef(delta.added_frns[frn])}
  ELSE {}

\* A directory the delta has (re)created shadows its base record; one only
\* in the base is used even when it is tombstoned.
ResolveParent(delta, base, frn) ==
  LET added == Lookup(delta.added_frns, frn)
      index == Lookup(base.frns, frn)
  IN  IF added # 0
      THEN IF delta.added[added].live THEN {DeltaRef(added)} ELSE {}
      ELSE IF index # 0 THEN {BaseRef(index)} ELSE {}

\* The file already has a live record.
Present(delta, base, frn) ==
  LET added == Lookup(delta.added_frns, frn)
      index == Lookup(base.frns, frn)
  IN  \/ added # 0 /\ delta.added[added].live
      \/ index # 0 /\ index \notin delta.tombstones

\* A new addition at the end of the delta, if its parent is known.
Pushed(delta, base, frn, parentFrn, name) ==
  { [delta EXCEPT
       !.added = Append(@, [frn |-> frn, name |-> name, parent |-> parent, live |-> TRUE]),
       !.added_frns = Inserted(@, frn, Len(delta.added) + 1)]
    : parent \in ResolveParent(delta, base, parentFrn) }

\* create: a file that is there is left as it is; an unknown parent asks
\* for a reindex.
Create(delta, base, frn, parentFrn, name) ==
  IF Present(delta, base, frn) THEN {delta}
  ELSE Pushed(delta, base, frn, parentFrn, name)

\* Mutant: a deleted addition keeps its entry in added_frns.
Delete_KeepsFrn(delta, base, frn) ==
  LET added == Lookup(delta.added_frns, frn)
      index == Lookup(base.frns, frn)
  IN  IF added # 0 THEN [delta EXCEPT !.added[added].live = FALSE]
      ELSE IF index # 0 THEN [delta EXCEPT !.tombstones = @ \cup {index}] ELSE delta

\* delete: the addition dies, or the base record is tombstoned. One that
\* nobody knows is taken for deleted already.
Delete(delta, base, frn) ==
  LET added == Lookup(delta.added_frns, frn)
      index == Lookup(base.frns, frn)
  IN  IF added # 0
      THEN [delta EXCEPT !.added[added].live = FALSE,
                         !.added_frns = Restrict(@, DOMAIN @ \ {frn})]
      ELSE IF index # 0
      THEN [delta EXCEPT !.tombstones = @ \cup {index}]
      ELSE delta

\* Renamed: nothing to do when the addition has this name and parent
\* already; without metadata to carry over, a reindex.
Rename(delta, base, frn, parentFrn, name) ==
  LET added == Lookup(delta.added_frns, frn)
      known == IF added # 0 THEN delta.added[added].live ELSE Lookup(base.frns, frn) # 0
      same  == /\ added # 0
               /\ delta.added[added].live
               /\ delta.added[added].name = name
               /\ delta.added[added].parent \in ResolveParent(delta, base, parentFrn)
  IN  IF same THEN {delta}
      ELSE IF known THEN Create(Delete(delta, base, frn), base, frn, parentFrn, name)
      ELSE {}

Apply(delta, base, event) ==
  CASE event.kind = "created" -> Create(delta, base, event.frn, event.parent, event.name)
    [] event.kind = "deleted" -> {Delete(delta, base, event.frn)}
    [] event.kind = "renamed" -> Rename(delta, base, event.frn, event.parent, event.name)

-----------------------------------------------------------------------------
(***************************************************************************)
(* Paths, as sequences of names from the root. Both walks go through       *)
(* records that are tombstoned or no longer live. The code stops after 512 *)
(* hops; here a walk is as long as there are records.                      *)
(***************************************************************************)

FullPath(base, index) ==
  LET n == Len(base.recs)
      paths[hops \in 0 .. n] ==
        [i \in 1 .. n |->
           IF hops = 0 \/ base.recs[i].parent \in {PARENT_NONE, i}
           THEN <<base.recs[i].name>>
           ELSE Append(paths[hops - 1][base.recs[i].parent], base.recs[i].name)]
  IN  paths[n][index]

DeltaPath(base, delta, index) ==
  LET n == Len(delta.added)
      parent(i) == delta.added[i].parent
      paths[hops \in 0 .. n] ==
        [i \in 1 .. n |->
           Append(IF parent(i)[1] = "base" THEN FullPath(base, parent(i)[2])
                  ELSE IF parent(i)[1] = "delta" /\ hops > 0 THEN paths[hops - 1][parent(i)[2]]
                  ELSE <<>>,
                  delta.added[i].name)]
  IN  paths[n][index]

Record(base, delta, ref) ==
  IF ref[1] = "base" THEN base.recs[ref[2]] ELSE delta.added[ref[2]]

PathOf(base, delta, ref) ==
  IF ref[1] = "base" THEN FullPath(base, ref[2]) ELSE DeltaPath(base, delta, ref[2])

\* Everything a search of the view can return, and what of it is one file's.
LiveRecords(base, delta) ==
  {BaseRef(i) : i \in LiveBase(base, delta)} \cup {DeltaRef(i) : i \in LiveAdded(delta)}

RecordsOf(base, delta, frn) ==
  {ref \in LiveRecords(base, delta) : Record(base, delta, ref).frn = frn}

\* A record's parent, as a reference; none for a root.
ParentOf(base, delta, ref) ==
  IF ref[1] = "delta" THEN {delta.added[ref[2]].parent}
  ELSE {BaseRef(p) : p \in {base.recs[ref[2]].parent} \ {PARENT_NONE}}

\* A record and everything above it.
Ancestors(base, delta, ref) ==
  LET n == Len(base.recs) + Len(delta.added)
      up[k \in 0 .. n] ==
        IF k = 0 THEN {ref}
        ELSE up[k - 1] \cup UNION {ParentOf(base, delta, r) : r \in up[k - 1]}
  IN  up[n]

\* Live records whose parent has been renamed or deleted away under them.
Stranded(base, delta) ==
  {ref \in LiveRecords(base, delta) :
     \E p \in ParentOf(base, delta, ref) : p \notin LiveRecords(base, delta)}

\* One live record per file at most, found where added_frns or the sidecar
\* says: what apply relies on from one event to the next.
Consistent(base, delta) ==
  /\ DOMAIN delta.added_frns =
       {delta.added[i].frn : i \in LiveAdded(delta)}
  /\ \A i \in LiveAdded(delta) : delta.added_frns[delta.added[i].frn] = i
  /\ \A ref, other \in LiveRecords(base, delta) :
       Record(base, delta, ref).frn = Record(base, delta, other).frn => ref = other
=============================================================================
