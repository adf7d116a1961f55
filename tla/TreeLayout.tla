----------------------------- MODULE TreeLayout -----------------------------
(***************************************************************************)
(* The depth-first layout of a base's parent column. A column is a         *)
(* sequence of record indices; anything that is not one, PARENT_NONE or a  *)
(* dangling index, is no parent. Columns may be malformed: they may        *)
(* contain cycles. Positions count from 0, as in the code, records from 1. *)
(***************************************************************************)
EXTENDS Integers, Sequences, FiniteSets, SequencesExt

IsRoot(parents, i) == parents[i] \notin DOMAIN parents \/ parents[i] = i

\* ChildTable: a record that is its own parent is nobody's child.
ChildrenOf(parents, i) == {c \in DOMAIN parents \ {i} : parents[c] = i}

Lowest(records) == CHOOSE i \in records : \A j \in records : i <= j

-----------------------------------------------------------------------------
(* build and walk *)

Enter(walk, i) ==
  [walk EXCEPT !.positions[i] = Len(walk.records), !.records = Append(@, i),
               !.stack = Append(@, i), !.unvisited = @ \ {i}]

Leave(walk) ==
  [walk EXCEPT !.ends[Last(walk.stack)] = Len(walk.records), !.stack = Front(@)]

\* Down to the first child not yet visited, else up; between two trees, to
\* the next root, and once there is none, to a record on a cycle.
WalkStep(parents, walk) ==
  IF walk.stack # <<>>
  THEN LET fresh == ChildrenOf(parents, Last(walk.stack)) \cap walk.unvisited
       IN  IF fresh = {} THEN Leave(walk) ELSE Enter(walk, Lowest(fresh))
  ELSE LET roots == {i \in walk.unvisited : IsRoot(parents, i)}
       IN  Enter(walk, Lowest(IF roots # {} THEN roots ELSE walk.unvisited))

\* Each record is entered once and left once.
Layout(parents) ==
  LET n     == Len(parents)
      start == [ records |-> <<>>, positions |-> [i \in 1 .. n |-> 0],
                 ends |-> [i \in 1 .. n |-> 0], stack |-> <<>>, unvisited |-> 1 .. n ]
      walk  == FoldLeft(LAMBDA w, step : WalkStep(parents, w), start, [k \in 1 .. 2 * n |-> k])
  IN  [records |-> walk.records, positions |-> walk.positions, ends |-> walk.ends]

-----------------------------------------------------------------------------
(* Reading a layout *)

DfsRecord(dfs, position) == dfs.records[position + 1]

\* The positions of a record and of everything beneath it.
Subtree(dfs, i) == dfs.positions[i] .. dfs.ends[i] - 1

\* Mutant: every edge of the column counts.
TreeParent_Raw(parents, dfs, i) == IF IsRoot(parents, i) THEN 0 ELSE parents[i]

\* canonical_tree_parent: an edge that the walk had to skip is no edge.
TreeParent(parents, dfs, i) ==
  IF IsRoot(parents, i) THEN 0
  ELSE IF dfs.positions[i] \in Subtree(dfs, parents[i]) THEN parents[i]
  ELSE 0

\* prefix_sums_u64 over a column of sizes, and a subtree's total.
SizePrefix(dfs, sizes) ==
  FoldLeft(LAMBDA sums, i : Append(sums, Last(sums) + sizes[i]), <<0>>, dfs.records)

RecursiveSize(dfs, prefix, i, max) ==
  LET total == prefix[dfs.ends[i] + 1] - prefix[dfs.positions[i] + 1]
  IN  IF total < max THEN total ELSE max

\* derive_size_exact_bits: a directory's size is exact if that of every file in it is.
ExactSizes(dfs, dirs, raw) ==
  {i \in dirs : \A p \in Subtree(dfs, i) : DfsRecord(dfs, p) \in dirs \cup raw}
    \cup (raw \ dirs)
=============================================================================
