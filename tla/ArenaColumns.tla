---------------------------- MODULE ArenaColumns ----------------------------
(***************************************************************************)
(* The columns of an arena, as its two builders make them: the one of a    *)
(* bulk build, which sorts what it was given, and the one of a compaction, *)
(* which is given sorted records and keeps everything in files.            *)
(***************************************************************************)
EXTENDS NameColumn

CONSTANTS
  SUPERBLOCK_BITS,  \* bits between two samples of a rank (256 in the code)
  MAX_HOPS          \* records of a path (512)

PARENT_NONE == 0
DOT == <<46>>
bytes_to_size_kib(bytes) == (bytes + 1023) \div 1024

-----------------------------------------------------------------------------
(* Rank over a bitmap, here a set of positions among so many. *)

\* The bits before each block of SUPERBLOCK_BITS, and before the end.
build_superblocks(bits, length) ==
  [k \in 1 .. (length + SUPERBLOCK_BITS - 1) \div SUPERBLOCK_BITS + 1 |->
     Cardinality({b \in bits : b < (k - 1) * SUPERBLOCK_BITS})]

\* The bits before position i: those before its sample, and those since.
rank1(bits, samples, i) ==
  LET sample == i \div SUPERBLOCK_BITS IN
  samples[sample + 1] + Cardinality({b \in bits : sample * SUPERBLOCK_BITS <= b /\ b < i})

\* derive_size_exact_bits: a file says itself whether its size is exact, a
\* directory's is if there is no file of unknown size among its positions.
SizeExactBits(dfs, dirs, raw) ==
  LET n       == Len(dfs.positions)
      unknown == {dfs.positions[i] : i \in (1 .. n) \ (dirs \cup raw)}
      samples == build_superblocks(unknown, n)
      Rank(i) == rank1(unknown, samples, i)
  IN  {i \in dirs : Rank(dfs.positions[i]) = Rank(dfs.ends[i])} \cup (raw \ dirs)

-----------------------------------------------------------------------------
(* ArenaBuilder *)

\* The order of the records: by name, equal names as they were pushed.
Sorted(staged) ==
  SortSeq([i \in DOMAIN staged |-> i],
          LAMBDA i, j : \/ Less(staged[i].name, staged[j].name)
                        \/ ~Less(staged[j].name, staged[i].name) /\ i < j)

Columns(parents, dirs, names, mtimes, sizes, raw, dfs) ==
  front_code(names)
    @@ [parents |-> parents, dirs |-> dirs, mtimes |-> mtimes, sizes |-> sizes, dfs |-> dfs,
        exact |-> SizeExactBits(dfs, dirs, raw), size_prefix |-> SizePrefix(dfs, sizes)]

build(staged) ==
  LET order   == Sorted(staged)
      rank    == [i \in DOMAIN staged |-> CHOOSE k \in DOMAIN order : order[k] = i]
      parents == [k \in DOMAIN order |->
                    LET parent == staged[order[k]].parent
                    IN  IF parent = PARENT_NONE THEN PARENT_NONE ELSE rank[parent]]
      Of(test(_)) == {k \in DOMAIN order : test(staged[order[k]])}
  IN  Columns(parents, Of(LAMBDA r : r.dir), [k \in DOMAIN order |-> staged[order[k]].name],
              [k \in DOMAIN order |-> staged[order[k]].mtime],
              [k \in DOMAIN order |-> bytes_to_size_kib(staged[order[k]].size)],
              Of(LAMBDA r : r.exact), Layout(parents))
        @@ [frns |-> [k \in DOMAIN order |-> staged[order[k]].frn]]

\* full_path: names from the root down, the root directory's "." left out.
full_path(arena, record) ==
  LET chain[k \in Nat, hops \in Nat] ==
        LET up   == TreeParent(arena.parents, arena.dfs, k)
            name == name_into(arena, k)
        IN  (IF up = PARENT_NONE \/ hops = MAX_HOPS THEN <<>> ELSE chain[up, hops + 1])
              \o (IF name = DOT THEN <<>> ELSE <<name>>)
  IN  chain[record, 1]

-----------------------------------------------------------------------------
(* The tree order, from arrays in files: where each record's children are  *)
(* in one array of them all, and a stack of records with the number of     *)
(* children looked at.                                                     *)

Counted(parents, p) == p \in DOMAIN parents /\ parents[p] \in DOMAIN parents /\ parents[p] # p

\* starts[i + 1] is where the children of record i end; filled by a cursor each.
ChildTable(parents) ==
  LET n == Len(parents)
      starts == [k \in 1 .. n + 1 |-> Cardinality({c \in 1 .. n : Counted(parents, c) /\ parents[c] < k})]
      Fill(table, c) ==
        IF ~Counted(parents, c) THEN table
        ELSE [children |-> [table.children EXCEPT ![table.cursor[parents[c]] + 1] = c],
              cursor   |-> [table.cursor EXCEPT ![parents[c]] = @ + 1]]
      filled == FoldLeft(Fill, [children |-> [k \in 1 .. starts[n + 1] |-> 0], cursor |-> starts],
                         [k \in 1 .. n |-> k])
  IN  [starts |-> starts, children |-> filled.children]

Visit(walk, i) ==
  [walk EXCEPT !.positions[i] = Len(walk.records), !.records = Append(@, i), !.visited = @ \cup {i},
               !.stack = Append(@, [record |-> i, next_child |-> 0])]

\* Into the next child that is not visited, and up when there is none.
WalkFrame(table, walk) ==
  LET frame == Last(walk.stack)
      first == table.starts[frame.record]
      fresh == {k \in frame.next_child .. table.starts[frame.record + 1] - first - 1 :
                  table.children[first + k + 1] \notin walk.visited}
  IN  IF fresh = {}
      THEN [walk EXCEPT !.ends[frame.record] = Len(walk.records), !.stack = Front(@)]
      ELSE Visit([walk EXCEPT !.stack[Len(walk.stack)].next_child = Lowest(fresh) + 1],
                 table.children[first + Lowest(fresh) + 1])

\* A record's whole tree: each of its records is entered once and left once.
walk_file_backed(table, walk, start) ==
  LET n == Len(walk.positions)
      Step(w, k) == IF w.stack = <<>> THEN w ELSE WalkFrame(table, w)
  IN  IF start \in walk.visited THEN walk
      ELSE FoldLeft(Step, Visit(walk, start), [k \in 1 .. 2 * n |-> k])

\* The roots, then whatever is left, which is on a cycle.
build_file_backed(parents) ==
  LET n     == Len(parents)
      table == ChildTable(parents)
      Zeros == [i \in 1 .. n |-> 0]
      From(walk, start) == walk_file_backed(table, walk, start)
      roots == SelectSeq([i \in 1 .. n |-> i], LAMBDA i : IsRoot(parents, i))
      walk  == FoldLeft(From, [records |-> <<>>, positions |-> Zeros, ends |-> Zeros,
                               stack |-> <<>>, visited |-> {}], roots \o [i \in 1 .. n |-> i])
  IN  [records |-> walk.records, positions |-> walk.positions, ends |-> walk.ends]

-----------------------------------------------------------------------------
(* SpooledArenaBuilder *)

\* A record's place is known when it is pushed, its parent's may not be: it
\* is pushed with the parent's old number, and patched when all are there.
BuildSpooled(records) ==
  LET pushed  == FoldLeft(LAMBDA columns, r :
                   [coder |-> Push(columns.coder, r.name), parents |-> Append(columns.parents, r.raw_parent),
                    sizes |-> Append(columns.sizes, r.size),
                    raw |-> IF r.exact THEN columns.raw \cup {Len(columns.parents) + 1} ELSE columns.raw],
                   [coder |-> NewCoder, parents |-> <<>>, sizes |-> <<>>, raw |-> {}], records)
      final(old) == IF old = PARENT_NONE THEN PARENT_NONE
                    ELSE CHOOSE k \in DOMAIN records : records[k].old = old
      parents == FoldLeft(LAMBDA column, k : [column EXCEPT ![k] = final(@)],
                          pushed.parents, [k \in DOMAIN records |-> k])
      dirs    == {k \in DOMAIN records : records[k].dir}
      dfs     == build_file_backed(parents)
  IN  [names |-> pushed.coder.blob,
       bucket_offsets |-> Append(pushed.coder.offsets, Len(pushed.coder.blob)),
       trigram_index |-> pushed.coder.trigrams, parents |-> parents, sizes |-> pushed.sizes,
       dfs |-> dfs, exact |-> SizeExactBits(dfs, dirs, pushed.raw), size_prefix |-> SizePrefix(dfs, pushed.sizes)]
=============================================================================
