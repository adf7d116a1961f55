---------------------------- MODULE IndexColumns ----------------------------
(***************************************************************************)
(* What the columns of a bulk-built arena are worth: names read back and   *)
(* searched, blocks left out and not, sizes, and the other builder's       *)
(* columns, each against what the index was made of.                       *)
(***************************************************************************)
EXTENDS BulkIndex, Patterns

CONSTANTS
  Needles,      \* what names are searched for
  RegexQueries, \* patterns they are searched by
  Wildcards     \* the same as a user writes them

\* Whatever names share a prefix, and wherever buckets end, each record's
\* name is read back, in order, one by one and by walks over any range; and
\* a walk says that a name is the one before again only when it is, and its
\* bucket and range hold that one too. (front_code, name_into, the walks.)
NamesReadBack(arena, names) ==
  LET Seen(k, start) ==
        [record |-> k, name |-> names[k],
         repeated |-> (k - 1) % BUCKET_SIZE # 0 /\ k - 1 > start /\ names[k] = names[k - 1]]
  IN  /\ \A i \in DOMAIN entries : names[RecordOf(arena, entries[i].frn)] = entries[i].name
      /\ \A k \in DOMAIN names \ {1} : ~Less(names[k], names[k - 1])
      /\ for_each_name(arena) = [k \in DOMAIN names |-> Seen(k, 0)]
      /\ \A start \in 0 .. arena.count - 1 : \A end \in start + 1 .. arena.count + 1 :
           for_each_name_in(arena, start, end) =
             [i \in 1 .. (IF end > arena.count THEN arena.count ELSE end) - start |-> Seen(start + i, start)]

\* The searches over the bucket heads find what a look at every name would:
\* where a name belongs, and the records that begin with a prefix.
\* (lower_bound_name, prefix_range.)
SearchesExact(arena, names) ==
  \A target \in Needles \cup {names[k] : k \in DOMAIN names} :
    /\ lower_bound_name(arena, target) = Cardinality({k \in DOMAIN names : Less(names[k], target)})
    /\ \E range \in {prefix_range(arena, target)} :
         range.lo + 1 .. range.hi = {k \in DOMAIN names : starts_with_ci(names[k], target)}

Matches(name, literal) ==
  \E i \in 0 .. Len(name) - Len(literal) : starts_with_ci(SubSeq(name, i + 1, Len(name)), literal)

\* No name that a query could match is in a block that the trigram index
\* rules out: one literal, or one of each clause, in it. (index_trigrams,
\* candidate_blocks_into, candidate_blocks_for_clauses.)
BlocksComplete(arena, names) ==
  \A k \in DOMAIN names :
    LET found == {needle \in Needles : Matches(names[k], needle)}
        block == (k - 1) \div TRIGRAM_BLOCK
    IN  /\ \A needle \in found : block \in candidate_blocks(arena, needle)
        /\ \A a, b \in found, other \in Needles :
             block \in candidate_blocks_for_clauses(arena, {{a, other}, {b}})

Glob(pattern, name) ==
  LET fits[i \in Nat, j \in Nat] ==
        IF i > Len(pattern) THEN j > Len(name)
        ELSE IF pattern[i] = STAR THEN fits[i + 1, j] \/ (j <= Len(name) /\ fits[i, j + 1])
        ELSE /\ j <= Len(name)
             /\ pattern[i] = QUESTION_MARK \/ Lowered(<<pattern[i]>>) = Lowered(<<name[j]>>)
             /\ fits[i + 1, j + 1]
  IN  fits[1, 1]

\* Every match of a pattern contains a literal of each of its clauses, so a
\* scan that leaves out the blocks without them finds all matches and no
\* more; and a wildcard's matches are those its user means. Names are exempt
\* that match a literal by letters that are the same but for a case that is
\* not ASCII's. (required_literals, Query::wildcard, scan_regex_impl.)
PatternsExact(arena, names) ==
  LET Ascii == {k \in DOMAIN names : \A i \in DOMAIN names[k] : names[k][i] < 128}
      Answered(p, matching) ==
        /\ \A clause \in required_literals(p) : \A k \in matching :
             \E literal \in clause : Matches(names[k], literal)
        /\ scan_regex_impl(arena, p) \cap Ascii = matching
  IN  /\ \A p \in RegexQueries : \E matching \in {{k \in Ascii : is_match(p, names[k])}} : Answered(p, matching)
      /\ \A w \in Wildcards :
           \E matching \in {{k \in Ascii : Glob(w, names[k])}} : Answered(wildcard(w), matching)

\* A directory's size is said to be exact when that of every file beneath it
\* is, as far as the tree order goes, and only then. (derive_size_exact_bits.)
SizesKnown(arena) ==
  LET raw == {RecordOf(arena, entry.frn) : entry \in {e \in ToSet(entries) : e.exact}}
  IN  arena.exact = ExactSizes(arena.dfs, arena.dirs, raw)

\* The builder of a compaction, given an arena's records in order and with
\* parents still to be patched, makes the same columns out of files: the
\* tree order too, cycles and all. (SpooledArenaBuilder, build_file_backed.)
BuildersAgree(arena, names) ==
  LET Old(k) == IF k = PARENT_NONE THEN PARENT_NONE ELSE arena.count + 1 - k
      spooled == BuildSpooled([k \in DOMAIN names |->
                   [name |-> names[k], dir |-> k \in arena.dirs, size |-> arena.sizes[k],
                    exact |-> k \in arena.exact, old |-> Old(k), raw_parent |-> Old(arena.parents[k])]])
  IN  \A column \in {"names", "bucket_offsets", "trigram_index", "parents", "sizes", "dfs", "size_prefix"} :
        spooled[column] = arena[column]

\* The columns say what the entries said, however they are read, and both
\* builders make the same ones.
ColumnsExact ==
  phase = "done" =>
    \A arena \in {Arena} : \A names \in {[k \in 1 .. arena.count |-> name_into(arena, k)]} :
      /\ NamesReadBack(arena, names) /\ SearchesExact(arena, names) /\ BlocksComplete(arena, names)
      /\ PatternsExact(arena, names)
      /\ SizesKnown(arena) /\ BuildersAgree(arena, names)
=============================================================================
