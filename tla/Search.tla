------------------------------- MODULE Search -------------------------------
(***************************************************************************)
(* Searching one view: the ranked search of names, by prefix and by        *)
(* substring, and the search by path terms, each of which must be found in *)
(* a record's name or in that of a directory above it.                     *)
(*                                                                         *)
(* Names and terms are opaque. What the code finds out by comparing bytes  *)
(* is given by relations on them.                                          *)
(***************************************************************************)
EXTENDS DeltaOverlay, TreeLayout, Intervals, Ranking

CONSTANTS
  HasTerm,       \* contains_ci: pairs of a name and a term
  StartsWith,    \* starts_with_ci
  Equals,        \* cmp_ci is equal
  Before,        \* cmp_ci is less
  EmptyTerm,     \* matches everything
  ShortTerms,    \* terms of less than three bytes
  NameTrigrams,  \* name -> its rows of the trigram index
  TermTrigrams,  \* the same of a term that is not short
  NameLen,       \* name -> its length
  Extension,     \* name -> what follows its last dot, or ""
  FileOf,        \* FRN -> is_dir, mtime, size in KiB, and whether that is known
  TRIGRAM_BLOCK, \* records per block of the trigram index
  MAX_TERMS,
  PATH_VERIFY_CANDIDATES,
  Threads        \* query_thread_count

Names == DOMAIN NameLen
Terms == ShortTerms \cup DOMAIN TermTrigrams

\* What holds of bytes. Names are numbered in their order.
TextFacts ==
  /\ Equals \subseteq StartsWith /\ StartsWith \subseteq HasTerm
  /\ Before \cap StartsWith = {} /\ EmptyTerm \in ShortTerms
  /\ \A p \in HasTerm : p[2] \notin ShortTerms => TermTrigrams[p[2]] \subseteq NameTrigrams[p[1]]
  /\ \A n \in Names : <<n, EmptyTerm>> \in StartsWith
  /\ \A p \in Before, n \in Names : n <= p[1] => <<n, p[2]>> \in Before
  /\ \A p \in StartsWith, n \in Names : n <= p[1] => <<n, p[2]>> \in Before \cup StartsWith

ASSUME SearchAssumption ==
  /\ TextFacts
  /\ Names \subseteq Nat /\ NameLen \in [Names -> Nat]
  /\ FileOf \in [DOMAIN FileOf ->
                   [is_dir : BOOLEAN, mtime : 0 .. U32_MAX, size : 0 .. U32_MAX, exact : BOOLEAN]]
  /\ TRIGRAM_BLOCK \in Nat \ {0} /\ MAX_TERMS \in Nat /\ Threads \in Nat \ {0}

-----------------------------------------------------------------------------
(* Records. A base has its layout with it; additions are numbered after it. *)

Parents(recs) == [i \in DOMAIN recs |-> recs[i].parent]
BaseDirs(recs) == {i \in DOMAIN recs : FileOf[recs[i].frn].is_dir}

\* The columns that are derived when an arena is built.
Arena(recs) ==
  LET dfs == Layout(Parents(recs)) IN
  [ recs        |-> recs,
    frns        |-> [f \in {recs[i].frn : i \in DOMAIN recs} |-> CHOOSE i \in DOMAIN recs : recs[i].frn = f],
    dfs         |-> dfs,
    size_prefix |-> SizePrefix(dfs, [i \in DOMAIN recs |-> FileOf[recs[i].frn].size]),
    size_exact  |-> ExactSizes(dfs, BaseDirs(recs), {i \in DOMAIN recs : FileOf[recs[i].frn].exact}) ]

tree_parent(base, i) == TreeParent(Parents(base.recs), base.dfs, i)

BaseLen(view) == Len(view.base.recs)
Combined(view, ref) == IF ref[1] = "base" THEN ref[2] ELSE BaseLen(view) + ref[2]
RefOf(view, record) == IF record <= BaseLen(view) THEN BaseRef(record) ELSE DeltaRef(record - BaseLen(view))

NameOf(view, ref) == Record(view.base, view.delta, ref).name
File(view, ref) == FileOf[Record(view.base, view.delta, ref).frn]

\* An addition has taken over its base record's metadata if there was one; a
\* created file has none.
BaseOf(view, ref) == Lookup(view.base.frns, Record(view.base, view.delta, ref).frn)

record_size_kib(view, ref) ==
  IF ref[1] = "base"
  THEN RecursiveSize(view.base.dfs, view.base.size_prefix, ref[2], U32_MAX)
  ELSE IF BaseOf(view, ref) # 0 THEN File(view, ref).size ELSE 0

record_size_exact(view, ref) == BaseOf(view, ref) \in view.base.size_exact

\* A key's rank bits; a size that is not known is ranked as none.
SortBits(view, order, ref, quality) ==
  CASE order = "relevance" -> RelevanceBits(quality, NameLen[NameOf(view, ref)])
    [] order = "recent"    -> RecentBits(File(view, ref).mtime)
    [] order = "largest"   -> LargestBits(IF record_size_exact(view, ref) THEN record_size_kib(view, ref) ELSE 0)

sort_key(view, order, ref, quality) ==
  KeyOf(SortBits(view, order, ref, quality), Combined(view, ref))

Hits(heap) == {[record |-> key_record(key), rank_bits |-> key_rank_bits(key)] : key \in heap}

-----------------------------------------------------------------------------
(* The trigram filter. *)

BlockOf(i) == (i - 1) \div TRIGRAM_BLOCK

\* candidate_blocks: those in which each of the term's trigrams occurs.
candidate_blocks(base, term) ==
  LET InBlock(b) == {i \in DOMAIN base.recs : BlockOf(i) = b}
  IN  {b \in {BlockOf(i) : i \in DOMAIN base.recs} :
         TermTrigrams[term] \subseteq UNION {NameTrigrams[base.recs[i].name] : i \in InBlock(b)}}

\* A short term has no trigrams, a small base no index of them.
Unfiltered(base, term) == term \in ShortTerms \/ Len(base.recs) < TRIGRAM_BLOCK

\* The records a term is looked for in.
Candidates(base, term) ==
  IF Unfiltered(base, term) THEN DOMAIN base.recs
  ELSE {i \in DOMAIN base.recs : BlockOf(i) \in candidate_blocks(base, term)}

NamesWith(base, term) == {i \in Candidates(base, term) : <<base.recs[i].name, term>> \in HasTerm}

-----------------------------------------------------------------------------
(* search_ranked *)

\* prefix_range: from the last bucket whose first name comes before the
\* prefix to the first name that comes after all that begin with it.
prefix_range(base, prefix) ==
  LET heads   == {i \in DOMAIN base.recs : (i - 1) % BUCKET_SIZE = 0 /\ <<base.recs[i].name, prefix>> \in Before}
      scanned == (IF heads = {} THEN 1 ELSE Max(heads)) .. Len(base.recs)
      matches == {i \in scanned : <<base.recs[i].name, prefix>> \in StartsWith}
      after   == {i \in scanned \ matches :
                    <<base.recs[i].name, prefix>> \notin Before /\ \E j \in matches : j < i}
  IN  IF prefix = EmptyTerm THEN DOMAIN base.recs
      ELSE IF matches = {} THEN {}
      ELSE Min(matches) .. Max({j \in matches : \A i \in after : j < i})

match_quality(name, pattern) ==
  IF <<name, pattern>> \in Equals THEN 0 ELSE IF <<name, pattern>> \in StartsWith THEN 1 ELSE 2

\* An unfiltered substring scan is spread over the threads; others are not.
search_ranked(view, kind, pattern, order, limit) ==
  LET base == view.base
      sharded == kind = "substring" /\ Unfiltered(base, pattern)
      KeysOf(refs) == {sort_key(view, order, ref, match_quality(NameOf(view, ref), pattern)) : ref \in refs}
      Matched(records) ==
        {BaseRef(i) : i \in (records \cap (IF kind = "prefix" THEN prefix_range(base, pattern)
                                           ELSE NamesWith(base, pattern))) \ view.delta.tombstones}
      ShardKeys(shard) == KeysOf(Matched(shard))
      heap  == IF sharded
               THEN RetainSharded({ShardKeys(s) : s \in BucketShards(Len(base.recs), Threads)}, limit)
               ELSE RetainAll({}, ShardKeys(DOMAIN base.recs), limit)
      added == {DeltaRef(i) : i \in
                  {j \in LiveAdded(view.delta) :
                     <<view.delta.added[j].name, pattern>> \in
                        IF kind = "prefix" THEN StartsWith ELSE HasTerm}}
  IN  Hits(RetainAll(heap, KeysOf(added), limit))

-----------------------------------------------------------------------------
(* search_path_terms *)

\* path_match_mask: which of the terms a name contains.
Mask(name, terms) == {k \in DOMAIN terms : <<name, terms[k]>> \in HasTerm}

\* record_matches_filter. A filter gives the kinds and extensions it wants,
\* and the sizes and times; NoFilter wants everything.
record_matches_filter(view, ref, filter) ==
  /\ File(view, ref).is_dir \in filter.kinds
  /\ filter.extensions # {} =>
       ~File(view, ref).is_dir /\ Extension[NameOf(view, ref)] \in filter.extensions
  /\ filter.sizes # 0 .. U32_MAX =>
       record_size_exact(view, ref) /\ record_size_kib(view, ref) \in filter.sizes
  /\ File(view, ref).mtime \in filter.mtimes

NoFilter == [kinds |-> BOOLEAN, extensions |-> {}, sizes |-> 0 .. U32_MAX, mtimes |-> 0 .. U32_MAX]

\* Mutant: tombstoned records contribute what is beneath them.
LiveWith_Dead(view, term) == NamesWith(view.base, term)

LiveWith(view, term) == NamesWith(view.base, term) \ view.delta.tombstones

\* build_term_interval_set: a directory counts with all that is beneath it.
build_term_interval_set(view, term) ==
  LET dfs == view.base.dfs IN
  Coalesce({IF i \in BaseDirs(view.base.recs)
            THEN Run(dfs.positions[i], dfs.ends[i])
            ELSE Run(dfs.positions[i], dfs.positions[i] + 1) : i \in LiveWith(view, term)})

\* build_short_single_term_set: one sweep over the positions, remembering
\* how far the directories met so far extend.
build_short_single_term_set(view, term) ==
  LET dfs == view.base.dfs
      own == {dfs.positions[i] : i \in LiveWith(view, term)}
      inherited_end[p \in 0 .. BaseLen(view) - 1] ==
        LET before == IF p = 0 THEN 0 ELSE inherited_end[p - 1]
            i      == DfsRecord(dfs, p)
        IN  IF p \in own /\ i \in BaseDirs(view.base.recs) THEN Max({before, dfs.ends[i]}) ELSE before
  IN  OfPoints({p \in 0 .. BaseLen(view) - 1 : p \in own \/ p < inherited_end[p]})

\* verify_path_seed: one term's candidates, each against all terms by a walk
\* up its live directories.
verify_path_seed(view, seed, terms) ==
  LET base == view.base
      Live(i) == IF i \in view.delta.tombstones THEN {} ELSE Mask(base.recs[i].name, terms)
      Dir(i)  == IF i \in BaseDirs(base.recs) THEN Live(i) ELSE {}
      inherited[hops \in 0 .. BaseLen(view)] ==
        [i \in 0 .. BaseLen(view) |->
           IF i = 0 \/ hops = 0 THEN {} ELSE Dir(i) \cup inherited[hops - 1][tree_parent(base, i)]]
      Verified(p) ==
        LET i == DfsRecord(base.dfs, p)
        IN  /\ i \notin view.delta.tombstones
            /\ Live(i) \cup inherited[BaseLen(view)][i] = DOMAIN terms
  IN  OfPoints({p \in Positions(seed) : Verified(p)})

\* What an addition inherits: through live added directories, then from the
\* terms' sets at the base directory it is under.
InheritedByAdded(view, terms, sets) ==
  LET added == view.delta.added
      inherited[i \in DOMAIN added] ==
        LET p == added[i].parent IN
        IF p[1] = "base"
        THEN {k \in DOMAIN terms : view.base.dfs.positions[p[2]] \in Positions(sets[k])}
        ELSE IF added[p[2]].live /\ FileOf[added[p[2]].frn].is_dir
        THEN Mask(added[p[2]].name, terms) \cup inherited[p[2]]
        ELSE {}
  IN  inherited

\* The terms in the order their sets are built: by how many blocks they may
\* be in, when nothing has been added.
CanPlan(view, terms) == Len(terms) > 1 /\ view.delta.added = <<>>

FirstTerm(view, terms) ==
  LET Cost(k) == Cardinality({BlockOf(i) : i \in Candidates(view.base, terms[k])})
  IN  IF CanPlan(view, terms)
      THEN CHOOSE k \in DOMAIN terms :
             \A j \in DOMAIN terms : Cost(k) < Cost(j) \/ (Cost(k) = Cost(j) /\ k <= j)
      ELSE 1

\* Mutant: an empty set ends the search whatever has been added.
Hopeless_IgnoresAdded(view, term, set) == set = <<>>

\* A term that neither a base record nor a live addition has.
Hopeless(view, term, set) ==
  /\ set = <<>>
  /\ \A i \in LiveAdded(view.delta) : <<view.delta.added[i].name, term>> \notin HasTerm

\* The sets of the terms, intersected in the order of their sizes.
FoldTerms(sets) ==
  LET sizes == {<<LenPositions(sets[k]), Len(sets[k]), k>> : k \in DOMAIN sets}
      order == InOrder(sizes, Lexicographic(sizes))
  IN  FoldLeft(LAMBDA acc, s : Intersect(sets[s[3]], acc), sets[order[1][3]], Tail(order))

\* Whether the first term's candidates can be verified one by one: they are
\* few, and their directories near enough (`fits`).
VerifiesSeed(view, terms, seed, fits) ==
  CanPlan(view, terms) /\ LenPositions(seed) <= PATH_VERIFY_CANDIDATES /\ fits

\* The base records found go to the heap through the workers if they are
\* many and their names are needed.
DenseParallel(view, order, filter, found) ==
  /\ order = "relevance" \/ filter.extensions # {}
  /\ Threads > 1 /\ LenPositions(found) >= CeilDiv(BaseLen(view), 4)

search_path_terms(view, terms, filter, order, limit, fits) ==
  LET sets   == [k \in DOMAIN terms |->
                   IF Len(terms) = 1 /\ terms[k] \in ShortTerms
                   THEN build_short_single_term_set(view, terms[k])
                   ELSE build_term_interval_set(view, terms[k])]
      first  == FirstTerm(view, terms)
      direct == VerifiesSeed(view, terms, sets[first], fits)
      found  == IF direct THEN verify_path_seed(view, sets[first], terms) ELSE FoldTerms(sets)
      Unmatched(ref) == Len(terms) - Cardinality(Mask(NameOf(view, ref), terms))
      KeysOf(refs) == {sort_key(view, order, ref, Unmatched(ref))
                         : ref \in {r \in refs : record_matches_filter(view, r, filter)}}
      ShardKeys(shard) ==
        KeysOf({BaseRef(i) : i \in shard \cap ({DfsRecord(view.base.dfs, p) : p \in Positions(found)}
                                                 \ view.delta.tombstones)})
      heap   == IF DenseParallel(view, order, filter, found)
                THEN RetainSharded({ShardKeys(s) : s \in BucketShards(BaseLen(view), Threads)}, limit)
                ELSE RetainAll({}, ShardKeys(DOMAIN view.base.recs), limit)
      inherited == InheritedByAdded(view, terms, sets)
      added  == {DeltaRef(i) : i \in
                   {j \in LiveAdded(view.delta) :
                      Mask(view.delta.added[j].name, terms) \cup inherited[j] = DOMAIN terms}}
  IN  IF terms = <<>> \/ Len(terms) > MAX_TERMS THEN {}
      ELSE IF Hopeless(view, terms[first], sets[first]) THEN {}
      ELSE IF ~direct /\ \E k \in DOMAIN terms : Hopeless(view, terms[k], sets[k]) THEN {}
      ELSE Hits(RetainAll(heap, KeysOf(added), limit))
=============================================================================
