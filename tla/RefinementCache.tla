--------------------------- MODULE RefinementCache ---------------------------
(***************************************************************************)
(* One connection that searches as its user types, the volumes' views that *)
(* the workers replace meanwhile, and the candidates it keeps from one     *)
(* query to the next. Every query is answered by search or, when it only   *)
(* narrows the one before it, by filtering those.                          *)
(***************************************************************************)
EXTENDS Search

CONSTANTS
  Volumes,              \* their slots in the list of indexes
  FirstBases,           \* volume -> the bases it may have first
  LaterBases,           \* volume -> those that may replace it
  Batches,              \* volume -> sequences of journal events
  Queries,              \* what may be asked
  Extends,              \* pairs of terms, the first begins with the second
  REFINEMENT_CACHE_CAP,
  MaxGeneration         \* bound: generations taken

Directories == {f \in DOMAIN FileOf : FileOf[f].is_dir}

\* What a base is made of: records sorted by name, whose parents are directories.
BaseRecords(recs) ==
  /\ recs \in Seq([frn : DOMAIN FileOf, name : Names, parent : Nat])
  /\ \A i, j \in DOMAIN recs : i < j => recs[i].name <= recs[j].name
  /\ \A i \in DOMAIN recs : recs[i].parent \in DOMAIN recs => recs[recs[i].parent].frn \in Directories

JournalEvent == [kind : {"created", "deleted", "renamed"}, frn : DOMAIN FileOf, parent : Directories, name : Names]

\* No more is ever added to a base than there are numbers for.
Numbered(v) ==
  \E most \in 0 .. RECORD_SPAN :
    /\ \A batch \in Batches[v] : Len(batch) <= most
    /\ \A base \in FirstBases[v] \cup LaterBases[v] :
         Len(base.recs) + (most * MaxGeneration) < RECORD_SPAN

ASSUME RefinementAssumption ==
  /\ REFINEMENT_CACHE_CAP \in Nat \ {0} /\ MaxGeneration \in Nat
  /\ Volumes = 1 .. Cardinality(Volumes) /\ Cardinality(Volumes) \in 0 .. MaxGeneration
  /\ \A v \in Volumes : \A base \in FirstBases[v] \cup LaterBases[v] :
       base = Arena(base.recs) /\ BaseRecords(base.recs)
  /\ \A v \in Volumes : Batches[v] \subseteq Seq(JournalEvent) /\ Numbered(v)
  /\ \A q \in Queries :
       /\ q.kind \in {"prefix", "substring", "path"} /\ q.terms \in Seq(Terms) /\ q.limit \in Nat
       /\ q.order \in {"relevance", "recent", "largest"} /\ (q.kind # "path" => Len(q.terms) = 1)
  /\ \A p \in Extends, n \in Names :
       /\ <<n, p[1]>> \in HasTerm => <<n, p[2]>> \in HasTerm
       /\ <<n, p[1]>> \in StartsWith => <<n, p[2]>> \in StartsWith
  /\ \A v \in Volumes, f \in DOMAIN FileOf :
       (\E batch \in Batches[v] : \E k \in DOMAIN batch : batch[k].kind = "created" /\ batch[k].frn = f)
         => \A base \in FirstBases[v] \cup LaterBases[v] : f \notin DOMAIN base.frns

VARIABLES
  views,      \* volume -> the published view
  generation, \* the last one taken from fresh_generation
  cache,      \* RefinementCache
  asked,      \* the query just answered, NoQuery once the answer is sent
  answer,     \* its hits, best first
  reused      \* volumes it was answered for from the cache

vars == <<views, generation, cache, asked, answer, reused>>

NoQuery == [kind |-> "none", terms |-> <<>>, filter |-> NoFilter, order |-> "relevance", limit |-> 0]
NoCandidates == [generation |-> 0, hits |-> {}]
Nothing == [v \in Volumes |-> NoCandidates]

Init ==
  /\ \E bases \in [Volumes -> UNION {FirstBases[v] : v \in Volumes}] :
       /\ \A v \in Volumes : bases[v] \in FirstBases[v]
       /\ views = [v \in Volumes |-> [base |-> bases[v], delta |-> NewDelta, generation |-> v]]
  /\ generation = Cardinality(Volumes)
  /\ cache = [kind |-> "none", order |-> "relevance", terms |-> <<>>, per_volume |-> Nothing]
  /\ asked = NoQuery /\ answer = <<>> /\ reused = {}

-----------------------------------------------------------------------------
(* A worker publishes: a batch applied to the overlay, or another base.    *)

AllApplied(view, batch) ==
  FoldLeft(LAMBDA deltas, event : UNION {Apply(d, view.base, event) : d \in deltas}, {view.delta}, batch)

Publish(v) ==
  /\ asked = NoQuery
  /\ generation < MaxGeneration
  /\ generation' = generation + 1
  /\ \/ \E batch \in Batches[v] : \E delta \in AllApplied(views[v], batch) :
          views' = [views EXCEPT ![v] = [base |-> views[v].base, delta |-> delta, generation |-> generation']]
     \/ \E base \in LaterBases[v] :
          views' = [views EXCEPT ![v] = [base |-> base, delta |-> NewDelta, generation |-> generation']]
  /\ UNCHANGED <<cache, asked, answer, reused>>

-----------------------------------------------------------------------------
(* search_indexes_with_cache_with_spans. The views of the volumes are loaded *)
(* one after the other; a volume published in between counts as before.      *)

\* search_hits_cancellable_with_spans
search_hits(view, q, limit, fits) ==
  IF q.kind \in {"prefix", "substring"}
  THEN search_ranked(view, q.kind, q.terms[1], q.order, limit)
  ELSE search_path_terms(view, q.terms, q.filter, q.order, limit, fits)

\* refinable_terms: filters and patterns are not.
Refinable(q) == q.kind \in {"prefix", "substring", "path"} /\ q.filter = NoFilter

is_refinement(old_terms, new_terms) ==
  /\ old_terms # <<>> /\ Len(new_terms) >= Len(old_terms)
  /\ \A k \in DOMAIN old_terms : <<new_terms[k], old_terms[k]>> \in Extends

Refines(q) == cache.kind = q.kind /\ cache.order = q.order /\ is_refinement(cache.terms, q.terms)

\* The parents a refined match walks up, dead or alive.
ParentWalk(view, ref) ==
  IF ref[1] = "base"
  THEN {BaseRef(p) : p \in {tree_parent(view.base, ref[2])} \ {0}}
  ELSE {view.delta.added[ref[2]].parent}

\* matches_path_terms_lower: which terms a record and its ancestors have.
Reached(view, ref, terms) ==
  LET n == BaseLen(view) + Len(view.delta.added)
      up[k \in 0 .. n] ==
        IF k = 0 THEN {ref} ELSE up[k - 1] \cup UNION {ParentWalk(view, r) : r \in up[k - 1]}
  IN  UNION {Mask(NameOf(view, r), terms) : r \in up[n]}

matches_refined(view, ref, q) ==
  CASE q.kind = "prefix"    -> <<NameOf(view, ref), q.terms[1]>> \in StartsWith
    [] q.kind = "substring" -> <<NameOf(view, ref), q.terms[1]>> \in HasTerm
    [] q.kind = "path"      -> /\ Len(q.terms) <= MAX_TERMS
                               /\ Reached(view, ref, q.terms) = DOMAIN q.terms

hit_quality(view, ref, q) ==
  IF q.kind = "path" THEN Len(q.terms) - Cardinality(Mask(NameOf(view, ref), q.terms))
  ELSE match_quality(NameOf(view, ref), q.terms[1])

\* A hit that is kept is ranked again for the new terms.
Filtered(view, q, hits) ==
  { IF q.order = "relevance"
    THEN [hit EXCEPT !.rank_bits =
            SortBits(view, q.order, RefOf(view, hit.record), hit_quality(view, RefOf(view, hit.record), q))]
    ELSE hit
    : hit \in {h \in hits : matches_refined(view, RefOf(view, h.record), q)} }

\* The candidates kept are used while the view is still the one they are of.
\* Mutant: whatever has been published since.
Reuses_AnyGeneration(q) ==
  IF Refines(q) THEN {v \in Volumes : cache.per_volume[v].generation # 0} ELSE {}

Reuses(q) ==
  IF Refines(q)
  THEN {v \in Volumes : cache.per_volume[v].generation = views[v].generation}
  ELSE {}

\* Overscanning starts with the second query.
ScanLimit(q) == IF cache.kind = "none" THEN q.limit ELSE REFINEMENT_CACHE_CAP

VolumeHits(q, fits) ==
  [v \in Volumes |->
     IF v \in Reuses(q) THEN Filtered(views[v], q, cache.per_volume[v].hits)
     ELSE search_hits(views[v], q, ScanLimit(q), fits)]

\* Mutant: a list that was cut off at the cap counts as complete.
Kept_Full(q, hits) ==
  [v \in Volumes |->
     IF ScanLimit(q) = REFINEMENT_CACHE_CAP
     THEN [generation |-> views[v].generation, hits |-> hits[v]]
     ELSE NoCandidates]

\* Only a list shorter than a scan at the full cap is known to be complete.
Kept(q, hits) ==
  [v \in Volumes |->
     IF ScanLimit(q) = REFINEMENT_CACHE_CAP /\ Cardinality(hits[v]) < REFINEMENT_CACHE_CAP
     THEN [generation |-> views[v].generation, hits |-> hits[v]]
     ELSE NoCandidates]

\* The hits of all volumes by rank, then volume, then record.
RankSorted(hits) ==
  LET all == UNION {{<<h.rank_bits, v, h.record>> : h \in hits[v]} : v \in Volumes}
      sorted == InOrder(all, Lexicographic(all))
  IN  [k \in DOMAIN sorted |-> <<sorted[k][2], sorted[k][3]>>]

\* Mutant: each volume's limit is taken to be enough.
Merged_All(hits, limit) == RankSorted(hits)

\* rank_sort_truncate_hits
Merged(hits, limit) ==
  LET sorted == RankSorted(hits) IN SubSeq(sorted, 1, Min({limit, Len(sorted)}))

FitChoices(q) == IF q.kind = "path" /\ Len(q.terms) > 1 THEN BOOLEAN ELSE {TRUE}

\* A refinable query that is not cancelled.
Search(q) ==
  /\ asked = NoQuery /\ Refinable(q) /\ q.limit > 0
  /\ \E fits \in FitChoices(q) :
       LET hits == VolumeHits(q, fits) IN
       /\ answer' = Merged(hits, q.limit)
       /\ cache' = [kind |-> q.kind, order |-> q.order, terms |-> q.terms, per_volume |-> Kept(q, hits)]
  /\ asked' = q /\ reused' = Reuses(q)
  /\ UNCHANGED <<views, generation>>

\* Any other: the cache stays, for a later query to refine.
Bypass(q) ==
  /\ asked = NoQuery /\ ~Refinable(q) /\ q.limit > 0
  /\ \E fits \in FitChoices(q) :
       answer' = Merged([v \in Volumes |-> search_hits(views[v], q, q.limit, fits)], q.limit)
  /\ asked' = q /\ reused' = {}
  /\ UNCHANGED <<views, generation, cache>>

\* Mutant: the terms are taken over before the volumes are searched.
Superseded_TakesTerms(q) ==
  /\ asked = NoQuery /\ Refinable(q)
  /\ cache' = [cache EXCEPT !.terms = q.terms, !.per_volume = IF Refines(q) THEN @ ELSE Nothing]
  /\ UNCHANGED <<views, generation, asked, answer, reused>>

\* A query that is cancelled is answered with nothing, after dropping the
\* candidates it cannot use or before. The terms are still the old ones.
Superseded(q) ==
  /\ asked = NoQuery /\ Refinable(q)
  /\ cache' = [cache EXCEPT !.per_volume = IF Refines(q) THEN @ ELSE Nothing]
  /\ UNCHANGED <<views, generation, asked, answer, reused>>

\* The answer is sent.
Deliver ==
  /\ asked # NoQuery
  /\ asked' = NoQuery /\ answer' = <<>> /\ reused' = {}
  /\ UNCHANGED <<views, generation, cache>>

Next ==
  \/ \E v \in Volumes : Publish(v)
  \/ \E q \in Queries : Search(q) \/ Bypass(q) \/ Superseded(q)
  \/ Deliver

Spec == Init /\ [][Next]_vars

-----------------------------------------------------------------------------
(* Reference: what a search means. *)

Live(view) == LiveRecords(view.base, view.delta)

\* The records above one: its parents, dead or alive, as far as they lead or to
\* the first dead addition.
Above(view, ref) ==
  LET n == BaseLen(view) + Len(view.delta.added)
      Onward(r) == IF r[1] = "delta" /\ r \notin Live(view) THEN {} ELSE ParentWalk(view, r)
      up[k \in 0 .. n] ==
        IF k = 0 THEN ParentWalk(view, ref) ELSE up[k - 1] \cup UNION {Onward(r) : r \in up[k - 1]}
  IN  up[n]

\* Live, but a directory above it was renamed or deleted away.
StrandedIn(view) == {ref \in Live(view) : ~(Above(view, ref) \subseteq Live(view))}

\* Each term is in the name, or in that of a live directory above.
Wanted(view, ref, q) ==
  CASE q.kind = "prefix"    -> <<NameOf(view, ref), q.terms[1]>> \in StartsWith
    [] q.kind = "substring" -> <<NameOf(view, ref), q.terms[1]>> \in HasTerm
    [] q.kind = "path"      ->
         /\ Len(q.terms) \in 1 .. MAX_TERMS /\ record_matches_filter(view, ref, q.filter)
         /\ \A k \in DOMAIN q.terms :
              \E r \in {ref} \cup {a \in Above(view, ref) \cap Live(view) : File(view, a).is_dir} :
                <<NameOf(view, r), q.terms[k]>> \in HasTerm

RankedHit(view, ref, q) ==
  [record |-> Combined(view, ref), rank_bits |-> SortBits(view, q.order, ref, hit_quality(view, ref, q))]

Expected(view, q) == {RankedHit(view, ref, q) : ref \in {r \in Live(view) : Wanted(view, r, q)}}

\* A name alone decides, or every record that could be found is where its
\* directories are.
Decided(view, q) == q.kind # "path" \/ StrandedIn(view) = {}

-----------------------------------------------------------------------------
(* Properties *)

Slots == 1 .. RECORD_SPAN - 1

TypeOK ==
  /\ generation \in Cardinality(Volumes) .. MaxGeneration
  /\ \A v \in Volumes :
       /\ views[v].generation \in 1 .. generation
       /\ views[v].delta.tombstones \subseteq DOMAIN views[v].base.recs
       /\ cache.per_volume[v].generation \in 0 .. generation
       /\ cache.per_volume[v].hits \subseteq [record : Slots, rank_bits : Nat]
  /\ cache.kind \in {"none", "prefix", "substring", "path"}
  /\ asked \in Queries \cup {NoQuery} /\ Len(answer) <= asked.limit
  /\ answer \in Seq(Volumes \X Slots) /\ reused \subseteq Volumes

BestMatches(q) == Merged([v \in Volumes |-> Expected(views[v], q)], q.limit)

\* The answer is the best of what matches in all volumes, whichever way each
\* was searched, by whichever threads, and whatever was published before. A
\* limit over the cap is not kept: later scans stop at the cap.
AnswerExact ==
  asked # NoQuery =>
    \/ asked.limit > REFINEMENT_CACHE_CAP
    \/ \E v \in reused : ~Decided(views[v], asked)
    \/ answer = BestMatches(asked)

\* What the cache holds of the current view is all that its terms match there:
\* nothing that a longer query needs is missing.
CacheComplete ==
  LET q == [kind |-> cache.kind, terms |-> cache.terms, filter |-> NoFilter,
            order |-> cache.order, limit |-> 0]
  IN  \A v \in Volumes :
        cache.per_volume[v].generation = views[v].generation /\ Decided(views[v], q) =>
          cache.per_volume[v].hits = Expected(views[v], q)
=============================================================================
