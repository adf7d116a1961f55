----------------------------- MODULE NameColumn -----------------------------
(***************************************************************************)
(* The front-coded names of an arena and their trigram index: how they are *)
(* written, read back and searched. A name is a sequence of bytes. Records *)
(* count from 1, bytes of a blob, buckets and blocks from 0.               *)
(***************************************************************************)
EXTENDS TreeLayout

CONSTANTS
  BUCKET_SIZE,    \* names in a bucket (16 in the code)
  VARINT,         \* values of a varint byte (128)
  TRIGRAM_BLOCK,  \* records in a block of the trigram index (1024)
  TRIGRAM_ROWS    \* rows of that index (2^14)

-----------------------------------------------------------------------------
(* Bytes *)

to_ascii_lowercase(byte) == IF byte \in 65 .. 90 THEN byte + 32 ELSE byte
Lowered(bytes) == [i \in DOMAIN bytes |-> to_ascii_lowercase(bytes[i])]

\* cmp_ci is Less
Less(a, b) ==
  LET x == Lowered(a)
      y == Lowered(b)
      differ == {i \in DOMAIN x \cap DOMAIN y : x[i] # y[i]}
  IN  IF differ = {} THEN Len(a) < Len(b) ELSE x[Lowest(differ)] < y[Lowest(differ)]

starts_with_ci(name, prefix) == IsPrefix(Lowered(prefix), Lowered(name))

common_prefix_len(a, b) ==
  Cardinality({n \in DOMAIN a \cap DOMAIN b : SubSeq(a, 1, n) = SubSeq(b, 1, n)})

-----------------------------------------------------------------------------
(* Writing *)

write_varint(value) ==
  LET write[v \in Nat] ==
        IF v < VARINT THEN <<v>> ELSE <<VARINT + (v % VARINT)>> \o write[v \div VARINT]
  IN  write[value]

\* trigram_hash, reduced to what matters: one row for three bytes in any case.
trigram_hash(bytes) ==
  LET b == Lowered(bytes) IN (b[1] * 65536 + b[2] * 256 + b[3]) % TRIGRAM_ROWS

for_each_trigram(name) == {trigram_hash(SubSeq(name, i, i + 2)) : i \in 1 .. Len(name) - 2}

num_blocks(records) == (records + TRIGRAM_BLOCK - 1) \div TRIGRAM_BLOCK

index_trigrams(index, name) == {<<hash, index \div TRIGRAM_BLOCK>> : hash \in for_each_trigram(name)}

\* FrontCoder::push. A bucket's first name is whole, the others continue a
\* prefix of the one before.
Push(coder, name) ==
  LET shared == common_prefix_len(coder.prev, name)
      suffix == SubSeq(name, shared + 1, Len(name))
      first  == coder.index % BUCKET_SIZE = 0
      coded  == IF first THEN write_varint(Len(name)) \o name
                ELSE write_varint(shared) \o write_varint(Len(suffix)) \o suffix
  IN  [blob |-> coder.blob \o coded,
       offsets |-> IF first THEN Append(coder.offsets, Len(coder.blob)) ELSE coder.offsets,
       prev |-> name, index |-> coder.index + 1,
       trigrams |-> coder.trigrams \cup index_trigrams(coder.index, name)]

NewCoder == [blob |-> <<>>, offsets |-> <<>>, prev |-> <<>>, index |-> 0, trigrams |-> {}]

\* A small arena has no trigram index at all.
front_code(names) ==
  LET coder == FoldLeft(Push, NewCoder, names)
  IN  [count |-> Len(names), names |-> coder.blob,
       bucket_offsets |-> Append(coder.offsets, Len(coder.blob)),
       indexed |-> Len(names) >= TRIGRAM_BLOCK, trigram_index |-> coder.trigrams]

-----------------------------------------------------------------------------
(* Reading *)

\* The value at a place of a buffer, and the place after it.
read_varint(buf, at) ==
  LET last == Lowest({p \in at .. Len(buf) : buf[p] < VARINT})
  IN  [value |-> FoldRight(LAMBDA byte, sum : (byte % VARINT) + VARINT * sum, SubSeq(buf, at, last), 0),
       at |-> last + 1]

Buckets(column) == Len(column.bucket_offsets) - 1
BucketStart(b) == b * BUCKET_SIZE
BucketEnd(column, b) ==
  LET end == BucketStart(b) + BUCKET_SIZE IN IF end < column.count THEN end ELSE column.count

Bucket(column, b) ==
  SubSeq(column.names, column.bucket_offsets[b + 1] + 1, column.bucket_offsets[b + 2])

\* A bucket's first name, and where the next one begins.
bucket_head(column, b) ==
  LET buf   == Bucket(column, b)
      first == read_varint(buf, 1)
      end   == first.at + first.value
  IN  [at |-> end, repeated |-> FALSE, name |-> SubSeq(buf, first.at, end - 1)]

Repeats(previous, shared, suffix_len) == shared = Len(previous) /\ suffix_len = 0

\* The next name of a bucket, and whether it is the one before again.
DecodeNext(buf, cursor) ==
  LET shared == read_varint(buf, cursor.at)
      suffix == read_varint(buf, shared.at)
      end    == suffix.at + suffix.value
  IN  [at |-> end, repeated |-> Repeats(cursor.name, shared.value, suffix.value),
       name |-> SubSeq(cursor.name, 1, shared.value) \o SubSeq(buf, suffix.at, end - 1)]

\* The first so many names of a bucket.
Decode(column, b, count) ==
  FoldLeft(LAMBDA seen, k : Append(seen, DecodeNext(Bucket(column, b), Last(seen))),
           <<bucket_head(column, b)>>, [k \in 1 .. count - 1 |-> k])

name_into(column, record) ==
  Last(Decode(column, (record - 1) \div BUCKET_SIZE, ((record - 1) % BUCKET_SIZE) + 1)).name

\* All the names of some buckets, each with its record.
Walk(column, first, last) ==
  LET Numbered(b, names) == [i \in DOMAIN names |-> [record |-> BucketStart(b) + i, name |-> names[i].name,
                                                     repeated |-> names[i].repeated]]
      Of(b) == Numbered(b, Decode(column, b, BucketEnd(column, b) - BucketStart(b)))
  IN  FlattenSeq([k \in 1 .. last - first + 1 |-> Of(first + k - 1)])

for_each_name(column) == Walk(column, 0, Buckets(column) - 1)

\* The names of the records after start and up to end; what a range begins
\* with repeats nothing.
for_each_name_in(column, start, end) ==
  LET stop   == IF end < column.count THEN end ELSE column.count
      Within == SelectSeq(Walk(column, start \div BUCKET_SIZE, (stop - 1) \div BUCKET_SIZE),
                          LAMBDA seen : seen.record > start /\ seen.record <= stop)
  IN  IF start >= stop THEN <<>>
      ELSE [i \in DOMAIN Within |-> [Within[i] EXCEPT !.repeated = @ /\ i > 1]]

-----------------------------------------------------------------------------
(* Searching *)

\* The first bucket whose first name is not less than the target: the names
\* that are not may begin in the bucket before it.
FirstBucketNotBelow(column, target) ==
  LET search[lo \in Nat, hi \in Nat] ==
        LET mid == lo + (hi - lo) \div 2
        IN  IF lo >= hi THEN lo
            ELSE IF Less(bucket_head(column, mid).name, target) THEN search[mid + 1, hi]
            ELSE search[lo, mid]
  IN  search[0, Buckets(column)]

\* Mutant: the search begins at the bucket found.
StartBucket_Found(column, target) == FirstBucketNotBelow(column, target)

StartBucket(column, target) ==
  LET found == FirstBucketNotBelow(column, target) IN IF found = 0 THEN 0 ELSE found - 1

\* How many names are less than the target.
lower_bound_name(column, target) ==
  LET Before(tail) ==
        LET not_below == {i \in DOMAIN tail : ~Less(tail[i].name, target)}
        IN  IF not_below = {} THEN column.count ELSE tail[Lowest(not_below)].record - 1
  IN  Before(Walk(column, StartBucket(column, target), Buckets(column) - 1))

\* One name of prefix_range's scan. The first name of a bucket is judged
\* apart from the others, and the bucket as a whole by it.
ScanName(scan, seen, prefix) ==
  LET matches == starts_with_ci(seen.name, prefix)
      before  == Less(seen.name, prefix) /\ ~matches
      first   == (seen.record - 1) % BUCKET_SIZE = 0
      beyond  == /\ Len(seen.name) >= Len(prefix)
                 /\ Less(prefix, SubSeq(seen.name, 1, Len(prefix)))
      found   == [scan EXCEPT !.lo = IF @ = -1 THEN seen.record - 1 ELSE @, !.hi = seen.record]
  IN  IF scan.stop THEN scan
      ELSE IF first /\ ~scan.past /\ beyond /\ scan.lo # -1 THEN [scan EXCEPT !.stop = TRUE]
      ELSE IF matches THEN IF first THEN found ELSE [found EXCEPT !.past = FALSE]
      ELSE IF before \/ scan.lo = -1 THEN scan
      ELSE IF first /\ ~scan.past THEN [scan EXCEPT !.past = TRUE]
      ELSE [scan EXCEPT !.stop = TRUE]

\* The records [lo, hi) whose names begin with a prefix.
prefix_range(column, prefix) ==
  LET lowered == Lowered(prefix)
      Found(scan) == IF scan.lo = -1 THEN [lo |-> 0, hi |-> 0] ELSE [lo |-> scan.lo, hi |-> scan.hi]
  IN  IF prefix = <<>> THEN [lo |-> 0, hi |-> column.count]
      ELSE Found(FoldLeft(LAMBDA state, seen : ScanName(state, seen, lowered),
                          [lo |-> -1, hi |-> -1, past |-> FALSE, stop |-> FALSE],
                          Walk(column, StartBucket(column, lowered), Buckets(column) - 1)))

\* The blocks that may hold all of the trigrams of a literal.
Rows(column, literal) ==
  {b \in 0 .. num_blocks(column.count) - 1 :
     \A hash \in for_each_trigram(literal) : <<hash, b>> \in column.trigram_index}

\* Every block, when nothing can be ruled out.
AllBlocks(column) == 0 .. num_blocks(column.count) - 1

candidate_blocks(column, needle) ==
  IF Len(needle) < 3 \/ ~column.indexed THEN AllBlocks(column) ELSE Rows(column, needle)

\* Some literal of every clause.
candidate_blocks_for_clauses(column, clauses) ==
  IF clauses = {} \/ ~column.indexed \/ (\E clause \in clauses : \E literal \in clause : Len(literal) < 3)
  THEN AllBlocks(column)
  ELSE {b \in AllBlocks(column) : \A clause \in clauses : \E literal \in clause : b \in Rows(column, literal)}
=============================================================================
