------------------------------- MODULE Ranking -------------------------------
(***************************************************************************)
(* Sort keys, the bounded heap that retains the best of them, and the      *)
(* shards a scan is split into. A key is the rank bits above the record,   *)
(* smaller is better; the widths of the fields are parameters.             *)
(***************************************************************************)
EXTENDS Integers, FiniteSets, FiniteSetsExt

CONSTANTS
  NAME_LEN_MAX,  \* the longest name a key can tell from a longer one
  U32_MAX,       \* the largest size or time
  RECORD_SPAN,   \* more than any record's number
  BUCKET_SIZE    \* records that are front-coded together

ASSUME RankingAssumption ==
  /\ NAME_LEN_MAX \in Nat /\ U32_MAX \in Nat
  /\ RECORD_SPAN \in Nat \ {0} /\ BUCKET_SIZE \in Nat \ {0}

\* relevance_key, recent_key and largest_key, less the record.
RelevanceBits(quality, name_len) ==
  quality * (NAME_LEN_MAX + 1) + (IF name_len < NAME_LEN_MAX THEN name_len ELSE NAME_LEN_MAX)
RecentBits(mtime) == U32_MAX - mtime
LargestBits(size_kib) == U32_MAX - size_kib

KeyOf(bits, record) == bits * RECORD_SPAN + record
key_record(key) == key % RECORD_SPAN
key_rank_bits(key) == key \div RECORD_SPAN

\* retain_hit: a full heap takes a key that beats its worst.
RetainHit(heap, key, limit) ==
  IF Cardinality(heap) < limit THEN heap \cup {key}
  ELSE IF limit > 0 /\ key < Max(heap) THEN (heap \ {Max(heap)}) \cup {key}
  ELSE heap

RetainAll(heap, keys, limit) ==
  FoldSet(LAMBDA key, kept : RetainHit(kept, key, limit), heap, keys)

CeilDiv(a, b) == (a + b - 1) \div b

\* bucket_shards: the records of each worker.
BucketShards(n, threads) ==
  LET buckets == CeilDiv(n, BUCKET_SIZE)
      width   == BUCKET_SIZE * Max({CeilDiv(buckets, Max({threads, 1})), 1})
  IN  {first .. Min({first + width - 1, n}) : first \in {k \in 1 .. n : (k - 1) % width = 0}}

\* Each worker retains the best of its shard's keys; those are merged the same
\* way.
RetainSharded(shardKeys, limit) ==
  RetainAll({}, UNION {RetainAll({}, keys, limit) : keys \in shardKeys}, limit)
=============================================================================
