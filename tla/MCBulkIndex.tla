---------------------------- MODULE MCBulkIndex ----------------------------
(* Small volumes: layouts of the MFT, ways to spread files over records,   *)
(* and names that share prefixes, differ in case or are equal.             *)
EXTENDS IndexColumns

MCVolumeName == <<67, 58>>
ab == <<97, 98>>
AB == <<65, 66>>
abc == <<97, 98, 99>>
abCab == <<97, 98, 67, 97, 98>>
b == <<98>>

cab == <<99, 97, 98>>
stu == <<115, 116, 117>>
longstu == LONG_S \o <<116, 117>>

MCNeedles == {<<>>, <<97>>, <<66>>, abc, <<98, 99, 97>>, abCab, <<99>>, <<98, 99, 99>>}

\* Two clauses, a literal that may be missing, branches of which one is short,
\* more clauses and more alternatives than are kept, a letter with two cases.
MCRegexQueries ==
  {Concat(<<Alternation(<<Literal(abc), Literal(cab)>>), Repeated(0, AnyOne), Literal(b)>>),
   Concat(<<Literal(ab), Optional(Literal(cab))>>), Repeated(1, Capture(Literal(AB))),
   Alternation(<<Literal(abc), Literal(ab)>>), Alternation(<<Literal(abc), Literal(stu)>>),
   Alternation(<<Literal(abc), Literal(abCab), Literal(stu)>>),
   Concat(<<Literal(abc), AnyOne, Literal(b), Literal(abc)>>),
   Concat(<<Literal(abc), Repeated(0, AnyOne), Literal(cab), Repeated(0, Literal(stu)), AtEnd>>),
   Alternation(<<Concat(<<Literal(abCab), Repeated(0, AnyOne), Literal(<<98, 99, 97>>)>>),
                 Concat(<<AtStart, Literal(stu), Repeated(1, AnyOne), Literal(abc)>>),
                 Concat(<<Literal(abc), AnyOne, AnyOne>>)>>)}

\* a*, *abc*, ?B, abc?b*, *cab, the empty one.
MCWildcards ==
  {<<97, STAR>>, <<STAR>> \o abc \o <<STAR>>, <<QUESTION_MARK, 66>>,
   abc \o <<QUESTION_MARK, 98, STAR>>, <<STAR>> \o cab, <<>>}

-----------------------------------------------------------------------------

In(parent, name) == [parent |-> <<1, parent>>, namespace |-> 3, name |-> name]
InSpace(parent, space, name) == [parent |-> <<1, parent>>, namespace |-> space, name |-> name]

File(parent, name) == NewFile(1, <<In(parent, name)>>)
Directory(parent, name) == [File(parent, name) EXCEPT !.dir = TRUE, !.data = <<>>]
Free == Blank(1)
Extension(of, names, data) ==
  [Blank(1) EXCEPT !.in_use = TRUE, !.base = <<1, of>>, !.names = names, !.data = data]
Whole1 == <<[size |-> 5000, first |-> TRUE]>>
Rest1 == <<[size |-> 5000, first |-> FALSE]>>

\* The MFT, the root directory, and what comes after.
Disk(rest) ==
  LET all == <<File(1, <<36>>), Directory(1, DOT)>> \o rest
  IN  [n \in 0 .. Len(all) - 1 |-> all[n + 1]]

\* A base record whose attributes are in other records.
Listing(number, record, others) ==
  [record EXCEPT !.list = "resident",
     !.entries = Listed(record, <<1, number>>)
       \o FlattenSeq([i \in DOMAIN others |-> Listed(others[i][2], <<1, others[i][1]>>)])]

Boot(cluster) ==
  [ntfs |-> TRUE, bytes_per_sector |-> 512, sectors_per_cluster |-> cluster, record_scale |-> 246,
   mft_start_lcn |-> 4]

Run(lcn, count) == [lcn |-> lcn, cluster_count |-> count]

\* Layouts: 1 KiB clusters in three runs, the second before the first.
Scattered ==
  [boot |-> Boot(2), continued |-> FALSE, physical_sector |-> 512, run_bytes |-> <<17, 3, 4, 17, 1, 253, 33, 5, 9, 0, 0>>,
   geometry |-> [cluster_size |-> 1024, file_record_size |-> 1024],
   runs |-> <<Run(4, 3), Run(1, 1), Run(10, 5)>>]

\* 4 KiB clusters on sectors of 4 KiB.
Coarse ==
  [boot |-> Boot(8), continued |-> FALSE, physical_sector |-> 4096, run_bytes |-> <<17, 1, 4, 17, 2, 254, 0>>,
   geometry |-> [cluster_size |-> 4096, file_record_size |-> 1024], runs |-> <<Run(4, 1), Run(2, 2)>>]

\* 1 KiB clusters on sectors of 4 KiB, the first run no whole number of them.
Cut == [Scattered EXCEPT !.physical_sector = 4096]

\* 512-byte clusters: a record lies across two runs.
Straddling ==
  [boot |-> Boot(1), continued |-> FALSE, physical_sector |-> 512, run_bytes |-> <<17, 5, 4, 17, 11, 20, 0>>,
   geometry |-> [cluster_size |-> 512, file_record_size |-> 1024], runs |-> <<Run(4, 5), Run(24, 11)>>]

\* 64 KiB clusters, and 128 KiB: both are written as what looks negative.
Huge == [Coarse EXCEPT !.boot = Boot(128), !.geometry.cluster_size = 65536]
Huger == [Coarse EXCEPT !.boot = Boot(248), !.geometry.cluster_size = 131072]

\* Record zero names only the first of the runs; a sparse run; no end.
Continued == [Scattered EXCEPT !.run_bytes = <<17, 3, 4, 0>>, !.continued = TRUE]
Holed == [Scattered EXCEPT !.run_bytes = <<17, 3, 4, 1, 1, 17, 4, 6, 0>>]
Endless == [Scattered EXCEPT !.run_bytes = <<17, 3, 4, 17, 1>>]

\* Where on the disk each 512 bytes of the MFT are.
Sectors(layout) ==
  FlattenSeq([j \in DOMAIN layout.runs |->
    LET start == layout.runs[j].lcn * layout.geometry.cluster_size
    IN  [s \in 1 .. RunBytes(layout.runs[j], layout.geometry) \div 512 |-> start + (s - 1) * 512]])

With(layout, rest, busy, bound, torn, names) ==
  LET records == Disk(rest)
      sectors == Sectors(layout)
      Place(n) == LET at == sectors[2 * n + 1] IN IF sectors[2 * n + 2] = at + 512 THEN Ok(at) ELSE Invalid
  IN  layout @@ [disk |-> records, stream_size |-> 1024 * Len(rest) + 2048, busy |-> busy,
                 offsets |-> [n \in DOMAIN records |-> Place(n)],
                 changes |-> bound, torn |-> torn, names |-> names]

-----------------------------------------------------------------------------

\* Two directories, one in the other, both of which move: cycles.
Moving == <<Directory(3, ab), Directory(1, b), File(2, abc)>>

\* A file all of whose attributes an extension after it has, another whose
\* extension lies before it, and a free record.
Spread ==
  <<Extension(4, <<>>, Whole1), Directory(1, ab),
    Listing(4, [File(3, abc) EXCEPT !.data = <<>>], <<<<2, Extension(4, <<>>, Whole1)>>>>),
    Listing(5, [File(3, b) EXCEPT !.data = <<>>, !.names = <<>>, !.mtime = <<>>],
            <<<<6, [Extension(5, <<In(3, b)>>, Whole1) EXCEPT !.mtime = <<2>>]>>>>),
    [Extension(5, <<In(3, b)>>, Whole1) EXCEPT !.mtime = <<2>>], Free>>

\* The same, with a file for the free record.
Crowded == [Spread EXCEPT ![6] = File(1, AB)]

\* A short name before the long one, two links, a POSIX name, a list that is
\* elsewhere, a file in two extents.
Odd ==
  <<[File(1, ab) EXCEPT !.names = <<InSpace(1, 2, AB), InSpace(1, 0, b), In(1, abCab), In(1, ab)>>],
    [File(1, b) EXCEPT !.names = <<InSpace(1, 0, b)>>],
    [File(1, abc) EXCEPT !.list = "nonresident", !.data = <<>>],
    Listing(5, [File(1, AB) EXCEPT !.data = <<>>],
            <<<<6, Extension(5, <<>>, Whole1)>>, <<7, Extension(5, <<>>, Rest1)>>>>),
    Extension(5, <<>>, Whole1), Extension(5, <<>>, Rest1), [Free EXCEPT !.file = FALSE]>>

Plain == <<Directory(1, ab), File(2, abc), File(2, abCab), File(1, b)>>
Folded == <<File(1, stu), File(1, longstu), File(1, abc), File(1, abCab), File(1, stu)>>

\* Names of every kind, next to each other in every order.
Named ==
  {<<Directory(1, c), File(IF d = f THEN 1 ELSE 2, d), [File(2, e) EXCEPT !.data = <<>>], File(1, f), File(2, b)>> :
     c \in {ab, AB, abc}, d \in {ab, AB, abc, abCab, b}, e \in {ab, AB, abc, abCab, b}, f \in {ab, abc, abCab}}

MCVolumes ==
  {With(Scattered, Moving, {2, 3}, 3, 0, {ab}), With(Scattered, Spread, {4, 7}, 2, 1, {abc}),
   With(Scattered, Spread, {5, 7}, 2, 0, {ab}), With(Coarse, Spread, {3, 4, 7}, 1, 2, {ab}),
   With(Scattered, Crowded, {5, 6, 7}, 2, 1, {}),
   With(Scattered, Odd, {}, 0, 1, {}), With(Coarse, Odd, {}, 0, 1, {}),
   With(Scattered, Plain, {3, 5}, 1, 3, {b}), With(Scattered, <<>>, {}, 0, 1, {})}
    \cup {With(layout, Plain, {4}, 1, 1, {ab}) : layout \in {Cut, Straddling, Huge, Huger, Continued, Holed, Endless}}
    \cup {With(Coarse, rest, {}, 0, 0, {}) : rest \in Named \cup {Folded}}
=============================================================================
