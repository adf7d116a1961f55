--------------------------- MODULE BulkIndexProofs ---------------------------
(***************************************************************************)
(* Whatever happens on a volume while it is read, and wherever the reading *)
(* fails, the bulk build stays within the MFT's runs, and what it emits    *)
(* was true. The proof is about the volume first, then about the run list, *)
(* then about a record, a chunk and the records that were deferred.        *)
(***************************************************************************)
EXTENDS BulkIndex, FiniteSetTheorems, SequenceTheorems, WellFoundedInduction, TLAPS

-----------------------------------------------------------------------------
(* Induction up to a number, and functions defined along it. *)

\* A set that has zero, and with each number the next, has all of them.
LEMMA NatSetInduction ==
  ASSUME NEW S, 0 \in S, \A n \in Nat : n \in S => n + 1 \in S
  PROVE  Nat \subseteq S
<1> SUFFICES ASSUME NEW n \in Nat, n \notin S PROVE FALSE
  OBVIOUS
<1> DEFINE Missing == {0 .. m : m \in Nat \ S}
<1>1. Missing \subseteq FiniteSubsetsOf(Nat) /\ Missing # {}
  <2>1. \A m \in Nat : IsFiniteSet(0 .. m) /\ 0 .. m \in SUBSET Nat
    BY FS_Interval
  <2> QED  BY <2>1 DEF FiniteSubsetsOf
<1>2. PICK x \in Missing : \A y \in Missing : <<y, x>> \notin StrictSubsetOrdering(Nat)
  <2> HIDE DEF Missing
  <2> QED  BY <1>1, FS_StrictSubsetOrderingWellFounded, WFMin
<1>3. PICK m \in Nat \ S : x = 0 .. m
  OBVIOUS
<1>4. m # 0 /\ m - 1 \in Nat /\ m - 1 \notin S
  OBVIOUS
<1>5. 0 .. (m - 1) \in Missing
  BY <1>4
<1>6. 0 .. (m - 1) \subseteq 0 .. m /\ 0 .. (m - 1) # 0 .. m /\ 0 .. m \in SUBSET Nat
  BY <1>4
<1> QED  BY <1>2, <1>3, <1>5, <1>6 DEF StrictSubsetOrdering

\* What holds of zero, and of each number up to n if of the one before it,
\* holds of all of them.
LEMMA UpTo ==
  ASSUME NEW n \in Nat, NEW S, 0 \in S, \A k \in 1 .. n : k - 1 \in S => k \in S
  PROVE  0 .. n \subseteq S
<1> DEFINE T == {k \in Nat : k <= n => k \in S}
<1>1. 0 \in T
  OBVIOUS
<1>2. ASSUME NEW k \in Nat, k \in T PROVE k + 1 \in T
  <2>1. k + 1 <= n => k + 1 \in 1 .. n /\ (k + 1) - 1 = k
    OBVIOUS
  <2> QED  BY <1>2, <2>1
<1> HIDE DEF T
<1>3. Nat \subseteq T
  BY <1>1, <1>2, NatSetInduction
<1> QED  BY <1>3 DEF T

Steps(n, S, first, step) == n \in Nat /\ first \in S /\ step \in [1 .. n -> [S -> S]]

Follows(f, n, S, first, step) ==
  f \in [0 .. n -> S] /\ f[0] = first /\ \A k \in 1 .. n : f[k] = step[k][f[k - 1]]

\* From a first value and a step there is a value for each number.
LEMMA StepsExist ==
  ASSUME NEW n, NEW S, NEW first, NEW step, Steps(n, S, first, step)
  PROVE  \E f : Follows(f, n, S, first, step)
<1> USE DEF Steps, Follows
<1> DEFINE IsPart(f, m) == /\ f \in [0 .. m -> S] /\ f[0] = first
                             /\ \A k \in 1 .. m : f[k] = step[k][f[k - 1]]
           T == {m \in Nat : \E f : IsPart(f, m)}
<1>1. 0 \in T
  <2>1. IsPart([k \in 0 .. 0 |-> first], 0)
    OBVIOUS
  <2> QED  BY <2>1
<1>2. ASSUME NEW m \in 1 .. n, m - 1 \in T PROVE m \in T
  <2>1. PICK f : IsPart(f, m - 1)
    BY <1>2
  <2> DEFINE g == [k \in 0 .. m |-> IF k = m THEN step[m][f[m - 1]] ELSE f[k]]
  <2>2. m \in Nat /\ m - 1 \in 0 .. m - 1 /\ f[m - 1] \in S
    BY <2>1
  <2>3. \A k \in 0 .. m : k # m => k \in 0 .. m - 1
    BY <2>2
  <2>4. step[m][f[m - 1]] \in S
    BY <2>2
  <2>5. g \in [0 .. m -> S] /\ g[0] = first
    BY <2>1, <2>2, <2>3, <2>4
  <2>6. ASSUME NEW k \in 1 .. m PROVE g[k] = step[k][g[k - 1]]
    <3>1. k - 1 \in 0 .. m /\ k - 1 # m /\ g[k - 1] = f[k - 1]
      BY <2>2
    <3>2. CASE k = m
      BY <3>1, <3>2, <2>2
    <3>3. CASE k # m
      <4>1. k \in 1 .. m - 1 /\ k \in 0 .. m
        BY <3>3, <2>2
      <4> QED  BY <4>1, <3>1, <3>3, <2>1
    <3> QED  BY <3>2, <3>3
  <2> HIDE DEF g
  <2>7. IsPart(g, m)
    BY <2>5, <2>6
  <2> QED  BY <2>7, <2>2
<1> HIDE DEF T
<1>3. 0 .. n \subseteq T
  BY <1>1, <1>2, UpTo
<1>4. n \in T
  BY <1>3
<1> QED  BY <1>4 DEF T

LEMMA LeastExists ==
  ASSUME NEW S \in SUBSET Nat, NEW some \in S
  PROVE  \E least \in S : \A x \in S : least <= x
<1> SUFFICES ASSUME \A least \in S : \E x \in S : ~(least <= x) PROVE FALSE
  OBVIOUS
<1> DEFINE T == {k \in Nat : \A x \in S : ~(x <= k)}
<1>1. 0 \in T
  OBVIOUS
<1>2. \A k \in 1 .. some : k - 1 \in T => k \in T
  OBVIOUS
<1> HIDE DEF T
<1>3. 0 .. some \subseteq T
  BY <1>1, <1>2, UpTo
<1>4. some \in T
  BY <1>3
<1> QED  BY <1>4 DEF T

\* A product with a larger factor is larger.
LEMMA Monotone ==
  ASSUME NEW a \in Int, NEW b \in Int, NEW c \in Nat, a <= b
  PROVE  a * c <= b * c
  OBVIOUS

-----------------------------------------------------------------------------
(* The numbers of a volume. *)

LEMMA PowerPositive ==
  ASSUME NEW n \in Nat
  PROVE  PowerOf2(n) \in Nat \ {0}
<1> DEFINE first == 1
           step == [k \in 1 .. n |-> [x \in Nat |-> 2 * x]]
           power == CHOOSE f : f = [k \in 0 .. n |-> IF k = 0 THEN 1 ELSE 2 * f[k - 1]]
<1> HIDE DEF first, step, power
<1>0. Steps(n, Nat, first, step)
  BY DEF step, first, Steps
<1>1. PICK f : Follows(f, n, Nat, first, step)
  BY <1>0, StepsExist
<1>2. f = [k \in 0 .. n |-> IF k = 0 THEN 1 ELSE 2 * f[k - 1]]
  <2>1. ASSUME NEW k \in 1 .. n PROVE f[k] = 2 * f[k - 1]
    <3>1. f[k] = step[k][f[k - 1]] /\ f[k - 1] \in Nat
      BY <1>1 DEF Follows
    <3> QED  BY <3>1 DEF step
  <2>2. \A k \in 0 .. n : f[k] = IF k = 0 THEN 1 ELSE 2 * f[k - 1]
    BY <1>1, <2>1 DEF first, Follows
  <2> QED  BY <1>1, <2>2 DEF Follows
<1>3. power = [k \in 0 .. n |-> IF k = 0 THEN 1 ELSE 2 * power[k - 1]]
  BY <1>2 DEF power
<1>4. PowerOf2(n) = power[n]
  BY DEF PowerOf2, power
<1>5. power[0] = 1 /\ \A k \in 1 .. n : power[k] = 2 * power[k - 1]
  BY <1>3
<1> DEFINE T == {k \in 0 .. n : power[k] \in Nat \ {0}}
<1>6. 0 \in T /\ \A k \in 1 .. n : k - 1 \in T => k \in T
  BY <1>5
<1> HIDE DEF T
<1>7. 0 .. n \subseteq T
  BY <1>6, UpTo
<1> QED  BY <1>4, <1>7 DEF T

Size_ == Nat \ {0}

Geometry ==
  [bytes_per_sector : Size_, cluster_size : Size_, file_record_size : Size_,
   mft_start_lcn : Nat, physical_sector_size : Size_]

BootSector ==
  [ntfs : BOOLEAN, bytes_per_sector : Nat, sectors_per_cluster : Byte,
   record_scale : Byte, mft_start_lcn : Nat]

LEMMA ScaledSizePositive ==
  ASSUME NEW encoded \in Byte, NEW unit \in Size_, scaled_size(encoded, unit) # Invalid
  PROVE  scaled_size(encoded, unit)[1] \in Size_
<1> DEFINE scale == signed_byte(encoded)
<1>1. scale \in Int /\ scale # 0
  BY DEF signed_byte, Byte, scaled_size
<1>2. scaled_size(encoded, unit) = <<IF scale < 0 THEN PowerOf2(-scale) ELSE unit * scale>>
  BY DEF scaled_size, Ok, Invalid
<1> HIDE DEF scale
<1>3. CASE scale < 0
  BY <1>1, <1>2, <1>3, PowerPositive DEF Size_
<1>4. CASE scale > 0
  <2> DEFINE product == unit * scale
  <2>1. product \in Size_
    BY <1>1, <1>4 DEF Size_
  <2>2. scaled_size(encoded, unit) = <<product>>
    BY <1>1, <1>2, <1>4
  <2> HIDE DEF product
  <2> QED  BY <2>1, <2>2
<1> QED  BY <1>1, <1>3, <1>4

\* A boot sector that is accepted has sizes to divide by.
LEMMA BootGeometry ==
  ASSUME NEW boot \in BootSector, parse_boot_sector(boot) # Invalid
  PROVE  parse_boot_sector(boot)[1] \in Geometry
<1> DEFINE cluster == scaled_size(boot.sectors_per_cluster, boot.bytes_per_sector)
           record  == IF cluster = Invalid THEN Invalid ELSE scaled_size(boot.record_scale, cluster[1])
<1>1. /\ IsSize(boot.bytes_per_sector) /\ record # Invalid /\ IsSize(record[1])
      /\ parse_boot_sector(boot) =
           <<[bytes_per_sector |-> boot.bytes_per_sector, cluster_size |-> cluster[1],
              file_record_size |-> record[1], mft_start_lcn |-> boot.mft_start_lcn,
              physical_sector_size |-> 4096]>>
  BY DEF parse_boot_sector, Ok, Invalid
<1>2. boot.bytes_per_sector \in Size_ /\ record[1] \in Size_
  BY <1>1 DEF IsSize, Size_
<1>3. cluster[1] \in Size_
  <2>1. cluster # Invalid
    BY <1>1
  <2> QED  BY <1>2, <2>1, ScaledSizePositive DEF BootSector
<1> HIDE DEF cluster, record
<1>4. 4096 \in Size_ /\ boot.mft_start_lcn \in Nat
  BY DEF Size_, BootSector
<1> QED  BY <1>1, <1>2, <1>3, <1>4 DEF Geometry

LEMMA UnsignedNatural ==
  ASSUME NEW bytes \in Seq(Byte)
  PROVE  unsigned_le(bytes) \in Nat
<1> DEFINE n == Len(bytes)
           byte(k) == bytes[n - k + 1]
           first == 0
           step == [k \in 1 .. n |-> [x \in Nat |-> byte(k) + 256 * x]]
           IsValue(f) == f = [k \in 0 .. n |-> IF k = 0 THEN 0 ELSE byte(k) + 256 * f[k - 1]]
           value == CHOOSE f : IsValue(f)
<1>0. n \in Nat /\ \A k \in 1 .. n : byte(k) \in Nat
  <2>1. n \in Nat /\ \A k \in 1 .. n : n - k + 1 \in 1 .. n
    OBVIOUS
  <2>2. \A k \in 1 .. n : bytes[k] \in Byte
    OBVIOUS
  <2> HIDE DEF n
  <2>3. \A k \in 1 .. n : byte(k) \in Byte
    BY <2>1, <2>2
  <2>4. Byte \subseteq Nat
    BY DEF Byte
  <2> HIDE DEF byte
  <2> QED  BY <2>1, <2>3, <2>4
<1>1. unsigned_le(bytes) = value[n]
  BY DEF unsigned_le
<1> HIDE DEF n, byte, first, step, IsValue, value
<1>2. PICK f : Follows(f, n, Nat, first, step)
  <2>1. Steps(n, Nat, first, step)
    BY <1>0 DEF step, first, Steps
  <2> QED  BY <2>1, StepsExist
<1>3. IsValue(f)
  <2>1. ASSUME NEW k \in 1 .. n PROVE f[k] = byte(k) + 256 * f[k - 1]
    <3>1. f[k] = step[k][f[k - 1]] /\ f[k - 1] \in Nat
      BY <1>0, <1>2 DEF Follows
    <3> QED  BY <3>1 DEF step
  <2>2. \A k \in 0 .. n : f[k] = IF k = 0 THEN 0 ELSE byte(k) + 256 * f[k - 1]
    BY <1>0, <1>2, <2>1 DEF first, Follows
  <2> QED  BY <1>2, <2>2 DEF Follows, IsValue
<1>4. IsValue(value)
  BY <1>3 DEF value
<1>5. value[0] = 0 /\ \A k \in 1 .. n : value[k] = byte(k) + 256 * value[k - 1]
  <2>1. 0 \in 0 .. n /\ \A k \in 1 .. n : k \in 0 .. n /\ k # 0
    BY <1>0
  <2> QED  BY <2>1, <1>4 DEF IsValue
<1> DEFINE T == {k \in 0 .. n : value[k] \in Nat}
<1>6. ASSUME NEW k \in 1 .. n, k - 1 \in T PROVE k \in T
  <2>1. value[k] = byte(k) + 256 * value[k - 1] /\ value[k - 1] \in Nat /\ byte(k) \in Nat
    BY <1>0, <1>5, <1>6
  <2> QED  BY <2>1
<1>7. 0 \in T
  BY <1>0, <1>5
<1> HIDE DEF T
<1>8. 0 .. n \subseteq T
  BY <1>0, <1>6, <1>7, UpTo
<1> QED  BY <1>0, <1>1, <1>8 DEF T

Run == [lcn : Nat \cup {Sparse}, cluster_count : Size_]

\* A turn of the loop adds a run that is a run.
ListState ==
  [status : {"reading", "ended", "invalid"}, at : Nat \ {0}, previous : Nat, runs : Seq(Run)]

LEMMA ReadRunTyped ==
  ASSUME NEW bytes \in Seq(Byte), NEW list \in ListState
  PROVE  ReadRun(bytes, list) \in ListState
<1> DEFINE header      == bytes[list.at]
           length_size == header % 16
           offset_size == header \div 16
           length_end  == list.at + length_size
           end         == length_end + offset_size
           count       == unsigned_le(SubSeq(bytes, list.at + 1, length_end))
           lcn         == IF offset_size = 0 THEN list.previous
                          ELSE list.previous + signed_le(SubSeq(bytes, length_end + 1, end))
           run         == [lcn |-> IF offset_size = 0 THEN Sparse ELSE lcn, cluster_count |-> count]
           next        == [status |-> "reading", at |-> end + 1, previous |-> lcn,
                           runs |-> Append(list.runs, run)]
           taken       == /\ list.status = "reading" /\ ~(list.at > Len(bytes)) /\ ~(header = 0)
                          /\ ~(length_size \notin 1 .. 8 \/ offset_size > 8 \/ end > Len(bytes))
                          /\ ~(count = 0 \/ lcn < 0)
<1>1. CASE ~taken
  <2>1. ReadRun(bytes, list) \in {list, [list EXCEPT !.status = "invalid"], [list EXCEPT !.status = "ended"]}
    BY <1>1 DEF ReadRun
  <2> QED  BY <2>1 DEF ListState
<1>2. CASE taken
  <2>0. ReadRun(bytes, list) = next /\ ~(list.at > Len(bytes)) /\ count # 0 /\ ~(lcn < 0)
    BY <1>2 DEF ReadRun
  <2>a. length_size \in 1 .. 8 /\ ~(end > Len(bytes))
    BY <1>2
  <2>1. list.at \in 1 .. Len(bytes) /\ header \in 0 .. 255
    BY <2>0 DEF ListState, Byte
  <2>2. length_size \in Nat /\ offset_size \in Nat
    <3> HIDE DEF header
    <3> QED  BY <2>1
  <2> HIDE DEF header, length_size, offset_size
  <2>3. /\ SubSeq(bytes, list.at + 1, length_end) \in Seq(Byte)
        /\ SubSeq(bytes, length_end + 1, end) \in Seq(Byte)
    <3>1. length_end \in Nat /\ end \in Nat /\ length_end <= end /\ end <= Len(bytes)
      BY <2>a, <2>1, <2>2
    <3>2. \A i \in list.at + 1 .. length_end : bytes[i] \in Byte
      BY <2>1, <3>1
    <3>3. \A i \in length_end + 1 .. end : bytes[i] \in Byte
      BY <2>1, <3>1
    <3> HIDE DEF length_end, end
    <3> QED  BY <2>1, <3>1, <3>2, <3>3
  <2>4. count \in Size_
    BY <2>0, <2>3, UnsignedNatural DEF Size_
  <2>5. lcn \in Nat
    <3>1. CASE offset_size = 0
      BY <3>1 DEF ListState
    <3>2. CASE offset_size # 0
      <4> DEFINE tail == SubSeq(bytes, length_end + 1, end)
                 full == [i \in DOMAIN tail |-> 255]
      <4>1. tail \in Seq(Byte)
        BY <2>3, <3>2
      <4> HIDE DEF tail
      <4>2. full \in Seq(Byte)
        <5>1. full = [i \in 1 .. Len(tail) |-> 255] /\ Len(tail) \in Nat
          BY <4>1
        <5> QED  BY <5>1 DEF Byte
      <4> HIDE DEF full
      <4>3. unsigned_le(tail) \in Nat /\ unsigned_le(full) \in Nat
        BY <4>1, <4>2, UnsignedNatural
      <4>4. signed_le(tail) \in Int
        BY <4>3 DEF signed_le, full
      <4>5. list.previous \in Nat
        BY DEF ListState
      <4>6. lcn = list.previous + signed_le(tail)
        BY <3>2 DEF tail
      <4>7. lcn \in Int /\ lcn >= 0
        <5>1. ~(lcn < 0)
          BY <2>0
        <5> HIDE DEF lcn
        <5> QED  BY <4>4, <4>5, <4>6, <5>1
      <4> HIDE DEF lcn
      <4> QED  BY <4>7
    <3> QED  BY <3>1, <3>2
  <2>6. run \in Run
    BY <2>4, <2>5 DEF Run
  <2>7. end + 1 \in Nat \ {0}
    BY <2>1, <2>2
  <2> HIDE DEF run, lcn, end, count
  <2> QED  BY <2>0, <2>5, <2>6, <2>7 DEF ListState
<1> QED  BY <1>1, <1>2

\* The runs that are read are runs.
LEMMA DecodedTyped ==
  ASSUME NEW bytes \in Seq(Byte), decode_runs(bytes) # Invalid
  PROVE  decode_runs(bytes)[1] \in Seq(Run)
<1> DEFINE n == Len(bytes) + 1
           first == [status |-> "reading", at |-> 1, previous |-> 0, runs |-> <<>>]
           Next_(list) == ReadRun(bytes, list)
           step == [k \in 1 .. n |-> [x \in ListState |-> Next_(x)]]
           After(x) == CHOOSE next \in {ReadRun(bytes, list) : list \in {x}} : TRUE
           IsLists(f) == f = [k \in 0 .. n |-> IF k = 0 THEN first ELSE After(f[k - 1])]
           lists == CHOOSE f : IsLists(f)
<1>0. n \in Nat /\ first \in ListState
  <2>1. <<>> \in Seq(Run)
    OBVIOUS
  <2> QED  BY <2>1 DEF ListState
<1>1. decode_runs(bytes) = IF lists[n].status = "ended" THEN <<lists[n].runs>> ELSE <<>>
  BY DEF decode_runs, Ok, Invalid
<1>2. \A x : After(x) = Next_(x)
  OBVIOUS
<1>3. \A x \in ListState : Next_(x) \in ListState
  BY ReadRunTyped
<1> HIDE DEF n, first, Next_, step, After, IsLists, lists
<1>4. PICK f : Follows(f, n, ListState, first, step)
  <2>1. Steps(n, ListState, first, step)
    BY <1>0, <1>3 DEF step, Steps
  <2> QED  BY <2>1, StepsExist
<1>5. IsLists(f)
  <2>1. ASSUME NEW k \in 1 .. n PROVE f[k] = After(f[k - 1])
    <3>1. f[k] = step[k][f[k - 1]] /\ f[k - 1] \in ListState
      BY <1>0, <1>4 DEF Follows
    <3> QED  BY <3>1, <1>2 DEF step
  <2>2. \A k \in 0 .. n : f[k] = IF k = 0 THEN first ELSE After(f[k - 1])
    BY <1>0, <1>4, <2>1 DEF Follows
  <2> QED  BY <1>4, <2>2 DEF Follows, IsLists
<1>6. IsLists(lists)
  BY <1>5 DEF lists
<1>7. lists[0] = first /\ \A k \in 1 .. n : lists[k] = Next_(lists[k - 1])
  <2>1. 0 \in 0 .. n /\ \A k \in 1 .. n : k \in 0 .. n /\ k # 0
    BY <1>0
  <2> QED  BY <2>1, <1>2, <1>6 DEF IsLists
<1> DEFINE T == {k \in 0 .. n : lists[k] \in ListState}
<1>8. 0 \in T /\ \A k \in 1 .. n : k - 1 \in T => k \in T
  BY <1>0, <1>3, <1>7
<1> HIDE DEF T
<1>9. 0 .. n \subseteq T
  BY <1>0, <1>8, UpTo
<1>10. lists[n] \in ListState
  BY <1>0, <1>9 DEF T
<1>11. lists[n].runs \in Seq(Run)
  BY <1>10 DEF ListState
<1> QED  BY <1>1, <1>11 DEF Invalid

LEMMA RunBytesPositive ==
  ASSUME NEW run \in Run, NEW g \in Geometry
  PROVE  RunBytes(run, g) \in Size_
BY DEF Run, Geometry, RunBytes, Size_

-----------------------------------------------------------------------------
(* The volume. *)

InOnePiece(d) == \A n \in DOMAIN d : \A i \in DOMAIN d[n].data : d[n].data[i].first

RecordsOK(d) == d \in [Numbers -> FileRecord] /\ HaveBases(d) /\ (Whole => InOnePiece(d))

\* What every reader may count on, and what the histories are for.
VolumeOK ==
  /\ volume \in Volumes /\ Numbers = DOMAIN volume.disk
  /\ RecordsOK(disk)
  /\ Facts.names \subseteq ever.names /\ Facts.sizes \subseteq ever.sizes

LEMMA VolumeStarts ==
  ASSUME VolumeInit
  PROVE  VolumeOK
<1>1. volume \in Volumes /\ disk = volume.disk /\ ever = Facts
  BY DEF VolumeInit
<1>2. disk \in [Numbers -> FileRecord] /\ HaveBases(disk)
  BY <1>1, VolumesAssumption DEF Numbers
<1>3. Whole => InOnePiece(disk)
  <2> SUFFICES ASSUME Whole, NEW n \in Numbers, NEW i \in DOMAIN disk[n].data
               PROVE  disk[n].data[i].first
    BY DEF InOnePiece, Numbers
  <2> QED  BY <1>1 DEF Whole, Numbers, ToSet
<1> QED  BY <1>1, <1>2, <1>3 DEF VolumeOK, RecordsOK, Numbers

LEMMA BlankTyped ==
  ASSUME NEW seq \in Nat \ {0}
  PROVE  Blank(seq) \in FileRecord /\ ~Blank(seq).in_use /\ Blank(seq).data = <<>>
<1>1. NoFrn \in Frn
  BY DEF NoFrn, Frn
<1>2. /\ <<>> \in Seq(Nat) /\ <<>> \in Seq([type : {"info", "name", "data"}, reference : Frn])
      /\ <<>> \in Seq(FileName) /\ <<>> \in Seq([size : Nat, first : BOOLEAN])
  OBVIOUS
<1> QED  BY <1>1, <1>2 DEF Blank, FileRecord

LEMMA ListedTyped ==
  ASSUME NEW record \in FileRecord, NEW frn \in Frn
  PROVE  Listed(record, frn) \in Seq([type : {"info", "name", "data"}, reference : Frn])
<1> DEFINE Entries == [type : {"info", "name", "data"}, reference : Frn]
           Of(attributes, type) == [i \in DOMAIN attributes |-> [type |-> type, reference |-> frn]]
           Lists(t) == \A type \in {"info", "name", "data"} : Of(t, type) \in Seq(Entries)
<1>1. ASSUME NEW T, NEW t \in Seq(T) PROVE Lists(t)
  <2> SUFFICES ASSUME NEW type \in {"info", "name", "data"} PROVE Of(t, type) \in Seq(Entries)
    OBVIOUS
  <2>1. Of(t, type) = [i \in 1 .. Len(t) |-> [type |-> type, reference |-> frn]] /\ Len(t) \in Nat
    OBVIOUS
  <2>2. [type |-> type, reference |-> frn] \in Entries
    OBVIOUS
  <2> HIDE DEF Entries
  <2> QED  BY <2>1, <2>2
<1> HIDE DEF Of, Entries
<1>2. /\ record.mtime \in Seq(Nat) /\ record.names \in Seq(FileName)
      /\ record.data \in Seq([size : Nat, first : BOOLEAN])
  BY DEF FileRecord
<1>3. /\ Of(record.mtime, "info") \in Seq(Entries) /\ Of(record.names, "name") \in Seq(Entries)
      /\ Of(record.data, "data") \in Seq(Entries)
  <2>1. \A T, t : t \in Seq(T) => Lists(t)
    BY <1>1
  <2> HIDE DEF Lists
  <2>2. Lists(record.mtime) /\ Lists(record.names) /\ Lists(record.data)
    BY <1>2, <2>1
  <2> QED  BY <2>2 DEF Lists
<1>4. Listed(record, frn) = Of(record.mtime, "info") \o Of(record.names, "name") \o Of(record.data, "data")
  BY DEF Listed, Of
<1>5. Listed(record, frn) \in Seq(Entries)
  BY <1>3, <1>4
<1> QED  BY <1>5 DEF Entries

LEMMA RecordTyped ==
  ASSUME RecordsOK(disk), NEW n \in Numbers
  PROVE  /\ disk[n] \in FileRecord /\ n \in DOMAIN disk /\ (Numbers \subseteq Nat => FrnOf(n) \in Frn)
         /\ FrnOf(n) # NoFrn
BY DEF RecordsOK, FileRecord, FrnOf, Frn, NoFrn, Numbers

LEMMA NumbersNatural ==
  ASSUME VolumeOK
  PROVE  /\ Numbers \subseteq Nat /\ IsFiniteSet(Numbers) /\ 0 \in Numbers
         /\ volume.busy \subseteq Numbers /\ volume.names \subseteq Seq(Byte)
BY VolumesAssumption DEF VolumeOK

\* A file's records go together.
LEMMA DeletedKeeps ==
  ASSUME VolumeOK, NEW n \in BaseRecords, Deleted(n)
  PROVE  RecordsOK(disk')
<1> DEFINE gone == RecordsOf(n)
<1>1. /\ disk' = [x \in Numbers |-> IF x \in gone THEN Blank(disk[x].seq + 1) ELSE disk[x]]
      /\ RecordsOK(disk) /\ n \in Numbers
  BY DEF Deleted, VolumeOK, BaseRecords
<1>2. \A x \in Numbers : disk[x] \in FileRecord /\ disk[x].seq + 1 \in Nat \ {0}
  <2>1. \A x \in Numbers : disk[x] \in FileRecord
    BY <1>1 DEF RecordsOK
  <2>2. \A record \in FileRecord : record.seq + 1 \in Nat \ {0}
    BY DEF FileRecord
  <2> QED  BY <2>1, <2>2
<1>3. \A x \in Numbers : Blank(disk[x].seq + 1) \in FileRecord /\ ~Blank(disk[x].seq + 1).in_use
                         /\ Blank(disk[x].seq + 1).data = <<>>
  BY <1>2, BlankTyped
<1>4. disk' \in [Numbers -> FileRecord] /\ DOMAIN disk' = Numbers
  BY <1>1, <1>2, <1>3
<1>5. HaveBases(disk')
  <2> SUFFICES ASSUME NEW x \in Numbers, disk'[x].in_use, disk'[x].base # NoFrn
               PROVE  \E b \in Numbers : /\ disk'[x].base = <<disk'[b].seq, b>>
                                         /\ disk'[b].in_use /\ disk'[b].base = NoFrn
    BY <1>4 DEF HaveBases
  <2>1. x \notin gone /\ disk'[x] = disk[x]
    BY <1>1, <1>3
  <2>2. PICK b \in Numbers : /\ disk[x].base = <<disk[b].seq, b>>
                             /\ disk[b].in_use /\ disk[b].base = NoFrn
    BY <1>1, <2>1 DEF RecordsOK, HaveBases, Numbers
  <2>3. b \notin gone
    <3>1. b # n
      BY <2>1, <2>2 DEF RecordsOf, FrnOf
    <3>2. disk[b].base # FrnOf(n)
      BY <1>1, <2>2, RecordTyped
    <3> QED  BY <3>1, <3>2 DEF RecordsOf
  <2> QED  BY <1>1, <2>1, <2>2, <2>3
<1>6. Whole => InOnePiece(disk')
  BY <1>1, <1>3, <1>4 DEF RecordsOK, InOnePiece, Numbers
<1> QED  BY <1>4, <1>5, <1>6 DEF RecordsOK

LEMMA RenamedKeeps ==
  ASSUME VolumeOK, NEW n \in BaseRecords, NEW parent \in Directories, NEW name \in volume.names,
         Renamed(n, parent, name)
  PROVE  RecordsOK(disk')
<1>1. PICK x \in RecordsOf(n) :
        /\ disk[x].names # <<>>
        /\ disk' = [disk EXCEPT ![x].names[1] = [@ EXCEPT !.parent = FrnOf(parent), !.name = name]]
  BY Zenon DEF Renamed
<1>2. RecordsOK(disk) /\ x \in Numbers /\ parent \in Numbers
  BY DEF VolumeOK, RecordsOf, BaseRecords, Directories
<1> DEFINE old == disk[x]
           renamed == [old.names[1] EXCEPT !.parent = FrnOf(parent), !.name = name]
           names == [old.names EXCEPT ![1] = renamed]
           new == [old EXCEPT !.names = names]
<1>3. disk' = [disk EXCEPT ![x] = new]
  BY <1>1
<1>4. old \in FileRecord /\ FrnOf(parent) \in Frn /\ name \in Seq(Byte) /\ old.names # <<>>
  BY <1>1, <1>2, RecordTyped, NumbersNatural
<1>5. names \in Seq(FileName)
  <2>1. old.names \in Seq(FileName) /\ 1 \in 1 .. Len(old.names)
    BY <1>4 DEF FileRecord
  <2>2. old.names[1] \in FileName
    BY <2>1
  <2>3. renamed \in FileName
    BY <2>2, <1>4 DEF FileName
  <2> HIDE DEF old, renamed
  <2> QED  BY <2>1, <2>3
<1>6. /\ new \in FileRecord /\ new.in_use = old.in_use /\ new.base = old.base /\ new.seq = old.seq
      /\ new.data = old.data
  BY <1>4, <1>5 DEF FileRecord
<1> HIDE DEF new, names
<1>7. /\ disk' \in [Numbers -> FileRecord] /\ DOMAIN disk' = Numbers
      /\ \A y \in Numbers : /\ disk'[y].in_use = disk[y].in_use /\ disk'[y].base = disk[y].base
                            /\ disk'[y].seq = disk[y].seq /\ disk'[y].data = disk[y].data
  BY <1>2, <1>3, <1>6 DEF RecordsOK
<1>8. HaveBases(disk') /\ (Whole => InOnePiece(disk'))
  BY <1>2, <1>7 DEF RecordsOK, HaveBases, InOnePiece, Numbers
<1> QED  BY <1>7, <1>8 DEF RecordsOK

LEMMA CreatedKeeps ==
  ASSUME VolumeOK, NEW free \in Numbers, NEW parent \in Directories, NEW name \in volume.names,
         Created(free, parent, name)
  PROVE  RecordsOK(disk')
<1> DEFINE names == <<[parent |-> FrnOf(parent), namespace |-> 3, name |-> name]>>
           new == NewFile(disk[free].seq, names)
<1>1. RecordsOK(disk) /\ ~disk[free].in_use /\ disk' = [disk EXCEPT ![free] = new] /\ parent \in Numbers
  BY DEF VolumeOK, Created, Directories, BaseRecords
<1>2. names \in Seq(FileName)
  <2>1. FrnOf(parent) \in Frn /\ name \in Seq(Byte)
    BY <1>1, RecordTyped, NumbersNatural
  <2>2. [parent |-> FrnOf(parent), namespace |-> 3, name |-> name] \in FileName
    BY <2>1 DEF FileName
  <2> QED  BY <2>2
<1>3. Blank(disk[free].seq) \in FileRecord
  <2>1. disk[free].seq \in Nat \ {0}
    BY <1>1 DEF RecordsOK, FileRecord
  <2> QED  BY <2>1, BlankTyped
<1> HIDE DEF names
<1>4. new \in FileRecord /\ new.base = NoFrn /\ new.data = <<[size |-> 2000, first |-> TRUE]>>
  <2> DEFINE blank == Blank(disk[free].seq)
             mtime == <<1>>
             data == <<[size |-> 2000, first |-> TRUE]>>
  <2>1. mtime \in Seq(Nat) /\ data \in Seq([size : Nat, first : BOOLEAN])
    OBVIOUS
  <2>2. new = [blank EXCEPT !.in_use = TRUE, !.mtime = mtime, !.names = names, !.data = data]
    BY DEF NewFile
  <2>3. blank \in FileRecord /\ blank.base = NoFrn
    BY <1>3 DEF Blank
  <2> HIDE DEF blank, mtime, data, new
  <2>4. new \in FileRecord /\ new.base = NoFrn /\ new.data = data
    BY <1>2, <2>1, <2>2, <2>3 DEF FileRecord
  <2> QED  BY <2>4 DEF data
<1> HIDE DEF new
<1>5. /\ disk' \in [Numbers -> FileRecord] /\ DOMAIN disk' = Numbers
      /\ disk'[free] = new /\ \A x \in Numbers : x # free => disk'[x] = disk[x]
  BY <1>1, <1>4 DEF RecordsOK, Numbers
<1>6. HaveBases(disk')
  BY <1>1, <1>4, <1>5 DEF RecordsOK, HaveBases, Numbers
<1>7. Whole => InOnePiece(disk')
  BY <1>1, <1>4, <1>5 DEF RecordsOK, InOnePiece, Numbers
<1> QED  BY <1>5, <1>6, <1>7 DEF RecordsOK

LEMMA SpilledKeeps ==
  ASSUME VolumeOK, NEW n \in BaseRecords, NEW free \in Numbers, NEW names_too \in BOOLEAN,
         Spilled(n, free, names_too)
  PROVE  RecordsOK(disk')
<1> DEFINE extension == [Blank(disk[free].seq) EXCEPT
                           !.in_use = TRUE, !.base = FrnOf(n), !.data = disk[n].data,
                           !.names = IF names_too THEN disk[n].names ELSE <<>>]
           rest == [disk[n] EXCEPT !.data = <<>>, !.names = IF names_too THEN <<>> ELSE @]
           entries_ == Listed(rest, FrnOf(n)) \o Listed(extension, FrnOf(free))
           new == [rest EXCEPT !.list = "resident", !.entries = entries_]
<1>1. /\ RecordsOK(disk) /\ ~disk[free].in_use /\ n \in Numbers /\ disk[n].in_use /\ disk[n].base = NoFrn
      /\ disk' = [disk EXCEPT ![free] = extension, ![n] = new]
  BY DEF VolumeOK, Spilled, BaseRecords
<1>2. /\ disk[n] \in FileRecord /\ FrnOf(n) \in Frn /\ FrnOf(free) \in Frn /\ n # free
      /\ Blank(disk[free].seq) \in FileRecord /\ FrnOf(n) # NoFrn
  <2>1. disk[free].seq \in Nat \ {0}
    BY <1>1 DEF RecordsOK, FileRecord
  <2> QED  BY <1>1, <2>1, BlankTyped, RecordTyped, NumbersNatural
<1>3. /\ extension \in FileRecord /\ extension.in_use /\ extension.base = FrnOf(n)
      /\ extension.data = disk[n].data
  <2>1. <<>> \in Seq(FileName)
    OBVIOUS
  <2>2. disk[n].names \in Seq(FileName) /\ disk[n].data \in Seq([size : Nat, first : BOOLEAN])
    BY <1>2 DEF FileRecord
  <2> HIDE DEF entries_
  <2> QED  BY <1>2, <2>1, <2>2 DEF FileRecord
<1>4. rest \in FileRecord /\ rest.in_use = disk[n].in_use /\ rest.base = disk[n].base
      /\ rest.seq = disk[n].seq /\ rest.data = <<>>
  <2>1. <<>> \in Seq(FileName) /\ <<>> \in Seq([size : Nat, first : BOOLEAN])
    OBVIOUS
  <2> HIDE DEF extension
  <2> QED  BY <1>2, <2>1 DEF FileRecord
<1> HIDE DEF extension, rest
<1>5. entries_ \in Seq([type : {"info", "name", "data"}, reference : Frn])
  <2>1. /\ Listed(rest, FrnOf(n)) \in Seq([type : {"info", "name", "data"}, reference : Frn])
        /\ Listed(extension, FrnOf(free)) \in Seq([type : {"info", "name", "data"}, reference : Frn])
    BY <1>2, <1>3, <1>4, ListedTyped
  <2> QED  BY <2>1
<1> HIDE DEF entries_
<1>6. /\ new \in FileRecord /\ new.in_use /\ new.base = NoFrn
      /\ new.seq = disk[n].seq /\ new.data = <<>>
  BY <1>1, <1>4, <1>5 DEF FileRecord
<1> HIDE DEF new
<1>7. /\ disk' \in [Numbers -> FileRecord] /\ DOMAIN disk' = Numbers
      /\ disk'[free] = extension /\ disk'[n] = new
      /\ \A x \in Numbers : x \notin {free, n} => disk'[x] = disk[x]
  BY <1>1, <1>2, <1>3, <1>6 DEF RecordsOK, Numbers
<1>8. HaveBases(disk')
  <2> SUFFICES ASSUME NEW x \in Numbers, disk'[x].in_use, disk'[x].base # NoFrn
               PROVE  \E b \in Numbers : /\ disk'[x].base = <<disk'[b].seq, b>>
                                         /\ disk'[b].in_use /\ disk'[b].base = NoFrn
    BY <1>7 DEF HaveBases
  <2>1. CASE x = free
    BY <1>1, <1>3, <1>6, <1>7, <2>1 DEF FrnOf
  <2>2. CASE x # free
    <3>1. x # n /\ disk'[x] = disk[x]
      BY <1>6, <1>7, <2>2
    <3>2. PICK b \in Numbers : /\ disk[x].base = <<disk[b].seq, b>>
                               /\ disk[b].in_use /\ disk[b].base = NoFrn
      BY <1>1, <3>1 DEF RecordsOK, HaveBases, Numbers
    <3>3. b # free
      BY <1>1, <3>2
    <3> QED  BY <1>6, <1>7, <3>1, <3>2, <3>3
  <2> QED  BY <2>1, <2>2
<1>9. Whole => InOnePiece(disk')
  BY <1>1, <1>3, <1>6, <1>7 DEF RecordsOK, InOnePiece, Numbers
<1> QED  BY <1>7, <1>8, <1>9 DEF RecordsOK

\* Files change, what was true of them is remembered.
LEMMA ChangeKeeps ==
  ASSUME VolumeOK, Change
  PROVE  /\ VolumeOK' /\ volume' = volume /\ Numbers' = Numbers
         /\ ever.names \subseteq ever'.names /\ ever.sizes \subseteq ever'.sizes
<1>1. /\ volume' = volume
      /\ ever' = [names |-> ever.names \cup Facts'.names, sizes |-> ever.sizes \cup Facts'.sizes]
  BY DEF Change
<1>2. PICK n \in volume.busy :
        \/ n \in BaseRecords /\ Deleted(n)
        \/ \E parent \in Directories, name \in volume.names :
             \/ n \in BaseRecords /\ Renamed(n, parent, name)
             \/ Created(n, parent, name)
        \/ \E free \in volume.busy, names_too \in BOOLEAN :
             n \in BaseRecords /\ Spilled(n, free, names_too)
  BY DEF Change
<1>3. volume.busy \subseteq Numbers
  BY NumbersNatural
<1>4. RecordsOK(disk')
  <2>1. CASE n \in BaseRecords /\ Deleted(n)
    BY <2>1, DeletedKeeps
  <2>2. CASE \E parent \in Directories, name \in volume.names :
               \/ n \in BaseRecords /\ Renamed(n, parent, name)
               \/ Created(n, parent, name)
    BY <1>3, <2>2, RenamedKeeps, CreatedKeeps
  <2>3. CASE \E free \in volume.busy, names_too \in BOOLEAN :
               n \in BaseRecords /\ Spilled(n, free, names_too)
    BY <1>3, <2>3, SpilledKeeps
  <2> QED  BY <1>2, <2>1, <2>2, <2>3
<1>5. Numbers' = Numbers
  BY <1>4 DEF RecordsOK, Numbers
<1>6. Whole' = Whole /\ RecordsOK(disk)'
  BY <1>1, <1>4, <1>5 DEF Whole, RecordsOK
<1> QED  BY <1>1, <1>5, <1>6 DEF VolumeOK

-----------------------------------------------------------------------------
(* What is true of a file. *)

\* Whichever record a record says is its base, there is one.
BaseExists == \A n \in Numbers : Number(disk[n].base) \in Numbers

TrueFile(frn, names, size) ==
  /\ \A i \in DOMAIN names : names[i].namespace # Dos =>
       <<frn, names[i].parent, names[i].name>> \in ever.names
  /\ size # <<>> /\ Whole => <<frn, size[1]>> \in ever.sizes

\* An entry that may be emitted, as EmittedWasTrue says it.
Emitted ==
  {entry \in [frn : Frn, parent : Frn, name : Seq(Byte), dir : BOOLEAN, mtime : Nat, size : Nat,
              exact : BOOLEAN] :
     /\ <<entry.frn, entry.parent, entry.name>> \in ever.names
     /\ entry.exact /\ Whole => <<entry.frn, entry.size>> \in ever.sizes}

Deferred ==
  {base \in [frn : Frn, children : SUBSET Frn, names : Seq(FileName), dir : BOOLEAN,
             mtime : Seq(Nat), size : Seq(Nat)] : TrueFile(base.frn, base.names, base.size)}

Extension ==
  {extension \in [base : Frn, names : Seq(FileName), size : Seq(Nat), mtime : Seq(Nat)] :
     TrueFile(extension.base, extension.names, extension.size)}

PassState ==
  [torn : Nat, deferred : Seq(Deferred), extensions : UNION {[D -> Extension] : D \in SUBSET Frn},
   entries : Seq(Emitted)]

\* The file that a record is of.
OwnerOf(n) == IF disk[n].base = NoFrn THEN FrnOf(n) ELSE disk[n].base

\* What any record in use says is true of the file it belongs to.
LEMMA RecordTrue ==
  ASSUME VolumeOK, NEW n \in Numbers, disk[n].in_use
  PROVE  /\ TrueFile(OwnerOf(n), disk[n].names, Size(disk[n]))
         /\ OwnerOf(n) \in Frn /\ disk[n].names \in Seq(FileName)
         /\ Size(disk[n]) \in Seq(Nat) /\ disk[n].mtime \in Seq(Nat)
<1>1. PICK b \in BaseRecords : n \in RecordsOf(b) /\ FrnOf(b) = OwnerOf(n)
  <2>1. CASE disk[n].base = NoFrn
    BY <2>1 DEF BaseRecords, RecordsOf, OwnerOf
  <2>2. CASE disk[n].base # NoFrn
    <3>1. PICK b \in Numbers : /\ disk[n].base = <<disk[b].seq, b>>
                               /\ disk[b].in_use /\ disk[b].base = NoFrn
      BY <2>2 DEF VolumeOK, RecordsOK, HaveBases, Numbers
    <3> QED  BY <2>2, <3>1 DEF BaseRecords, RecordsOf, OwnerOf, FrnOf
  <2> QED  BY <2>1, <2>2
<1>2. disk[n] \in FileRecord /\ (Whole => InOnePiece(disk)) /\ n \in DOMAIN disk
  BY RecordTyped DEF VolumeOK, RecordsOK
<1>3. /\ disk[n].names \in Seq(FileName) /\ disk[n].mtime \in Seq(Nat)
      /\ disk[n].data \in Seq([size : Nat, first : BOOLEAN])
  BY <1>2 DEF FileRecord
<1>4. OwnerOf(n) \in Frn
  BY <1>1, RecordTyped, NumbersNatural DEF VolumeOK, BaseRecords
<1>5. ASSUME NEW i \in DOMAIN disk[n].names, disk[n].names[i].namespace # Dos
      PROVE  <<OwnerOf(n), disk[n].names[i].parent, disk[n].names[i].name>> \in ever.names
  <2> DEFINE name == disk[n].names[i]
  <2>1. name \in NamesOf(b)
    BY <1>1, <1>5 DEF NamesOf, ToSet
  <2>2. <<FrnOf(b), name.parent, name.name>> \in Facts.names
    BY <2>1 DEF Facts
  <2> QED  BY <1>1, <2>2 DEF VolumeOK
<1>6. CASE disk[n].data = <<>>
  <2>1. Size(disk[n]) = <<>>
    BY <1>6 DEF Size
  <2> QED  BY <1>3, <1>4, <1>5, <2>1 DEF TrueFile
<1>7. CASE disk[n].data # <<>>
  <2> DEFINE data == Last(disk[n].data)
             len == Len(disk[n].data)
  <2>1. Size(disk[n]) = <<data_size(data)>>
    BY <1>7 DEF Size
  <2>2. data = disk[n].data[len] /\ len \in DOMAIN disk[n].data /\ data \in [size : Nat, first : BOOLEAN]
    <3>1. len \in DOMAIN disk[n].data
      BY <1>3, <1>7
    <3>2. data = disk[n].data[len]
      BY DEF Last
    <3>3. disk[n].data[len] \in [size : Nat, first : BOOLEAN]
      <4> DEFINE Data == [size : Nat, first : BOOLEAN]
      <4>1. disk[n].data \in Seq(Data) /\ len \in 1 .. Len(disk[n].data)
        BY <1>3, <3>1
      <4> HIDE DEF Data
      <4>2. disk[n].data[len] \in Data
        BY <4>1
      <4> QED  BY <4>2 DEF Data
    <3> QED  BY <3>1, <3>2, <3>3
  <2>3. data_size(data) \in Nat
    BY <2>2 DEF data_size
  <2>4. ASSUME Whole PROVE <<OwnerOf(n), data_size(data)>> \in ever.sizes
    <3>1. data.first
      BY <1>2, <2>2, <2>4 DEF InOnePiece
    <3>2. data \in ToSet(disk[n].data)
      BY <2>2 DEF ToSet
    <3> HIDE DEF data
    <3>3. data.size \in SizesOf(b)
      BY <1>1, <3>1, <3>2 DEF SizesOf
    <3>4. <<FrnOf(b), data.size>> \in Facts.sizes
      BY <3>3 DEF Facts
    <3> QED  BY <1>1, <3>1, <3>4 DEF VolumeOK, data_size
  <2> HIDE DEF data
  <2>5. Size(disk[n]) \in Seq(Nat) /\ Size(disk[n])[1] = data_size(data)
    BY <2>1, <2>3
  <2> QED  BY <1>3, <1>4, <1>5, <2>4, <2>5 DEF TrueFile
<1> QED  BY <1>6, <1>7

\* The name that is taken is one of those there are, and none of DOS's.
LEMMA PreferredOne ==
  ASSUME NEW names \in Seq(FileName), Preferred(names) # <<>>
  PROVE  \E i \in DOMAIN names : Preferred(names) = <<names[i]>> /\ names[i].namespace # Dos
<1> DEFINE Of(namespaces) == {i \in DOMAIN names : names[i].namespace \in namespaces}
           best == IF Of({1, 3}) # {} THEN Of({1, 3}) ELSE Of({0})
           taken == CHOOSE i \in best : \A j \in best : i <= j
<1>1. best # {} /\ Preferred(names) = <<names[taken]>>
  BY DEF Preferred
<1>2. best \in SUBSET Nat /\ best \subseteq DOMAIN names /\ \A i \in best : names[i].namespace # Dos
  BY DEF Dos
<1> HIDE DEF best
<1>3. \E i \in best : \A j \in best : i <= j
  BY <1>1, <1>2, LeastExists
<1>4. taken \in best
  BY <1>3
<1> QED  BY <1>1, <1>2, <1>4

LEMMA EntryTrue ==
  ASSUME NEW frn \in Frn, NEW names \in Seq(FileName), NEW dir \in BOOLEAN, NEW mtime \in Seq(Nat),
         NEW size \in Seq(Nat), TrueFile(frn, names, size), Preferred(names) # <<>>
  PROVE  Entry(frn, Preferred(names)[1], dir, mtime, size) \in Emitted
<1>1. PICK i \in DOMAIN names : Preferred(names) = <<names[i]>> /\ names[i].namespace # Dos
  BY PreferredOne
<1> DEFINE name == names[i]
<1>2. name \in FileName /\ Preferred(names)[1] = name
  BY <1>1
<1>3. name.parent \in Frn /\ name.name \in Seq(Byte) /\ <<frn, name.parent, name.name>> \in ever.names
  BY <1>1, <1>2 DEF FileName, TrueFile
<1>4. Default(mtime, 0) \in Nat /\ Default(size, 0) \in Nat
  <2>1. \A option \in Seq(Nat) : option # <<>> => option[1] \in Nat
    OBVIOUS
  <2> QED  BY <2>1 DEF Default
<1>5. size # <<>> /\ Whole => <<frn, Default(size, 0)>> \in ever.sizes
  BY DEF Default, TrueFile
<1> HIDE DEF name
<1> DEFINE entry == [frn |-> frn, parent |-> name.parent, name |-> name.name, dir |-> dir,
                     mtime |-> Default(mtime, 0), size |-> Default(size, 0), exact |-> size # <<>>]
<1>6. Entry(frn, Preferred(names)[1], dir, mtime, size) = entry
  BY <1>2 DEF Entry
<1>7. entry \in [frn : Frn, parent : Frn, name : Seq(Byte), dir : BOOLEAN, mtime : Nat, size : Nat,
                 exact : BOOLEAN]
  BY <1>3, <1>4
<1>8. /\ entry.frn = frn /\ entry.parent = name.parent /\ entry.name = name.name
      /\ entry.exact = (size # <<>>) /\ entry.size = Default(size, 0)
  OBVIOUS
<1> HIDE DEF entry
<1> QED  BY <1>3, <1>5, <1>6, <1>7, <1>8 DEF Emitted

LEMMA ExtensionTrue ==
  ASSUME VolumeOK, NEW n \in Numbers, disk[n].in_use, disk[n].base # NoFrn
  PROVE  parse_extension(disk[n]) \in Extension
<1>1. /\ TrueFile(disk[n].base, disk[n].names, Size(disk[n])) /\ disk[n].base \in Frn
      /\ disk[n].names \in Seq(FileName) /\ Size(disk[n]) \in Seq(Nat) /\ disk[n].mtime \in Seq(Nat)
  BY RecordTrue DEF OwnerOf
<1>2. parse_extension(disk[n]) = [base |-> disk[n].base, names |-> disk[n].names,
                                  size |-> Size(disk[n]), mtime |-> disk[n].mtime]
  BY DEF parse_extension
<1> QED  BY <1>1, <1>2 DEF Extension

LEMMA RememberKeeps ==
  ASSUME VolumeOK, NEW state \in PassState, NEW n \in Numbers, disk[n].in_use, disk[n].base # NoFrn
  PROVE  Remember(state, n) \in PassState /\ Remember(state, n).torn = state.torn
<1> DEFINE extension == parse_extension(disk[n])
           D == DOMAIN state.extensions \cup {FrnOf(n)}
           extensions_ == [r \in D |-> IF r = FrnOf(n) THEN extension ELSE state.extensions[r]]
<1>1. extension \in Extension
  BY ExtensionTrue
<1>2. FrnOf(n) \in Frn
  BY RecordTyped, NumbersNatural DEF VolumeOK
<1>3. PICK E \in SUBSET Frn : state.extensions \in [E -> Extension]
  BY DEF PassState
<1> HIDE DEF extension
<1>4. extensions_ \in [D -> Extension] /\ D \in SUBSET Frn
  BY <1>1, <1>2, <1>3
<1>5. Remember(state, n) = [state EXCEPT !.extensions = extensions_]
  BY DEF Remember, extension
<1> HIDE DEF extensions_, D
<1>6. extensions_ \in UNION {[F -> Extension] : F \in SUBSET Frn}
  BY <1>4
<1> QED  BY <1>5, <1>6 DEF PassState

\* A slot adds to the pass what is true of the record in it.
LEMMA ParseKeeps ==
  ASSUME VolumeOK, NEW state \in PassState, NEW number \in Nat, NEW at \in SUBSET Numbers, NEW torn
  PROVE  /\ parse_and_emit(state, number, at, torn) \in PassState
         /\ parse_and_emit(state, number, at, torn).torn =
              IF at # {} /\ torn THEN state.torn + 1 ELSE state.torn
<1> DEFINE n        == CHOOSE n \in at : TRUE
           record   == disk[n]
           names    == Preferred(record.names)
           children == ChildReferences(number, record)
           base     == [frn |-> FrnOf(n), children |-> children, names |-> record.names, dir |-> record.dir,
                        mtime |-> record.mtime, size |-> Size(record)]
           entry    == Entry(FrnOf(n), names[1], record.dir, record.mtime, Size(record))
           next     == parse_and_emit(state, number, at, torn)
<1>1. CASE at = {}
  <2>1. next = state
    BY <1>1 DEF parse_and_emit, Parsed
  <2> QED  BY <1>1, <2>1
<1>2. CASE at # {} /\ torn
  <2>1. next = [state EXCEPT !.torn = @ + 1]
    BY <1>2 DEF parse_and_emit, Parsed
  <2> DEFINE more == state.torn + 1
  <2>2. more \in Nat /\ next = [state EXCEPT !.torn = more]
    BY <2>1 DEF PassState
  <2> HIDE DEF more, next
  <2>3. next \in PassState /\ next.torn = more
    BY <2>2 DEF PassState
  <2> QED  BY <1>2, <2>3 DEF more, next
<1>3. CASE at # {} /\ ~torn
  <2>1. n \in Numbers
    BY <1>3
  <2>2. next = IF ~record.in_use \/ n # number THEN state
               ELSE IF record.base # NoFrn THEN Remember(state, n)
               ELSE IF record.list # "none" /\ (children # {} \/ names = <<>>)
               THEN [state EXCEPT !.deferred = Append(@, base)]
               ELSE IF names = <<>> THEN state
               ELSE [state EXCEPT !.entries = Append(@, entry)]
    BY <1>3 DEF parse_and_emit, Parsed
  <2> SUFFICES next \in PassState /\ next.torn = state.torn
    BY <1>3
  <2> HIDE DEF n, next
  <2>3. CASE next = state
    BY <2>3
  <2>4. CASE record.in_use /\ record.base # NoFrn /\ next = Remember(state, n)
    BY <2>1, <2>4, RememberKeeps
  <2>5. CASE record.in_use /\ record.base = NoFrn
    <3>1. /\ TrueFile(FrnOf(n), record.names, Size(record)) /\ FrnOf(n) \in Frn
          /\ record.names \in Seq(FileName) /\ Size(record) \in Seq(Nat) /\ record.mtime \in Seq(Nat)
      BY <2>1, <2>5, RecordTrue DEF OwnerOf
    <3>2. record \in FileRecord
      BY <2>1, RecordTyped DEF VolumeOK
    <3>3. record.dir \in BOOLEAN /\ record.entries \in Seq([type : {"info", "name", "data"}, reference : Frn])
      BY <3>2 DEF FileRecord
    <3>4. children \in SUBSET Frn
      <4> DEFINE Entries == [type : {"info", "name", "data"}, reference : Frn]
      <4>1. \A e \in ToSet(record.entries) : e \in Entries
        <5>1. record.entries \in Seq(Entries)
          BY <3>3
        <5> HIDE DEF Entries, record
        <5> QED  BY <5>1 DEF ToSet
      <4>2. \A e \in ToSet(record.entries) : e.reference \in Frn
        BY <4>1
      <4> QED  BY <4>2 DEF ChildReferences
    <3>5. base \in Deferred
      <4> HIDE DEF record, children
      <4> QED  BY <3>1, <3>3, <3>4 DEF Deferred
    <3>6. names # <<>> => entry \in Emitted
      BY <3>1, <3>3, EntryTrue
    <3> HIDE DEF base, entry, names, children, record
    <3>7. CASE next = [state EXCEPT !.deferred = Append(@, base)]
      <4>1. Append(state.deferred, base) \in Seq(Deferred)
        BY <3>5 DEF PassState
      <4> QED  BY <3>7, <4>1 DEF PassState
    <3>8. CASE names # <<>> /\ next = [state EXCEPT !.entries = Append(@, entry)]
      <4>1. Append(state.entries, entry) \in Seq(Emitted)
        BY <3>6, <3>8 DEF PassState
      <4> QED  BY <3>8, <4>1 DEF PassState
    <3> QED  BY <2>2, <2>3, <2>5, <3>7, <3>8
  <2> HIDE DEF record, names, children, base, entry
  <2> QED  BY <2>2, <2>3, <2>4, <2>5
<1> QED  BY <1>1, <1>2, <1>3

-----------------------------------------------------------------------------
(* The reader. *)

Start(j) == runs[j].lcn * geometry.cluster_size

\* The pass has read a file's base record in run j.
Passed(frn, j) ==
  /\ runs[j].lcn # Sparse
  /\ \E offset \in Int :
       /\ volume.offsets[Number(frn)] = Ok(offset)
       /\ Start(j) <= offset /\ offset < Start(j) + RunBytes(runs[j], geometry)
       /\ j < place.run \/ (j = place.run /\ offset < Start(j) + place.run_position)

PlaceOK ==
  /\ place \in [run : Nat, run_position : Nat, stream_position : Nat]
  /\ place.run \in 1 .. Len(runs) + 1
  /\ place.run \in DOMAIN runs => place.run_position <= RunBytes(runs[place.run], geometry)
  /\ phase = "boot" => place.run = 1 /\ place.run_position = 0

\* Each torn record was another's: the pass comes to no place of the disk twice.
HiddenOK ==
  /\ IsFiniteSet(hidden) /\ pass.torn <= Cardinality(hidden)
  /\ phase = "pass" => \A frn \in hidden : \E j \in DOMAIN runs : Passed(frn, j)
  /\ phase = "boot" => hidden = {}

Resolved == [names : Seq(FileName), size : Seq(Nat), mtime : Seq(Nat)]

\* What was found for a deferred record is true of its file.
ResolvedOK ==
  /\ phase \in {"boot", "pass", "demoted", "failed"} => resolved = <<>>
  /\ phase \in {"resolve", "raw"} =>
       /\ resolved \in Seq(Resolved) /\ Len(resolved) = Len(pass.deferred)
       /\ \A i \in DOMAIN resolved : TrueFile(pass.deferred[i].frn, resolved[i].names, resolved[i].size)
  /\ phase = "done" => Len(resolved) \in {0, Len(pass.deferred)}

ReaderOK ==
  /\ pass \in PassState /\ runs \in Seq(Run) /\ Disjoint(runs)
  /\ phase = "pass" \/ runs # <<>> => geometry \in Geometry
  /\ PlaceOK /\ HiddenOK /\ ResolvedOK
  /\ todo # {} => phase = "resolve"

PhaseOK ==
  /\ phase \in Phases /\ demoted \in BOOLEAN /\ start_frn \in Nat
  /\ phase \in {"demoted", "failed"} => demoted

IInv == VolumeOK /\ BaseExists /\ ReaderOK /\ PhaseOK

LEMMA NothingRead ==
  NewPass \in PassState /\ <<>> \in Seq(Run) /\ Disjoint(<<>>)
<1>1. <<>> \in Seq(Deferred) /\ <<>> \in Seq(Emitted) /\ <<>> \in Seq(Run)
  OBVIOUS
<1>2. <<>> \in UNION {[D -> Extension] : D \in SUBSET Frn}
  <2>1. <<>> \in [{} -> Extension]
    OBVIOUS
  <2> QED  BY <2>1
<1>3. Disjoint(<<>>)
  BY DEF Disjoint
<1> QED  BY <1>1, <1>2, <1>3 DEF NewPass, PassState

\* A chunk stays within its run, and its slots within the chunk.
LEMMA ChunkBounds ==
  ASSUME ReaderOK, phase = "pass", place.run \in DOMAIN runs, More, Aligned > 0, VolumeOK
  PROVE  /\ Aligned \in Nat /\ Aligned <= RunBytes(runs[place.run], geometry) - place.run_position
         /\ RunBytes(runs[place.run], geometry) \in Nat
         /\ Slots \in Nat /\ \A k \in 0 .. Slots - 1 : k * geometry.file_record_size < Aligned
<1> DEFINE rest == RunBytes(runs[place.run], geometry) - place.run_position
           wanted == Lesser(rest, BUFFER)
           sector == geometry.physical_sector_size
           size == geometry.file_record_size
           left == volume.stream_size - place.stream_position
<1>1. sector \in Size_ /\ size \in Size_ /\ RunBytes(runs[place.run], geometry) \in Nat
  <2>1. geometry \in Geometry /\ runs[place.run] \in Run
    BY DEF ReaderOK
  <2>2. RunBytes(runs[place.run], geometry) \in Size_
    BY <2>1, RunBytesPositive
  <2> QED  BY <2>1, <2>2 DEF Geometry, Size_
<1>2. place.run_position \in Nat /\ place.stream_position \in Nat /\ volume.stream_size \in Nat
  BY VolumesAssumption DEF ReaderOK, PlaceOK, VolumeOK
<1>3. rest \in Nat \ {0} /\ left \in Nat \ {0}
  BY <1>1, <1>2 DEF More
<1> HIDE DEF rest, left
<1>4. wanted \in Nat /\ wanted <= rest
  BY <1>3, BufferAssumption DEF Lesser
<1>5. Aligned = wanted - (wanted % sector)
  BY DEF Aligned, rest
<1> HIDE DEF wanted, sector
<1>6. wanted % sector \in 0 .. sector - 1
  BY <1>1, <1>4 DEF Size_
<1>7. Aligned \in Nat /\ Aligned <= rest
  <2> DEFINE over == wanted % sector
  <2>1. over \in Nat /\ Aligned = wanted - over
    BY <1>1, <1>5, <1>6 DEF Size_
  <2> HIDE DEF over
  <2>2. Aligned \in Int /\ Aligned <= wanted
    BY <1>4, <2>1
  <2> QED  BY <2>2, <1>3, <1>4
<1> DEFINE bytes == Lesser(left, Aligned)
<1>8. bytes \in Nat /\ bytes <= Aligned /\ Slots = bytes \div size
  BY <1>3, <1>7 DEF Lesser, Slots, left
<1> HIDE DEF bytes, size
<1>9. bytes \div size \in Nat /\ (bytes \div size) * size <= bytes
  BY <1>1, <1>8 DEF Size_
<1>10. ASSUME NEW k \in 0 .. Slots - 1 PROVE k * size < Aligned
  <2> DEFINE slots == bytes \div size
  <2>1. slots \in Nat /\ slots * size <= bytes /\ k \in 0 .. slots - 1
    BY <1>8, <1>9, <1>10
  <2> HIDE DEF slots
  <2>2. (k + 1) * size <= slots * size
    BY <1>1, <2>1, Monotone DEF Size_
  <2>3. (k + 1) * size = k * size + size /\ k * size \in Nat
    BY <1>1, <2>1 DEF Size_
  <2> DEFINE x == k * size
             y == (k + 1) * size
             z == slots * size
  <2>4. x \in Nat /\ y = x + size /\ y <= z /\ z <= bytes /\ z \in Nat
    BY <2>1, <2>2, <2>3, <1>1 DEF Size_
  <2> HIDE DEF x, y, z
  <2>5. x < Aligned
    BY <2>4, <1>1, <1>7, <1>8 DEF Size_
  <2> QED  BY <2>5 DEF x
<1> QED  BY <1>1, <1>7, <1>8, <1>9, <1>10 DEF rest, size

Chunk(f, slots, first, torn) ==
  f = [k \in 0 .. slots |->
         IF k = 0 THEN pass ELSE parse_and_emit(f[k - 1], first + k - 1, SlotAt(k - 1), k - 1 \in torn)]

ChunkRead(slots, first, torn) == CHOOSE f : Chunk(f, slots, first, torn)

\* The pass after each slot is one, and counts what was torn so far.
LEMMA ChunkKeeps ==
  ASSUME VolumeOK, pass \in PassState, NEW slots \in Nat, NEW first \in Nat, NEW torn,
         torn = {} \/ \E t \in 0 .. slots - 1 : torn = {t} /\ SlotAt(t) # {}
  PROVE  /\ ChunkRead(slots, first, torn)[slots] \in PassState
         /\ ChunkRead(slots, first, torn)[slots].torn = pass.torn + (IF torn = {} THEN 0 ELSE 1)
<1> DEFINE after == ChunkRead(slots, first, torn)
           Parse(k, state) == parse_and_emit(state, first + k - 1, SlotAt(k - 1), k - 1 \in torn)
           step == [k \in 1 .. slots |-> [state \in PassState |-> Parse(k, state)]]
<1>1. \A k \in 1 .. slots, state \in PassState :
        /\ Parse(k, state) \in PassState
        /\ Parse(k, state).torn = IF SlotAt(k - 1) # {} /\ k - 1 \in torn THEN state.torn + 1 ELSE state.torn
  <2> SUFFICES ASSUME NEW k \in 1 .. slots, NEW state \in PassState
               PROVE  /\ Parse(k, state) \in PassState
                      /\ Parse(k, state).torn =
                           IF SlotAt(k - 1) # {} /\ k - 1 \in torn THEN state.torn + 1 ELSE state.torn
    OBVIOUS
  <2>1. SlotAt(k - 1) \in SUBSET Numbers
    BY DEF SlotAt, Found
  <2>2. first + k - 1 \in Nat
    OBVIOUS
  <2> DEFINE number == first + k - 1
             at == SlotAt(k - 1)
             caught == k - 1 \in torn
  <2>3. at \in SUBSET Numbers /\ number \in Nat
    BY <2>1, <2>2
  <2>4. Parse(k, state) = parse_and_emit(state, number, at, caught)
    OBVIOUS
  <2> HIDE DEF number, at, caught, Parse
  <2>5. /\ Parse(k, state) \in PassState
        /\ Parse(k, state).torn = IF at # {} /\ caught THEN state.torn + 1 ELSE state.torn
    BY <2>3, <2>4, ParseKeeps
  <2> QED  BY <2>5 DEF at, caught
<1> HIDE DEF Parse, step, after
<1>2. PICK f : Follows(f, slots, PassState, pass, step)
  <2>1. Steps(slots, PassState, pass, step)
    BY <1>1 DEF step, Steps
  <2> QED  BY <2>1, StepsExist
<1>3. Chunk(f, slots, first, torn)
  <2>1. ASSUME NEW k \in 1 .. slots PROVE f[k] = Parse(k, f[k - 1])
    <3>1. f[k] = step[k][f[k - 1]] /\ f[k - 1] \in PassState
      BY <1>2 DEF Follows
    <3> QED  BY <3>1 DEF step
  <2>2. \A k \in 0 .. slots : f[k] = IF k = 0 THEN pass ELSE Parse(k, f[k - 1])
    BY <1>2, <2>1 DEF Follows
  <2>3. f = [k \in 0 .. slots |-> IF k = 0 THEN pass ELSE Parse(k, f[k - 1])]
    BY <1>2, <2>2 DEF Follows
  <2> QED  BY <2>3 DEF Chunk, Parse
<1>4. Chunk(after, slots, first, torn)
  BY <1>3 DEF after, ChunkRead
<1>5. after[0] = pass /\ \A k \in 1 .. slots : after[k] = Parse(k, after[k - 1])
  <2>1. after = [k \in 0 .. slots |-> IF k = 0 THEN pass ELSE Parse(k, after[k - 1])]
    BY <1>4 DEF Chunk, Parse
  <2>2. 0 \in 0 .. slots /\ \A k \in 1 .. slots : k \in 0 .. slots /\ k # 0
    OBVIOUS
  <2> QED  BY <2>1, <2>2
<1> DEFINE Torn(k) == IF \E t \in torn : t < k THEN 1 ELSE 0
           T == {k \in 0 .. slots : after[k] \in PassState /\ after[k].torn = pass.torn + Torn(k)}
<1>6. 0 \in T
  <2>1. Torn(0) = 0
    OBVIOUS
  <2>2. pass.torn \in Nat
    BY DEF PassState
  <2> QED  BY <1>5, <2>1, <2>2
<1>7. ASSUME NEW k \in 1 .. slots, k - 1 \in T PROVE k \in T
  <2>1. /\ after[k - 1] \in PassState /\ after[k - 1].torn = pass.torn + Torn(k - 1)
        /\ after[k] = Parse(k, after[k - 1])
    BY <1>5, <1>7
  <2>2. /\ after[k] \in PassState
        /\ after[k].torn = IF SlotAt(k - 1) # {} /\ k - 1 \in torn THEN after[k - 1].torn + 1
                           ELSE after[k - 1].torn
    BY <1>1, <2>1
  <2>3. Torn(k) = IF SlotAt(k - 1) # {} /\ k - 1 \in torn THEN Torn(k - 1) + 1 ELSE Torn(k - 1)
    OBVIOUS
  <2>4. pass.torn \in Nat /\ Torn(k - 1) \in Nat
    BY DEF PassState
  <2> HIDE DEF Torn
  <2> QED  BY <2>1, <2>2, <2>3, <2>4
<1> HIDE DEF T
<1>8. 0 .. slots \subseteq T
  BY <1>6, <1>7, UpTo
<1>9. after[slots] \in PassState /\ after[slots].torn = pass.torn + Torn(slots)
  BY <1>8 DEF T
<1>10. Torn(slots) = IF torn = {} THEN 0 ELSE 1
  OBVIOUS
<1> QED  BY <1>9, <1>10 DEF after

\* Runs that have no cluster in common have no byte in common.
LEMMA RunsApart ==
  ASSUME runs \in Seq(Run), Disjoint(runs), geometry \in Geometry,
         NEW i \in DOMAIN runs, NEW j \in DOMAIN runs, i # j,
         runs[i].lcn # Sparse, runs[j].lcn # Sparse
  PROVE  \/ Start(i) + RunBytes(runs[i], geometry) <= Start(j)
         \/ Start(j) + RunBytes(runs[j], geometry) <= Start(i)
<1> DEFINE size == geometry.cluster_size
<1>1. size \in Nat
  BY DEF Geometry, Size_
<1>2. \A k \in DOMAIN runs : runs[k].cluster_count \in Nat /\ (runs[k].lcn # Sparse => runs[k].lcn \in Nat)
  <2>1. \A k \in DOMAIN runs : runs[k] \in Run
    OBVIOUS
  <2> QED  BY <2>1 DEF Run, Size_
<1>3. ASSUME NEW k \in DOMAIN runs, NEW l \in DOMAIN runs, runs[k].lcn # Sparse, runs[l].lcn # Sparse,
             runs[k].lcn + runs[k].cluster_count <= runs[l].lcn
      PROVE  Start(k) + RunBytes(runs[k], geometry) <= Start(l)
  <2> DEFINE a == runs[k].lcn
             b == runs[k].cluster_count
             c == runs[l].lcn
  <2>1. a \in Nat /\ b \in Nat /\ c \in Nat /\ a + b <= c
    BY <1>2, <1>3
  <2>2. Start(k) = a * size /\ Start(l) = c * size /\ RunBytes(runs[k], geometry) = b * size
    BY DEF Start, RunBytes
  <2> HIDE DEF a, b, c, size
  <2>3. (a + b) * size <= c * size
    BY <1>1, <2>1, Monotone
  <2>4. (a + b) * size = a * size + b * size
    BY <1>1, <2>1
  <2> QED  BY <2>2, <2>3, <2>4
<1>4. \/ runs[i].lcn + runs[i].cluster_count <= runs[j].lcn
      \/ runs[j].lcn + runs[j].cluster_count <= runs[i].lcn
  BY DEF Disjoint
<1> QED  BY <1>3, <1>4

\* Nothing becomes untrue by reading.
LEMMA VolumeStays ==
  ASSUME UNCHANGED volume_vars
  PROVE  /\ PassState' = PassState /\ (VolumeOK => VolumeOK')
         /\ \A frn, names, size : TrueFile(frn, names, size)' <=> TrueFile(frn, names, size)
<1>1. volume' = volume /\ disk' = disk /\ ever' = ever
  BY DEF volume_vars
<1>2. Whole' <=> Whole
  BY <1>1 DEF Whole
<1>3. \A frn, names, size : TrueFile(frn, names, size)' <=> TrueFile(frn, names, size)
  BY <1>1, <1>2 DEF TrueFile
<1>4. Emitted' = Emitted /\ Deferred' = Deferred /\ Extension' = Extension
  BY <1>1, <1>2, <1>3 DEF Emitted, Deferred, Extension
<1>5. PassState' = PassState
  BY <1>4 DEF PassState
<1>6. Facts' = Facts /\ Numbers' = Numbers
  BY <1>1 DEF Facts, Numbers, BaseRecords, FrnOf, NamesOf, SizesOf, RecordsOf
<1>7. VolumeOK => VolumeOK'
  BY <1>1, <1>2, <1>6 DEF VolumeOK, RecordsOK
<1> QED  BY <1>3, <1>5, <1>7

LEMMA StartNatural ==
  ASSUME runs \in Seq(Run), geometry \in Geometry, NEW j \in DOMAIN runs, runs[j].lcn # Sparse
  PROVE  Start(j) \in Nat /\ RunBytes(runs[j], geometry) \in Nat
<1> DEFINE a == runs[j].lcn
           size == geometry.cluster_size
           run == runs[j]
<1>1. run \in Run
  OBVIOUS
<1>2. a \in Nat /\ size \in Nat
  BY <1>1 DEF Run, Geometry, Size_
<1>3. RunBytes(run, geometry) \in Nat
  BY <1>1, RunBytesPositive DEF Size_
<1>4. Start(j) = a * size
  BY DEF Start
<1> HIDE DEF a, size, run
<1>5. a * size \in Nat
  BY <1>2
<1> QED  BY <1>3, <1>4, <1>5 DEF run

LEMMA ReadChunkKeeps ==
  ASSUME VolumeOK, ReaderOK, ReadChunk, UNCHANGED volume_vars
  PROVE  ReaderOK'
<1> DEFINE first == place.stream_position \div geometry.file_record_size
           IsTorn(torn) == /\ torn = {} \/ \E t \in 0 .. Slots - 1 : torn = {t} /\ SlotAt(t) # {}
                           /\ pass' = ChunkRead(Slots, first, torn)[Slots]
                           /\ hidden' = hidden \cup UNION {{FrnOf(n) : n \in SlotAt(k)} : k \in torn}
<1>1. /\ phase = "pass" /\ place.run \in DOMAIN runs /\ runs[place.run].lcn # Sparse
      /\ More /\ Aligned > 0
      /\ place' = [place EXCEPT !.run_position = @ + Aligned, !.stream_position = @ + Aligned]
      /\ phase' = phase /\ geometry' = geometry /\ runs' = runs /\ todo' = todo /\ resolved' = resolved
  BY DEF ReadChunk
<1>2. PICK torn : IsTorn(torn)
  BY DEF ReadChunk, Chunk, ChunkRead
<1>3. /\ Aligned \in Nat /\ Aligned <= RunBytes(runs[place.run], geometry) - place.run_position
      /\ RunBytes(runs[place.run], geometry) \in Nat
      /\ Slots \in Nat /\ \A k \in 0 .. Slots - 1 : k * geometry.file_record_size < Aligned
  BY <1>1, ChunkBounds
<1>4. /\ pass \in PassState /\ runs \in Seq(Run) /\ Disjoint(runs) /\ geometry \in Geometry
      /\ PlaceOK /\ HiddenOK /\ resolved = <<>> /\ todo = {}
  BY <1>1 DEF ReaderOK, ResolvedOK
<1> HIDE DEF first
<1>5. first \in Nat
  <2>1. place.stream_position \in Nat /\ geometry.file_record_size \in Size_
    BY <1>4 DEF PlaceOK, Geometry
  <2>2. \A n \in Nat, d \in Size_ : (n \div d) \in Nat
    BY DEF Size_
  <2> QED  BY <2>1, <2>2 DEF first
<1>6. pass' \in PassState /\ pass'.torn = pass.torn + (IF torn = {} THEN 0 ELSE 1)
  <2>1. /\ pass' = ChunkRead(Slots, first, torn)[Slots]
        /\ torn = {} \/ \E t \in 0 .. Slots - 1 : torn = {t} /\ SlotAt(t) # {}
    BY <1>2
  <2> QED  BY <1>3, <1>4, <1>5, <2>1, ChunkKeeps
<1> DEFINE here == Start(place.run) + place.run_position
<1>7. /\ place'.run = place.run /\ place'.run_position = place.run_position + Aligned
      /\ place' \in [run : Nat, run_position : Nat, stream_position : Nat]
      /\ place.run \in Nat /\ place.run_position \in Nat
  <2>1. place \in [run : Nat, run_position : Nat, stream_position : Nat]
    BY <1>4 DEF PlaceOK
  <2> DEFINE position == place.run_position + Aligned
             stream == place.stream_position + Aligned
  <2>2. position \in Nat /\ stream \in Nat /\ place.run \in Nat /\ place.run_position \in Nat
    BY <1>3, <2>1
  <2>3. place' = [place EXCEPT !.run_position = position, !.stream_position = stream]
    BY <1>1
  <2> HIDE DEF position, stream
  <2>4. /\ place'.run = place.run /\ place'.run_position = position
        /\ place' \in [run : Nat, run_position : Nat, stream_position : Nat]
    BY <2>1, <2>2, <2>3
  <2> QED  BY <2>2, <2>4 DEF position
<1>8. PlaceOK'
  BY <1>1, <1>3, <1>4, <1>7 DEF PlaceOK
<1>9. \A j \in DOMAIN runs : Start(j)' = Start(j) /\ runs'[j] = runs[j]
  BY <1>1 DEF Start
<1>10. volume' = volume
  BY DEF volume_vars
<1>11. ASSUME NEW frn, NEW j \in DOMAIN runs, Passed(frn, j) PROVE Passed(frn, j)'
  <2>1. PICK offset \in Int :
          /\ volume.offsets[Number(frn)] = Ok(offset)
          /\ Start(j) <= offset /\ offset < Start(j) + RunBytes(runs[j], geometry)
          /\ j < place.run \/ (j = place.run /\ offset < Start(j) + place.run_position)
    BY <1>11 DEF Passed
  <2>2. Start(j) \in Int
    BY <1>4, <1>11, StartNatural DEF Passed
  <2>3. j = place.run => offset < Start(j) + (place.run_position + Aligned)
    <3> HIDE DEF here
    <3>1. CASE j < place.run
      BY <3>1, <1>7, <1>4
    <3>2. CASE j = place.run /\ offset < Start(j) + place.run_position
      BY <3>2, <1>3, <1>7, <2>2
    <3> QED  BY <2>1, <3>1, <3>2
  <2>4. j < place.run \/ j = place.run
    BY <2>1
  <2> QED  BY <1>1, <1>7, <1>9, <1>10, <1>11, <2>1, <2>3, <2>4 DEF Passed
<1>12. ASSUME torn = {} PROVE HiddenOK'
  <2>1. hidden' = hidden /\ pass'.torn = pass.torn
    BY <1>2, <1>6, <1>12, <1>4 DEF PassState
  <2> QED  BY <1>1, <1>4, <1>11, <2>1 DEF HiddenOK
<1>13. ASSUME torn # {} PROVE HiddenOK'
  <2>1. PICK t \in 0 .. Slots - 1 : torn = {t} /\ SlotAt(t) # {}
    BY <1>2, <1>13
  <2> DEFINE new == {FrnOf(n) : n \in SlotAt(t)}
             offset == here + t * geometry.file_record_size
  <2>2. hidden' = hidden \cup new /\ pass'.torn = pass.torn + 1
    BY <1>2, <1>6, <2>1
  <2>3. /\ offset \in Int /\ here <= offset /\ offset < here + Aligned
        /\ \A n \in SlotAt(t) : n \in Numbers /\ volume.offsets[n] = Ok(offset)
    <3> DEFINE into == t * geometry.file_record_size
    <3>1. into \in Nat /\ into < Aligned
      BY <1>3, <1>4 DEF Geometry, Size_
    <3>2. Start(place.run) \in Int
      BY <1>1, <1>4, StartNatural
    <3>3. \A n \in SlotAt(t) : n \in Numbers /\ volume.offsets[n] = Ok(offset)
      BY DEF SlotAt, Found, Start
    <3> HIDE DEF into
    <3>4. offset = here + into
      BY DEF into
    <3> HIDE DEF offset
    <3> QED  BY <1>3, <1>7, <3>1, <3>2, <3>3, <3>4
  <2>4. \A n \in SlotAt(t) : Number(FrnOf(n)) = n
    BY DEF Number, FrnOf
  <2> HIDE DEF offset, here
  <2>5. ASSUME NEW n \in SlotAt(t) PROVE FrnOf(n) \notin hidden
    <3> SUFFICES ASSUME FrnOf(n) \in hidden PROVE FALSE
      OBVIOUS
    <3>1. PICK j \in DOMAIN runs : Passed(FrnOf(n), j)
      BY <1>1, <1>4 DEF HiddenOK
    <3>2. PICK o \in Int :
            /\ volume.offsets[n] = Ok(o)
            /\ Start(j) <= o /\ o < Start(j) + RunBytes(runs[j], geometry)
            /\ j < place.run \/ (j = place.run /\ o < Start(j) + place.run_position)
      BY <2>4, <3>1 DEF Passed
    <3>3. o = offset
      BY <2>3, <3>2 DEF Ok
    <3>4. Start(place.run) \in Int /\ here = Start(place.run) + place.run_position
      BY <1>1, <1>4, StartNatural DEF here
    <3>5. CASE j = place.run
      BY <3>2, <3>3, <3>4, <3>5, <2>3, <1>7
    <3>6. CASE j # place.run
      <4>1. \/ Start(j) + RunBytes(runs[j], geometry) <= Start(place.run)
            \/ Start(place.run) + RunBytes(runs[place.run], geometry) <= Start(j)
        BY <1>1, <1>4, <3>1, <3>6, RunsApart DEF Passed
      <4>2. /\ Start(j) <= offset /\ offset < Start(j) + RunBytes(runs[j], geometry)
            /\ Start(place.run) <= offset /\ offset < Start(place.run) + RunBytes(runs[place.run], geometry)
        BY <1>3, <1>7, <2>3, <3>2, <3>3, <3>4
      <4>3. Start(j) \in Int /\ RunBytes(runs[j], geometry) \in Int
        BY <1>4, <3>1, StartNatural DEF Passed
      <4> QED  BY <1>3, <3>4, <4>1, <4>2, <4>3, <2>3
    <3> QED  BY <3>5, <3>6
  <2>6. IsFiniteSet(hidden') /\ pass'.torn <= Cardinality(hidden')
    <3>1. IsFiniteSet(SlotAt(t))
      BY <2>3, NumbersNatural, FS_Subset DEF SlotAt, Found
    <3>2. IsFiniteSet(new)
      <4>1. [n \in SlotAt(t) |-> FrnOf(n)] \in Surjection(SlotAt(t), new)
        BY DEF Surjection
      <4> HIDE DEF new
      <4> QED  BY <3>1, <4>1, FS_Surjection
    <3>3. IsFiniteSet(hidden) /\ IsFiniteSet(hidden')
      BY <1>4, <2>2, <3>2, FS_Union DEF HiddenOK
    <3>4. PICK n \in SlotAt(t) : TRUE
      BY <2>1
    <3> DEFINE one == hidden \cup {FrnOf(n)}
    <3>5. Cardinality(one) = Cardinality(hidden) + 1 /\ IsFiniteSet(one)
      BY <2>5, <3>3, FS_AddElement
    <3>6. one \subseteq hidden'
      BY <2>2
    <3>7. Cardinality(one) <= Cardinality(hidden')
      BY <3>3, <3>6, FS_Subset
    <3>8. Cardinality(hidden) \in Nat /\ Cardinality(hidden') \in Nat /\ pass.torn \in Nat
      BY <3>3, <1>4, FS_CardinalityType DEF PassState
    <3>9. pass.torn <= Cardinality(hidden)
      BY <1>4 DEF HiddenOK
    <3> HIDE DEF one, new
    <3> QED  BY <2>2, <3>3, <3>5, <3>7, <3>8, <3>9
  <2>7. ASSUME NEW frn \in hidden' PROVE \E j \in DOMAIN runs' : Passed(frn, j)'
    <3>1. CASE frn \in hidden
      BY <1>1, <1>4, <1>11, <3>1 DEF HiddenOK
    <3>2. CASE frn \in new
      <4>1. PICK n \in SlotAt(t) : frn = FrnOf(n)
        BY <3>2
      <4>2. volume'.offsets[Number(frn)] = Ok(offset)
        BY <1>10, <2>3, <2>4, <4>1
      <4>3. Start(place.run) \in Int /\ here = Start(place.run) + place.run_position
        BY <1>1, <1>4, StartNatural DEF here
      <4>4. /\ Start(place.run) <= offset /\ offset < Start(place.run) + RunBytes(runs[place.run], geometry)
            /\ offset < Start(place.run) + (place.run_position + Aligned)
        BY <1>3, <1>7, <2>3, <4>3
      <4>5. Passed(frn, place.run)'
        BY <1>1, <1>7, <1>9, <2>3, <4>2, <4>4 DEF Passed
      <4> QED  BY <1>1, <1>7, <4>5
    <3> QED  BY <2>2, <2>7, <3>1, <3>2
  <2> QED  BY <1>1, <2>6, <2>7 DEF HiddenOK
<1>14. ResolvedOK' /\ todo' = {}
  BY <1>1, <1>4 DEF ResolvedOK
<1>15. pass' \in PassState'
  BY <1>6, VolumeStays
<1> QED  BY <1>1, <1>4, <1>8, <1>12, <1>13, <1>14, <1>15 DEF ReaderOK

LEMMA FailKeeps ==
  ASSUME Fail, UNCHANGED volume_vars
  PROVE  ReaderOK'
<1>1. /\ phase' = "demoted" /\ pass' = NewPass /\ todo' = {} /\ resolved' = <<>> /\ runs' = <<>>
      /\ place' = [run |-> 1, run_position |-> 0, stream_position |-> 0] /\ hidden' = {}
  BY DEF Fail
<1>2. NewPass \in PassState' /\ <<>> \in Seq(Run) /\ Disjoint(<<>>)
  BY NothingRead, VolumeStays
<1>3. PlaceOK'
  BY <1>1 DEF PlaceOK
<1>4. HiddenOK'
  BY <1>1, FS_EmptySet DEF HiddenOK, NewPass
<1>5. ResolvedOK'
  BY <1>1 DEF ResolvedOK, NewPass
<1> QED  BY <1>1, <1>2, <1>3, <1>4, <1>5 DEF ReaderOK

LEMMA ReadRunsKeeps ==
  ASSUME VolumeOK, ReaderOK, ReadRuns, UNCHANGED volume_vars
  PROVE  ReaderOK'
<1> DEFINE boot == parse_boot_sector(volume.boot)
           list == decode_runs(volume.run_bytes)
           g == [boot[1] EXCEPT !.physical_sector_size = volume.physical_sector]
<1>1. CASE Fail
  BY <1>1, FailKeeps
<1>2. CASE ~Fail
  <2>1. /\ phase = "boot" /\ boot # Invalid /\ list # Invalid
        /\ phase' = "pass" /\ runs' = list[1] /\ geometry' = g
        /\ place' = place /\ pass' = pass /\ todo' = todo /\ resolved' = resolved /\ hidden' = hidden
    BY <1>2 DEF ReadRuns
  <2>2. /\ volume.boot \in BootSector /\ volume.physical_sector \in Size_ /\ volume.run_bytes \in Seq(Byte)
        /\ Disjoint(list[1])
    BY <2>1, VolumesAssumption DEF VolumeOK, BootSector, Size_
  <2>3. boot[1] \in Geometry /\ list[1] \in Seq(Run)
    BY <2>1, <2>2, BootGeometry, DecodedTyped
  <2> HIDE DEF boot, list
  <2>4. g \in Geometry
    BY <2>2, <2>3 DEF Geometry
  <2> HIDE DEF g
  <2>5. PlaceOK'
    <3>1. place.run = 1 /\ place.run_position = 0 /\ place \in [run : Nat, run_position : Nat, stream_position : Nat]
      BY <2>1 DEF ReaderOK, PlaceOK
    <3>2. \A j \in DOMAIN runs' : 0 <= RunBytes(runs'[j], geometry')
      BY <2>1, <2>3, <2>4, RunBytesPositive DEF Size_
    <3> QED  BY <2>1, <2>3, <3>1, <3>2 DEF PlaceOK
  <2>6. HiddenOK'
    BY <2>1 DEF ReaderOK, HiddenOK
  <2>7. ResolvedOK' /\ todo' = {}
    BY <2>1 DEF ReaderOK, ResolvedOK
  <2>8. pass' \in PassState'
    BY <2>1, VolumeStays DEF ReaderOK
  <2> QED  BY <2>1, <2>2, <2>3, <2>4, <2>5, <2>6, <2>7, <2>8 DEF ReaderOK
<1> QED  BY <1>1, <1>2

LEMMA NextRunKeeps ==
  ASSUME VolumeOK, ReaderOK, NextRun, UNCHANGED volume_vars
  PROVE  ReaderOK'
<1>1. CASE Fail
  BY <1>1, FailKeeps
<1>2. CASE ~Fail
  <2>1. /\ phase = "pass" /\ place.run \in DOMAIN runs
        /\ place' = [place EXCEPT !.run = @ + 1, !.run_position = 0]
        /\ phase' = phase /\ geometry' = geometry /\ runs' = runs /\ pass' = pass
        /\ todo' = todo /\ resolved' = resolved /\ hidden' = hidden
    BY <1>2 DEF NextRun
  <2>2. /\ pass \in PassState /\ runs \in Seq(Run) /\ Disjoint(runs) /\ geometry \in Geometry
        /\ PlaceOK /\ HiddenOK /\ resolved = <<>> /\ todo = {}
    BY <2>1 DEF ReaderOK, ResolvedOK
  <2>3. /\ place'.run = place.run + 1 /\ place'.run_position = 0 /\ place.run \in Nat
        /\ place' \in [run : Nat, run_position : Nat, stream_position : Nat]
    <3>1. place \in [run : Nat, run_position : Nat, stream_position : Nat]
      BY <2>2 DEF PlaceOK
    <3> DEFINE next == place.run + 1
    <3>2. place' = [place EXCEPT !.run = next, !.run_position = 0] /\ next \in Nat
      BY <2>1, <3>1
    <3> HIDE DEF next
    <3>3. /\ place'.run = next /\ place'.run_position = 0 /\ place.run \in Nat
          /\ place' \in [run : Nat, run_position : Nat, stream_position : Nat]
      BY <3>1, <3>2
    <3> QED  BY <3>3 DEF next
  <2>4. PlaceOK'
    <3>1. \A j \in DOMAIN runs : 0 <= RunBytes(runs[j], geometry)
      BY <2>2, RunBytesPositive DEF Size_
    <3>2. place.run + 1 \in 1 .. Len(runs) + 1
      BY <2>1, <2>2
    <3> QED  BY <2>1, <2>3, <3>1, <3>2 DEF PlaceOK
  <2>5. HiddenOK'
    <3>1. volume' = volume /\ \A j \in DOMAIN runs : Start(j)' = Start(j)
      BY <2>1 DEF volume_vars, Start
    <3>2. ASSUME NEW frn, NEW j \in DOMAIN runs, Passed(frn, j) PROVE Passed(frn, j)'
      <4>1. \A k \in Nat : k < place.run \/ k = place.run => k < place.run + 1
        BY <2>3
      <4>2. j < place.run \/ j = place.run
        BY <3>2 DEF Passed
      <4>3. j < place'.run
        BY <2>2, <2>3, <4>1, <4>2
      <4> QED  BY <2>1, <3>1, <3>2, <4>3 DEF Passed
    <3> QED  BY <2>1, <2>2, <3>2 DEF HiddenOK
  <2>6. ResolvedOK' /\ todo' = {} /\ pass' \in PassState'
    BY <2>1, <2>2, VolumeStays DEF ResolvedOK
  <2> QED  BY <2>1, <2>2, <2>4, <2>5, <2>6 DEF ReaderOK
<1> QED  BY <1>1, <1>2

LEMMA EndPassKeeps ==
  ASSUME VolumeOK, ReaderOK, EndPass, UNCHANGED volume_vars
  PROVE  ReaderOK'
<1> DEFINE nothing == [names |-> <<>>, size |-> <<>>, mtime |-> <<>>]
<1>1. /\ phase = "pass" /\ phase' = "resolve"
      /\ resolved' = [i \in DOMAIN pass.deferred |-> nothing]
      /\ geometry' = geometry /\ runs' = runs /\ place' = place /\ pass' = pass /\ hidden' = hidden
  BY DEF EndPass
<1>2. /\ pass \in PassState /\ runs \in Seq(Run) /\ Disjoint(runs) /\ geometry \in Geometry
      /\ PlaceOK /\ HiddenOK
  BY <1>1 DEF ReaderOK
<1>3. nothing \in Resolved /\ nothing.names = <<>> /\ nothing.size = <<>>
  BY DEF Resolved
<1> HIDE DEF nothing
<1>4. ResolvedOK'
  <2>1. resolved' = [i \in 1 .. Len(pass.deferred) |-> nothing] /\ Len(pass.deferred) \in Nat
    BY <1>1, <1>2 DEF PassState
  <2>2. resolved' \in Seq(Resolved) /\ Len(resolved') = Len(pass.deferred)
    BY <1>3, <2>1
  <2>3. \A i \in DOMAIN resolved' : resolved'[i].names = <<>> /\ resolved'[i].size = <<>>
    BY <1>3, <2>1
  <2>4. \A i \in DOMAIN resolved' : TrueFile(pass'.deferred[i].frn, resolved'[i].names, resolved'[i].size)
    <3>1. \A frn : TrueFile(frn, <<>>, <<>>)
      BY DEF TrueFile
    <3> QED  BY <2>3, <3>1
  <2> QED  BY <1>1, <2>2, <2>4, VolumeStays DEF ResolvedOK
<1>5. PlaceOK' /\ HiddenOK' /\ pass' \in PassState'
  BY <1>1, <1>2, VolumeStays DEF PlaceOK, HiddenOK
<1> QED  BY <1>1, <1>2, <1>4, <1>5 DEF ReaderOK

\* Only an extension of the same file adds to what is known of it.
LEMMA ResolveKeeps ==
  ASSUME ReaderOK, phase = "resolve", NEW reference, NEW extension \in Extension, Resolve(reference, extension)
  PROVE  /\ resolved' \in Seq(Resolved) /\ Len(resolved') = Len(pass.deferred)
         /\ \A i \in DOMAIN resolved' : TrueFile(pass.deferred[i].frn, resolved'[i].names, resolved'[i].size)
<1> DEFINE more(i) == [names |-> resolved[i].names \o extension.names,
                       size  |-> IF extension.size = <<>> THEN resolved[i].size ELSE extension.size,
                       mtime |-> IF extension.mtime = <<>> THEN resolved[i].mtime ELSE extension.mtime]
           value(i) == IF \/ reference \notin pass.deferred[i].children
                          \/ extension.base # pass.deferred[i].frn
                       THEN resolved[i] ELSE more(i)
<1>1. /\ resolved \in Seq(Resolved) /\ Len(resolved) = Len(pass.deferred)
      /\ \A i \in DOMAIN resolved : TrueFile(pass.deferred[i].frn, resolved[i].names, resolved[i].size)
  BY DEF ReaderOK, ResolvedOK
<1>2. /\ extension.names \in Seq(FileName) /\ extension.size \in Seq(Nat) /\ extension.mtime \in Seq(Nat)
      /\ TrueFile(extension.base, extension.names, extension.size)
  BY DEF Extension
<1>3. resolved' = [i \in DOMAIN resolved |-> value(i)]
  BY DEF Resolve
<1>4. ASSUME NEW i \in DOMAIN resolved
      PROVE  value(i) \in Resolved /\ TrueFile(pass.deferred[i].frn, value(i).names, value(i).size)
  <2>1. resolved[i] \in Resolved /\ TrueFile(pass.deferred[i].frn, resolved[i].names, resolved[i].size)
    BY <1>1
  <2>2. CASE value(i) = resolved[i]
    BY <2>1, <2>2
  <2>3. CASE extension.base = pass.deferred[i].frn /\ value(i) = more(i)
    <3> DEFINE frn == pass.deferred[i].frn
               old == resolved[i]
               names == old.names \o extension.names
               size == IF extension.size = <<>> THEN old.size ELSE extension.size
               mtime == IF extension.mtime = <<>> THEN old.mtime ELSE extension.mtime
    <3>1. old.names \in Seq(FileName) /\ old.size \in Seq(Nat) /\ old.mtime \in Seq(Nat)
      BY <2>1 DEF Resolved
    <3>2. names \in Seq(FileName) /\ size \in Seq(Nat) /\ mtime \in Seq(Nat)
      BY <1>2, <3>1
    <3>3. value(i) = [names |-> names, size |-> size, mtime |-> mtime]
      BY <2>3
    <3>4. TrueFile(frn, names, size)
      <4>1. TrueFile(frn, extension.names, extension.size) /\ TrueFile(frn, old.names, old.size)
        BY <1>2, <2>1, <2>3
      <4>2. ASSUME NEW k \in DOMAIN names
            PROVE  \/ \E l \in DOMAIN old.names : names[k] = old.names[l]
                   \/ \E l \in DOMAIN extension.names : names[k] = extension.names[l]
        <5> DEFINE a == old.names
                   b == extension.names
        <5>1. a \in Seq(FileName) /\ b \in Seq(FileName) /\ k \in DOMAIN (a \o b) /\ names = a \o b
          BY <1>2, <3>1, <4>2
        <5> HIDE DEF a, b
        <5>2. CASE k <= Len(a)
          <6>1. k \in DOMAIN a /\ (a \o b)[k] = a[k]
            BY <5>1, <5>2
          <6> QED  BY <5>1, <6>1 DEF a
        <5>3. CASE ~(k <= Len(a))
          <6>1. k - Len(a) \in DOMAIN b /\ (a \o b)[k] = b[k - Len(a)]
            BY <5>1, <5>3
          <6> QED  BY <5>1, <6>1 DEF b
        <5> QED  BY <5>2, <5>3
      <4> HIDE DEF frn, old, names
      <4> QED  BY <4>1, <4>2 DEF TrueFile
    <3> HIDE DEF names, size, mtime, value
    <3> QED  BY <3>2, <3>3, <3>4 DEF Resolved
  <2> QED  BY <2>2, <2>3
<1> HIDE DEF value
<1>5. resolved' = [i \in 1 .. Len(resolved) |-> value(i)] /\ Len(resolved) \in Nat
  BY <1>1, <1>3
<1>6. resolved' \in Seq(Resolved) /\ Len(resolved') = Len(resolved)
  BY <1>4, <1>5, <1>1
<1> QED  BY <1>1, <1>3, <1>4, <1>6

\* All but the deferred stays as it is while they are resolved.
LEMMA ResolvingKeeps ==
  ASSUME VolumeOK, ReaderOK, phase = "resolve", UNCHANGED <<volume_vars, phase, geometry, runs, place, pass, hidden>>,
         resolved' \in Seq(Resolved), Len(resolved') = Len(pass.deferred),
         \A i \in DOMAIN resolved' : TrueFile(pass.deferred[i].frn, resolved'[i].names, resolved'[i].size)
  PROVE  ReaderOK'
<1>1. /\ phase' = "resolve" /\ geometry' = geometry /\ runs' = runs /\ place' = place /\ pass' = pass
      /\ hidden' = hidden /\ UNCHANGED volume_vars
  OBVIOUS
<1>2. PlaceOK' /\ HiddenOK' /\ pass' \in PassState'
  BY <1>1, VolumeStays DEF ReaderOK, PlaceOK, HiddenOK
<1>3. ResolvedOK'
  BY <1>1, VolumeStays DEF ResolvedOK
<1> QED  BY <1>1, <1>2, <1>3 DEF ReaderOK

LEMMA ResolveChildKeeps ==
  ASSUME VolumeOK, ReaderOK, ResolveChild, UNCHANGED volume_vars
  PROVE  ReaderOK'
<1> DEFINE reference == FirstOf(todo)
           offset    == record_disk_offset(Number(reference), geometry, runs)
           at        == Found(offset[1])
           n         == CHOOSE n \in at : TRUE
           Stays     == UNCHANGED <<phase, geometry, runs, place, pass, hidden>>
<1>1. phase = "resolve"
  BY DEF ResolveChild
<1>2. CASE Fail
  BY <1>2, FailKeeps
<1>3. CASE reference \in DOMAIN pass.extensions /\ Resolve(reference, pass.extensions[reference]) /\ Stays
  <2>1. pass.extensions[reference] \in Extension
    BY <1>3 DEF ReaderOK, PassState
  <2> HIDE DEF reference
  <2> QED  BY <1>1, <1>3, <2>1, ResolveKeeps, ResolvingKeeps
<1>4. CASE UNCHANGED resolved /\ Stays
  <2>1. /\ resolved \in Seq(Resolved) /\ Len(resolved) = Len(pass.deferred)
        /\ \A i \in DOMAIN resolved : TrueFile(pass.deferred[i].frn, resolved[i].names, resolved[i].size)
    BY <1>1 DEF ReaderOK, ResolvedOK
  <2> QED  BY <1>1, <1>4, <2>1, ResolvingKeeps
<1>5. CASE /\ at # {} /\ disk[n].in_use /\ disk[n].base # NoFrn
           /\ Resolve(reference, parse_extension(disk[n])) /\ Stays
  <2>1. n \in Numbers
    <3>1. n \in at
      BY <1>5
    <3> QED  BY <3>1 DEF Found
  <2> HIDE DEF n, reference
  <2>2. parse_extension(disk[n]) \in Extension
    BY <1>5, <2>1, ExtensionTrue
  <2> QED  BY <1>1, <1>5, <2>2, ResolveKeeps, ResolvingKeeps
<1> QED  BY <1>2, <1>3, <1>4, <1>5 DEF ResolveChild, Parsed

\* Sequences of a set's elements one after another are one.
LEMMA FlattenTyped ==
  ASSUME NEW S, NEW seqs \in Seq(Seq(S))
  PROVE  FlattenSeq(seqs) \in Seq(S)
<1> DEFINE n == Len(seqs)
           IsFlat(f) == f = [i \in 1 .. n |-> IF i = 1 THEN seqs[i] ELSE f[i - 1] \o seqs[i]]
           flat == CHOOSE f : IsFlat(f)
           first == <<>>
           step == [k \in 1 .. n |-> [x \in Seq(S) |-> x \o seqs[k]]]
<1>1. n \in Nat /\ \A k \in 1 .. n : seqs[k] \in Seq(S)
  OBVIOUS
<1>2. CASE n = 0
  <2>1. FlattenSeq(seqs) = seqs /\ seqs = <<>>
    BY <1>2 DEF FlattenSeq
  <2> QED  BY <2>1
<1>3. CASE n # 0
  <2>1. FlattenSeq(seqs) = flat[n]
    BY <1>3 DEF FlattenSeq
  <2> HIDE DEF n, IsFlat, flat, first, step
  <2>2. PICK f : Follows(f, n, Seq(S), first, step)
    <3>1. Steps(n, Seq(S), first, step)
      BY <1>1 DEF first, step, Steps
    <3> QED  BY <3>1, StepsExist
  <2>3. /\ f \in [0 .. n -> Seq(S)] /\ f[0] = <<>>
        /\ \A k \in 1 .. n : f[k] = step[k][f[k - 1]]
    BY <2>2 DEF Follows, first
  <2>4. \A k \in 1 .. n : f[k - 1] \in Seq(S) /\ f[k] = f[k - 1] \o seqs[k]
    <3> SUFFICES ASSUME NEW k \in 1 .. n PROVE f[k - 1] \in Seq(S) /\ f[k] = f[k - 1] \o seqs[k]
      OBVIOUS
    <3>1. f[k - 1] \in Seq(S) /\ f[k] = step[k][f[k - 1]]
      BY <1>1, <2>3
    <3> QED  BY <3>1 DEF step
  <2> DEFINE g == [i \in 1 .. n |-> f[i]]
  <2>5. IsFlat(g)
    <3>1. ASSUME NEW i \in 1 .. n PROVE g[i] = IF i = 1 THEN seqs[i] ELSE g[i - 1] \o seqs[i]
      <4>1. f[i] = f[i - 1] \o seqs[i] /\ g[i] = f[i]
        BY <2>4
      <4>2. CASE i = 1
        <5>1. f[i - 1] = <<>> /\ seqs[i] \in Seq(S)
          BY <1>1, <2>3, <4>2
        <5> QED  BY <4>1, <4>2, <5>1
      <4>3. CASE i # 1
        <5>1. i - 1 \in 1 .. n
          BY <1>1, <4>3
        <5> QED  BY <4>1, <4>3, <5>1
      <4> QED  BY <4>2, <4>3
    <3>2. g = [i \in 1 .. n |-> IF i = 1 THEN seqs[i] ELSE g[i - 1] \o seqs[i]]
      BY <3>1
    <3> QED  BY <3>2 DEF IsFlat
  <2>6. IsFlat(flat)
    BY <2>5 DEF flat
  <2>7. \A i \in 1 .. n : flat[i] = IF i = 1 THEN seqs[i] ELSE flat[i - 1] \o seqs[i]
    BY <2>6 DEF IsFlat
  <2> DEFINE T == {k \in 0 .. n : k # 0 => flat[k] \in Seq(S)}
  <2>8. 0 \in T
    BY <1>1
  <2>9. ASSUME NEW k \in 1 .. n, k - 1 \in T PROVE k \in T
    <3>1. CASE k = 1
      BY <1>1, <2>7, <3>1
    <3>2. CASE k # 1
      <4> DEFINE x == flat[k - 1]
                 y == seqs[k]
      <4>1. x \in Seq(S)
        BY <1>1, <2>9, <3>2
      <4>2. y \in Seq(S) /\ flat[k] = x \o y /\ k \in 0 .. n
        <5>1. flat[k] = IF k = 1 THEN seqs[k] ELSE flat[k - 1] \o seqs[k]
          BY <2>7
        <5> HIDE DEF T, flat, IsFlat, step, n
        <5>2. k \in 0 .. n
          BY <1>1
        <5>3. y \in Seq(S)
          BY <1>1
        <5>4. flat[k] = x \o y
          BY <3>2, <5>1
        <5> QED  BY <5>2, <5>3, <5>4
      <4> HIDE DEF x, y
      <4>3. x \o y \in Seq(S)
        BY <4>1, <4>2
      <4> QED  BY <4>2, <4>3
    <3> QED  BY <3>1, <3>2
  <2> HIDE DEF T
  <2>10. 0 .. n \subseteq T
    BY <1>1, <2>8, <2>9, UpTo
  <2>11. flat[n] \in Seq(S)
    BY <1>1, <1>3, <2>10 DEF T
  <2> QED  BY <2>1, <2>11
<1> QED  BY <1>2, <1>3

LEMMA EmitDeferredKeeps ==
  ASSUME VolumeOK, ReaderOK, EmitDeferred, UNCHANGED volume_vars
  PROVE  ReaderOK'
<1> DEFINE base(i) == pass.deferred[i]
           names(i) == base(i).names \o resolved[i].names
           mtime(i) == IF resolved[i].mtime = <<>> THEN base(i).mtime ELSE resolved[i].mtime
           size(i) == IF resolved[i].size = <<>> THEN base(i).size ELSE resolved[i].size
           one(i) == IF Preferred(names(i)) = <<>> THEN <<>>
                     ELSE <<Entry(base(i).frn, Preferred(names(i))[1], base(i).dir, mtime(i), size(i))>>
           emitted == [i \in DOMAIN resolved |-> one(i)]
           new == pass.entries \o FlattenSeq(emitted)
<1>1. /\ phase = "resolve" /\ todo = {} /\ phase' = "raw" /\ pass' = [pass EXCEPT !.entries = new]
      /\ geometry' = geometry /\ runs' = runs /\ place' = place /\ todo' = todo
      /\ resolved' = resolved /\ hidden' = hidden
  BY DEF EmitDeferred
<1>2. /\ pass \in PassState /\ runs \in Seq(Run) /\ Disjoint(runs) /\ (runs # <<>> => geometry \in Geometry)
      /\ PlaceOK /\ HiddenOK /\ ResolvedOK
  BY <1>1 DEF ReaderOK
<1>3. /\ resolved \in Seq(Resolved) /\ Len(resolved) = Len(pass.deferred)
      /\ \A i \in DOMAIN resolved : TrueFile(pass.deferred[i].frn, resolved[i].names, resolved[i].size)
      /\ pass.deferred \in Seq(Deferred)
  BY <1>1, <1>2 DEF ResolvedOK, PassState
<1>4. ASSUME NEW i \in DOMAIN resolved PROVE one(i) \in Seq(Emitted)
  <2> DEFINE old == base(i)
             found == resolved[i]
  <2>1. old \in Deferred /\ found \in Resolved /\ TrueFile(old.frn, found.names, found.size)
    BY <1>3
  <2>2. /\ old.frn \in Frn /\ old.dir \in BOOLEAN /\ old.names \in Seq(FileName)
        /\ old.mtime \in Seq(Nat) /\ old.size \in Seq(Nat) /\ TrueFile(old.frn, old.names, old.size)
        /\ found.names \in Seq(FileName) /\ found.size \in Seq(Nat) /\ found.mtime \in Seq(Nat)
    BY <2>1 DEF Deferred, Resolved
  <2>3. names(i) \in Seq(FileName) /\ mtime(i) \in Seq(Nat) /\ size(i) \in Seq(Nat)
    BY <2>2
  <2>4. TrueFile(old.frn, names(i), size(i))
    <3> DEFINE a == old.names
               b == found.names
    <3>1. names(i) = a \o b /\ a \in Seq(FileName) /\ b \in Seq(FileName)
      BY <2>2
    <3> HIDE DEF a, b
    <3>2. ASSUME NEW k \in DOMAIN (a \o b)
          PROVE  \/ \E l \in DOMAIN a : (a \o b)[k] = a[l]
                 \/ \E l \in DOMAIN b : (a \o b)[k] = b[l]
      <4>1. CASE k <= Len(a)
        <5>1. k \in DOMAIN a /\ (a \o b)[k] = a[k]
          BY <3>1, <3>2, <4>1
        <5> QED  BY <5>1
      <4>2. CASE ~(k <= Len(a))
        <5>1. k - Len(a) \in DOMAIN b /\ (a \o b)[k] = b[k - Len(a)]
          BY <3>1, <3>2, <4>2
        <5> QED  BY <5>1
      <4> QED  BY <4>1, <4>2
    <3>3. TrueFile(old.frn, a, old.size) /\ TrueFile(old.frn, b, found.size)
      BY <2>1, <2>2 DEF a, b
    <3>4. size(i) = old.size \/ size(i) = found.size
      OBVIOUS
    <3> DEFINE frn == old.frn
               d == names(i)
               s == size(i)
    <3>5. TrueFile(frn, a, old.size) /\ TrueFile(frn, b, found.size) /\ d = a \o b
          /\ (s = old.size \/ s = found.size)
      BY <3>1, <3>3, <3>4
    <3> HIDE DEF frn, d, s
    <3>6. \A k \in DOMAIN d : d[k].namespace # Dos => <<frn, d[k].parent, d[k].name>> \in ever.names
      BY <3>2, <3>5 DEF TrueFile
    <3>7. s # <<>> /\ Whole => <<frn, s[1]>> \in ever.sizes
      BY <3>5 DEF TrueFile
    <3>8. TrueFile(frn, d, s)
      BY <3>6, <3>7 DEF TrueFile
    <3> QED  BY <3>8 DEF frn, d, s
  <2>5. Preferred(names(i)) # <<>> => Entry(old.frn, Preferred(names(i))[1], old.dir, mtime(i), size(i)) \in Emitted
    <3> HIDE DEF old, names, mtime, size
    <3> QED  BY <2>2, <2>3, <2>4, EntryTrue
  <2> HIDE DEF names, mtime, size
  <2>6. CASE Preferred(names(i)) = <<>>
    BY <2>6
  <2>7. CASE Preferred(names(i)) # <<>>
    <3> DEFINE e == Entry(old.frn, Preferred(names(i))[1], old.dir, mtime(i), size(i))
    <3>1. one(i) = <<e>> /\ e \in Emitted
      BY <2>5, <2>7
    <3> HIDE DEF e, one
    <3> QED  BY <3>1
  <2> QED  BY <2>6, <2>7
<1> HIDE DEF one
<1>5. emitted \in Seq(Seq(Emitted))
  <2>1. emitted = [i \in 1 .. Len(resolved) |-> one(i)] /\ Len(resolved) \in Nat
    BY <1>3
  <2> QED  BY <1>4, <2>1, <1>3
<1> HIDE DEF emitted
<1>6. new \in Seq(Emitted)
  <2>1. FlattenSeq(emitted) \in Seq(Emitted) /\ pass.entries \in Seq(Emitted)
    BY <1>2, <1>5, FlattenTyped DEF PassState
  <2> QED  BY <2>1
<1> HIDE DEF new
<1>7. pass' \in PassState /\ pass'.torn = pass.torn /\ pass'.deferred = pass.deferred
  BY <1>1, <1>2, <1>6 DEF PassState
<1>8. PlaceOK' /\ HiddenOK' /\ pass' \in PassState'
  BY <1>1, <1>2, <1>7, VolumeStays DEF PlaceOK, HiddenOK
<1>9. ResolvedOK'
  BY <1>1, <1>3, <1>7, VolumeStays DEF ResolvedOK
<1> QED  BY <1>1, <1>2, <1>8, <1>9 DEF ReaderOK

-----------------------------------------------------------------------------
(* USN records. *)

LEMMA UsnEntryTrue ==
  ASSUME VolumeOK, NEW n \in BaseRecords, NEW name \in NamesOf(n)
  PROVE  UsnEntry(n, name) \in Emitted
<1>1. PICK x \in RecordsOf(n) : name \in ToSet(disk[x].names)
  BY DEF NamesOf
<1>2. n \in Numbers /\ x \in Numbers /\ RecordsOK(disk)
  BY DEF BaseRecords, RecordsOf, VolumeOK
<1>3. disk[x] \in FileRecord /\ disk[n] \in FileRecord /\ FrnOf(n) \in Frn
  BY <1>2, RecordTyped, NumbersNatural
<1>4. name \in FileName
  <2>1. disk[x].names \in Seq(FileName)
    BY <1>3 DEF FileRecord
  <2> QED  BY <1>1, <2>1 DEF ToSet
<1>5. <<FrnOf(n), name.parent, name.name>> \in ever.names
  BY DEF Facts, VolumeOK
<1>6. Default(disk[n].mtime, 0) \in Nat /\ disk[n].dir \in BOOLEAN
  <2>1. \A option \in Seq(Nat) : option # <<>> => option[1] \in Nat
    OBVIOUS
  <2>2. disk[n].mtime \in Seq(Nat) /\ disk[n].dir \in BOOLEAN
    BY <1>3 DEF FileRecord
  <2> QED  BY <2>1, <2>2 DEF Default
<1> QED  BY <1>3, <1>4, <1>5, <1>6 DEF UsnEntry, Emitted, FileName

LEMMA UsnBatchKeeps ==
  ASSUME VolumeOK, ReaderOK, UsnBatch
  PROVE  ReaderOK' /\ UNCHANGED volume_vars
<1> DEFINE Chosen(name) ==
             /\ \A n \in Batch : name[n] \in NamesOf(n)
             /\ pass' = [pass EXCEPT !.entries =
                  (CHOOSE f : f = [k \in 0 .. USN_BATCH |->
                     IF k = 0 THEN pass.entries
                     ELSE IF start_frn + k - 1 \in Batch
                          THEN Append(f[k - 1], UsnEntry(start_frn + k - 1, name[start_frn + k - 1]))
                          ELSE f[k - 1]])[USN_BATCH]]
<1>1. /\ phase = "demoted" /\ phase' = phase /\ geometry' = geometry /\ runs' = runs /\ place' = place
      /\ todo' = todo /\ resolved' = resolved /\ hidden' = hidden /\ UNCHANGED volume_vars
  BY DEF UsnBatch
<1>2. PICK name : Chosen(name)
  BY DEF UsnBatch
<1>3. /\ pass \in PassState /\ runs \in Seq(Run) /\ Disjoint(runs) /\ (runs # <<>> => geometry \in Geometry)
      /\ PlaceOK /\ HiddenOK /\ ResolvedOK /\ todo = {}
  BY <1>1 DEF ReaderOK
<1> DEFINE entry(k) == UsnEntry(start_frn + k - 1, name[start_frn + k - 1])
           More_(k, x) == IF start_frn + k - 1 \in Batch THEN Append(x, entry(k)) ELSE x
           step == [k \in 1 .. USN_BATCH |-> [x \in Seq(Emitted) |-> More_(k, x)]]
           IsAll(f) == f = [k \in 0 .. USN_BATCH |-> IF k = 0 THEN pass.entries ELSE More_(k, f[k - 1])]
           all == CHOOSE f : IsAll(f)
<1>4. pass' = [pass EXCEPT !.entries = all[USN_BATCH]]
  BY <1>2
<1>5. ASSUME NEW k \in 1 .. USN_BATCH, NEW x \in Seq(Emitted) PROVE More_(k, x) \in Seq(Emitted)
  <2> DEFINE n == start_frn + k - 1
  <2>1. CASE n \in Batch
    <3>1. n \in BaseRecords /\ name[n] \in NamesOf(n)
      BY <1>2, <2>1 DEF Batch
    <3> DEFINE e == entry(k)
    <3>2. e \in Emitted
      BY <3>1, UsnEntryTrue
    <3>3. More_(k, x) = Append(x, e)
      BY <2>1
    <3> HIDE DEF e, entry
    <3> QED  BY <3>2, <3>3
  <2>2. CASE n \notin Batch
    BY <2>2
  <2> QED  BY <2>1, <2>2
<1>6. pass.entries \in Seq(Emitted) /\ USN_BATCH \in Nat
  BY <1>3, BulkAssumption DEF PassState
<1> HIDE DEF Chosen, More_, step, IsAll, all
<1>7. PICK f : Follows(f, USN_BATCH, Seq(Emitted), pass.entries, step)
  <2>1. Steps(USN_BATCH, Seq(Emitted), pass.entries, step)
    BY <1>5, <1>6 DEF step, Steps
  <2> QED  BY <2>1, StepsExist
<1>8. IsAll(f)
  <2>1. ASSUME NEW k \in 1 .. USN_BATCH PROVE f[k] = More_(k, f[k - 1])
    <3>1. f[k] = step[k][f[k - 1]] /\ f[k - 1] \in Seq(Emitted)
      BY <1>6, <1>7 DEF Follows
    <3> QED  BY <3>1 DEF step
  <2>2. \A k \in 0 .. USN_BATCH : f[k] = IF k = 0 THEN pass.entries ELSE More_(k, f[k - 1])
    BY <1>6, <1>7, <2>1 DEF Follows
  <2> QED  BY <1>7, <2>2 DEF Follows, IsAll
<1>9. IsAll(all)
  BY <1>8 DEF all
<1>10. all[0] = pass.entries /\ \A k \in 1 .. USN_BATCH : all[k] = More_(k, all[k - 1])
  <2>1. 0 \in 0 .. USN_BATCH /\ \A k \in 1 .. USN_BATCH : k \in 0 .. USN_BATCH /\ k # 0
    BY <1>6
  <2> QED  BY <2>1, <1>9 DEF IsAll
<1> DEFINE T == {k \in 0 .. USN_BATCH : all[k] \in Seq(Emitted)}
<1>11. 0 \in T /\ \A k \in 1 .. USN_BATCH : k - 1 \in T => k \in T
  BY <1>5, <1>6, <1>10
<1> HIDE DEF T
<1>12. 0 .. USN_BATCH \subseteq T
  BY <1>6, <1>11, UpTo
<1>13. all[USN_BATCH] \in Seq(Emitted)
  BY <1>6, <1>12 DEF T
<1>14. pass' \in PassState /\ pass'.torn = pass.torn /\ pass'.deferred = pass.deferred
  BY <1>3, <1>4, <1>13 DEF PassState
<1>15. PlaceOK' /\ HiddenOK' /\ pass' \in PassState'
  BY <1>1, <1>3, <1>14, VolumeStays DEF PlaceOK, HiddenOK
<1>16. ResolvedOK'
  BY <1>1, <1>3, <1>14, VolumeStays DEF ResolvedOK
<1> QED  BY <1>1, <1>3, <1>15, <1>16 DEF ReaderOK

-----------------------------------------------------------------------------
(* Every step. *)

LEMMA FinishRawKeeps ==
  ASSUME ReaderOK, FinishRaw
  PROVE  ReaderOK' /\ UNCHANGED volume_vars
<1>1. UNCHANGED volume_vars /\ phase = "raw"
  BY DEF FinishRaw
<1>2. CASE Fail
  BY <1>1, <1>2, FailKeeps
<1>3. CASE ~Fail
  <2>1. phase' = "done" /\ UNCHANGED <<geometry, runs, place, pass, todo, resolved, hidden>>
    BY <1>3 DEF FinishRaw
  <2>2. PlaceOK' /\ HiddenOK' /\ ResolvedOK' /\ pass' \in PassState'
    BY <1>1, <2>1, VolumeStays DEF ReaderOK, PlaceOK, HiddenOK, ResolvedOK
  <2> QED  BY <1>1, <2>1, <2>2 DEF ReaderOK
<1> QED  BY <1>2, <1>3

LEMMA UsnStopKeeps ==
  ASSUME ReaderOK, UsnEnd \/ UsnFails
  PROVE  ReaderOK' /\ UNCHANGED volume_vars
<1>1. /\ phase = "demoted" /\ UNCHANGED volume_vars
      /\ UNCHANGED <<geometry, runs, place, todo, resolved, hidden>>
      /\ (pass' = pass /\ phase' = "done") \/ (pass' = NewPass /\ phase' = "failed")
  BY DEF UsnEnd, UsnFails
<1>2. CASE pass' = pass /\ phase' = "done"
  <2>1. PlaceOK' /\ HiddenOK' /\ ResolvedOK' /\ pass' \in PassState'
    BY <1>1, <1>2, VolumeStays DEF ReaderOK, PlaceOK, HiddenOK, ResolvedOK
  <2> QED  BY <1>1, <2>1 DEF ReaderOK
<1>3. CASE pass' = NewPass /\ phase' = "failed"
  <2>1. NewPass \in PassState' /\ NewPass.torn = 0
    BY <1>1, NothingRead, VolumeStays DEF NewPass
  <2>2. PlaceOK' /\ ResolvedOK'
    BY <1>1, <1>3 DEF ReaderOK, PlaceOK, ResolvedOK
  <2>3. HiddenOK'
    BY <1>1, <1>3, <2>1, FS_CardinalityType DEF ReaderOK, HiddenOK
  <2> QED  BY <1>1, <1>3, <2>1, <2>2, <2>3 DEF ReaderOK
<1> QED  BY <1>1, <1>2, <1>3

LEMMA VolumeChangeKeeps ==
  ASSUME VolumeOK, ReaderOK, VolumeChange
  PROVE  VolumeOK' /\ ReaderOK'
<1>1. /\ VolumeOK' /\ volume' = volume
      /\ ever.names \subseteq ever'.names /\ ever.sizes \subseteq ever'.sizes
      /\ UNCHANGED reader_vars
  BY ChangeKeeps DEF VolumeChange
<1>2. Whole' <=> Whole
  BY <1>1 DEF Whole
<1>3. \A frn, names, size : TrueFile(frn, names, size) => TrueFile(frn, names, size)'
  BY <1>1, <1>2 DEF TrueFile
<1>4. Emitted \subseteq Emitted' /\ Deferred \subseteq Deferred' /\ Extension \subseteq Extension'
  BY <1>1, <1>2, <1>3 DEF Emitted, Deferred, Extension
<1>5. PassState \subseteq PassState'
  <2>1. Seq(Emitted) \subseteq Seq(Emitted') /\ Seq(Deferred) \subseteq Seq(Deferred')
    BY <1>4
  <2>2. UNION {[D -> Extension] : D \in SUBSET Frn} \subseteq UNION {[D -> Extension'] : D \in SUBSET Frn}
    <3>1. \A D \in SUBSET Frn : [D -> Extension] \subseteq [D -> Extension']
      BY <1>4
    <3> QED  BY <3>1
  <2> QED  BY <2>1, <2>2 DEF PassState
<1>6. PlaceOK' /\ HiddenOK'
  BY <1>1 DEF ReaderOK, PlaceOK, HiddenOK, reader_vars, Passed, Start
<1>7. ResolvedOK'
  BY <1>1, <1>3 DEF ReaderOK, ResolvedOK, reader_vars
<1>8. pass' \in PassState'
  BY <1>1, <1>5 DEF ReaderOK, reader_vars
<1> QED  BY <1>1, <1>6, <1>7, <1>8 DEF ReaderOK, reader_vars

\* What comes with a phase, and which record a reference leads to.
LEMMA PhaseKeeps ==
  ASSUME PhaseOK, Next
  PROVE  PhaseOK'
<1> USE DEF PhaseOK, Phases
<1>1. CASE ReadRaw
  <2>1. Read /\ demoted' = (phase' = "demoted") /\ start_frn' = start_frn
    BY <1>1 DEF ReadRaw
  <2>2. phase' \in {"demoted", "pass", "resolve", "raw"}
    <3>1. ReadRuns => phase' \in {"demoted", "pass"}
      BY DEF ReadRuns, Fail
    <3>2. ReadChunk => phase' = "pass"
      BY DEF ReadChunk
    <3>3. NextRun => phase' \in {"demoted", "pass"}
      BY DEF NextRun, Fail
    <3>4. EndPass => phase' = "resolve"
      BY DEF EndPass
    <3>5. ResolveChild => phase' \in {"demoted", "resolve"}
      BY DEF ResolveChild, Fail
    <3>6. EmitDeferred => phase' = "raw"
      BY DEF EmitDeferred
    <3> QED  BY <2>1, <3>1, <3>2, <3>3, <3>4, <3>5, <3>6 DEF Read
  <2>3. demoted' \in BOOLEAN /\ (phase' \in {"demoted", "failed"} => demoted')
    BY <2>1, <2>2
  <2> QED  BY <2>1, <2>2, <2>3
<1>2. CASE FinishRaw
  BY <1>2 DEF FinishRaw, Fail
<1>3. CASE UsnBatch
  <2>1. start_frn' \in Nat
    BY <1>3, BulkAssumption DEF UsnBatch
  <2> QED  BY <1>3, <2>1 DEF UsnBatch
<1>4. CASE UsnEnd
  BY <1>4 DEF UsnEnd
<1>5. CASE UsnFails
  BY <1>5 DEF UsnFails
<1>6. CASE ReadError
  BY <1>6 DEF ReadError, ReadFails, Fail
<1>7. CASE VolumeChange
  BY <1>7 DEF VolumeChange, reader_vars
<1> QED  BY <1>1, <1>2, <1>3, <1>4, <1>5, <1>6, <1>7 DEF Next, bulk_index_volume

LEMMA BaseExistsKeeps ==
  ASSUME VolumeOK, BaseExists, Change
  PROVE  BaseExists'
<1>1. /\ disk \in [Numbers -> FileRecord] /\ NoFrn[2] \in Numbers /\ volume.busy \subseteq Numbers
      /\ \A n \in Numbers : FrnOf(n)[2] = n
  BY VolumesAssumption DEF VolumeOK, RecordsOK, NoFrn, FrnOf
<1>2. \A seq : Blank(seq).base = NoFrn
  BY DEF Blank
<1>3. ASSUME NEW n \in Numbers, Deleted(n) PROVE BaseExists'
  <2>1. disk' = [x \in Numbers |-> IF x \in RecordsOf(n) THEN Blank(disk[x].seq + 1) ELSE disk[x]]
    BY <1>3 DEF Deleted
  <2>2. DOMAIN disk' = Numbers /\ \A x \in Numbers : disk'[x].base \in {disk[x].base, NoFrn}
    BY <1>2, <2>1
  <2> QED  BY <1>1, <2>2 DEF BaseExists, Number, Numbers
<1>4. ASSUME NEW n, NEW parent, NEW name, Renamed(n, parent, name) PROVE BaseExists'
  <2>1. PICK x \in RecordsOf(n) :
          /\ disk[x].names # <<>>
          /\ disk' = [disk EXCEPT ![x].names[1] = [@ EXCEPT !.parent = FrnOf(parent), !.name = name]]
    BY <1>4, Zenon DEF Renamed
  <2>2. DOMAIN disk' = Numbers /\ \A y \in Numbers : disk'[y].base = disk[y].base
    BY <1>1, <2>1 DEF FileRecord, Numbers
  <2> QED  BY <2>2 DEF BaseExists, Numbers
<1>5. ASSUME NEW free, NEW parent, NEW name, Created(free, parent, name) PROVE BaseExists'
  <2> DEFINE new == NewFile(disk[free].seq, <<[parent |-> FrnOf(parent), namespace |-> 3, name |-> name]>>)
  <2>1. disk' = [disk EXCEPT ![free] = new] /\ new.base = NoFrn
    BY <1>5 DEF Created, NewFile, Blank
  <2> HIDE DEF new
  <2>2. DOMAIN disk' = Numbers /\ \A y \in Numbers : disk'[y].base \in {disk[y].base, NoFrn}
    BY <2>1 DEF Numbers
  <2> QED  BY <1>1, <2>2 DEF BaseExists, Number, Numbers
<1>6. ASSUME NEW n \in Numbers, NEW free, NEW names_too, Spilled(n, free, names_too) PROVE BaseExists'
  <2>1. PICK extension, base :
          /\ disk' = [disk EXCEPT ![free] = extension, ![n] = base]
          /\ extension.base = FrnOf(n) /\ base.base = disk[n].base
    <3> DEFINE extension == [Blank(disk[free].seq) EXCEPT
                               !.in_use = TRUE, !.base = FrnOf(n), !.data = disk[n].data,
                               !.names = IF names_too THEN disk[n].names ELSE <<>>]
               rest == [disk[n] EXCEPT !.data = <<>>, !.names = IF names_too THEN <<>> ELSE @]
               base == [rest EXCEPT !.list = "resident",
                          !.entries = Listed(rest, FrnOf(n)) \o Listed(extension, FrnOf(free))]
    <3>1. disk' = [disk EXCEPT ![free] = extension, ![n] = base]
      BY <1>6 DEF Spilled
    <3>2. extension.base = FrnOf(n)
      BY DEF Blank
    <3>3. base.base = disk[n].base
      BY <1>1 DEF FileRecord
    <3> HIDE DEF extension, base
    <3> QED  BY <3>1, <3>2, <3>3
  <2>2. DOMAIN disk' = Numbers /\ \A y \in Numbers : disk'[y].base \in {disk[y].base, FrnOf(n)}
    BY <1>1, <2>1 DEF Numbers
  <2> QED  BY <1>1, <2>2 DEF BaseExists, Number, Numbers
<1> QED  BY <1>1, <1>3, <1>4, <1>5, <1>6 DEF Change, BaseRecords

LEMMA Initially ==
  ASSUME Init
  PROVE  IInv
<1>1. VolumeOK
  BY VolumeStarts DEF Init
<1>2. BaseExists
  BY VolumesAssumption DEF Init, VolumeInit, BaseExists, Numbers
<1>3. /\ phase = "boot" /\ runs = <<>> /\ pass = NewPass /\ todo = {} /\ resolved = <<>> /\ hidden = {}
      /\ place = [run |-> 1, run_position |-> 0, stream_position |-> 0] /\ start_frn = 0 /\ demoted = FALSE
  BY DEF Init, ReaderInit
<1>4. NewPass \in PassState /\ <<>> \in Seq(Run) /\ Disjoint(<<>>)
  BY NothingRead
<1>5. PlaceOK
  BY <1>3 DEF PlaceOK
<1>6. HiddenOK
  BY <1>3, FS_EmptySet DEF HiddenOK, NewPass
<1>7. ResolvedOK
  BY <1>3 DEF ResolvedOK
<1>8. PhaseOK
  BY <1>3 DEF PhaseOK, Phases
<1> QED  BY <1>1, <1>2, <1>3, <1>4, <1>5, <1>6, <1>7, <1>8 DEF IInv, ReaderOK

LEMMA Inductive ==
  ASSUME IInv, [Next]_vars
  PROVE  IInv'
<1>1. VolumeOK /\ BaseExists /\ ReaderOK /\ PhaseOK
  BY DEF IInv
<1>2. CASE UNCHANGED vars
  <2>1. UNCHANGED volume_vars /\ UNCHANGED reader_vars /\ start_frn' = start_frn /\ demoted' = demoted
    BY <1>2 DEF vars
  <2>2. VolumeOK' /\ BaseExists'
    BY <1>1, <2>1, VolumeStays DEF BaseExists, Numbers, volume_vars
  <2>3. PlaceOK' /\ HiddenOK' /\ ResolvedOK' /\ pass' \in PassState'
    <3>1. /\ phase' = phase /\ geometry' = geometry /\ runs' = runs /\ place' = place /\ pass' = pass
          /\ todo' = todo /\ resolved' = resolved /\ hidden' = hidden /\ UNCHANGED volume_vars
      BY <2>1 DEF reader_vars
    <3>2. PlaceOK' /\ HiddenOK' /\ pass' \in PassState'
      BY <1>1, <3>1, VolumeStays DEF ReaderOK, PlaceOK, HiddenOK, Passed, Start, volume_vars
    <3>3. ResolvedOK'
      BY <1>1, <3>1, VolumeStays DEF ReaderOK, ResolvedOK
    <3> QED  BY <3>2, <3>3
  <2> QED  BY <1>1, <2>1, <2>2, <2>3 DEF IInv, ReaderOK, PhaseOK, reader_vars
<1>3. CASE VolumeChange
  <2>1. VolumeOK' /\ ReaderOK' /\ PhaseOK'
    BY <1>1, <1>3, VolumeChangeKeeps, PhaseKeeps DEF Next
  <2>2. BaseExists'
    BY <1>1, <1>3, BaseExistsKeeps DEF VolumeChange
  <2> QED  BY <2>1, <2>2 DEF IInv
<1>4. ASSUME Next, ~VolumeChange PROVE IInv'
  <2>1. ReaderOK' /\ UNCHANGED volume_vars
    <3>1. CASE ReadRaw
      <4>1. Read /\ UNCHANGED volume_vars
        BY <3>1 DEF ReadRaw
      <4> QED  BY <1>1, <4>1, ReadRunsKeeps, ReadChunkKeeps, NextRunKeeps, EndPassKeeps,
                  ResolveChildKeeps, EmitDeferredKeeps DEF Read
    <3>2. CASE FinishRaw
      BY <1>1, <3>2, FinishRawKeeps
    <3>3. CASE UsnBatch
      BY <1>1, <3>3, UsnBatchKeeps
    <3>4. CASE UsnEnd \/ UsnFails
      BY <1>1, <3>4, UsnStopKeeps
    <3>5. CASE ReadError
      BY <3>5, FailKeeps DEF ReadError, ReadFails
    <3> QED  BY <1>4, <3>1, <3>2, <3>3, <3>4, <3>5 DEF Next, bulk_index_volume
  <2>2. VolumeOK' /\ BaseExists'
    BY <1>1, <2>1, VolumeStays DEF BaseExists, Numbers, volume_vars
  <2> QED  BY <1>1, <1>4, <2>1, <2>2, PhaseKeeps DEF IInv
<1> QED  BY <1>2, <1>3, <1>4

LEMMA InvariantTyped ==
  ASSUME IInv
  PROVE  TypeOK
<1>1. VolumeOK /\ BaseExists /\ ReaderOK /\ PhaseOK /\ PlaceOK /\ HiddenOK /\ ResolvedOK
  BY DEF IInv, ReaderOK
<1>2. \A n \in Numbers : disk[n].seq \in Nat /\ disk[n].base[2] \in Numbers
  BY <1>1 DEF VolumeOK, RecordsOK, FileRecord, BaseExists, Number
<1>3. place.run \in DOMAIN runs => place.run_position \in 0 .. RunBytes(runs[place.run], geometry)
  <2> SUFFICES ASSUME place.run \in DOMAIN runs
               PROVE  place.run_position \in 0 .. RunBytes(runs[place.run], geometry)
    OBVIOUS
  <2>1. runs[place.run] \in Run /\ geometry \in Geometry
    BY <1>1 DEF ReaderOK
  <2>2. RunBytes(runs[place.run], geometry) \in Size_
    BY <2>1, RunBytesPositive
  <2> QED  BY <1>1, <2>2 DEF PlaceOK, Size_
<1>4. pass.torn \in 0 .. Cardinality(hidden)
  <2>1. pass.torn \in Nat /\ Cardinality(hidden) \in Nat
    BY <1>1, FS_CardinalityType DEF ReaderOK, PassState, HiddenOK
  <2> QED  BY <1>1, <2>1 DEF HiddenOK
<1>5. Len(resolved) \in {0, Len(pass.deferred)}
  BY <1>1 DEF ResolvedOK, PhaseOK, Phases
<1> QED  BY <1>1, <1>2, <1>3, <1>4, <1>5 DEF TypeOK, VolumeOK, Numbers, PlaceOK, ReaderOK, PhaseOK

LEMMA InvariantTrue ==
  ASSUME IInv
  PROVE  EmittedWasTrue
<1>1. entries \in Seq(Emitted)
  BY DEF IInv, ReaderOK, PassState, entries
<1>2. \A i \in DOMAIN entries : entries[i] \in Emitted
  BY <1>1
<1> QED  BY <1>2 DEF Emitted, EmittedWasTrue

\* However the volume is laid out and whatever is done to it meanwhile, the
\* pass stays within the runs, every torn record that is counted was another
\* file's, references are only left while they are resolved, and each record's
\* base is a record of the volume. (enumerate_mft_raw, resolve_deferred,
\* build_usn_index.)
THEOREM TypeCorrect == Spec => []TypeOK
<1>1. Init => IInv
  BY Initially
<1>2. IInv /\ [Next]_vars => IInv'
  BY Inductive
<1>3. IInv => TypeOK
  BY InvariantTyped
<1> QED  BY <1>1, <1>2, <1>3, PTL DEF Spec

\* Whatever changes while the volume is read, an entry that is emitted has a
\* name and a parent that its own file had at some time, and if its size is
\* said to be exact, that too was the file's: an extension record that has
\* become another file's is never taken for it. (parse_and_emit,
\* resolve_deferred's checks, enumerate_mft_usn.)
THEOREM OnlyTruth == Spec => []EmittedWasTrue
<1>1. Init => IInv
  BY Initially
<1>2. IInv /\ [Next]_vars => IInv'
  BY Inductive
<1>3. IInv => EmittedWasTrue
  BY InvariantTrue
<1> QED  BY <1>1, <1>2, <1>3, PTL DEF Spec

=============================================================================
