------------------------------ MODULE RunList ------------------------------
(***************************************************************************)
(* The arithmetic of an NTFS volume: the sizes in its boot sector, the run *)
(* list of the MFT, and where a record of the MFT lies. Bytes are numbers  *)
(* below 256, positions in a sequence of bytes start at 1. What the code   *)
(* returns as Err is Invalid, what it returns as Ok or Some a sequence of  *)
(* one.                                                                    *)
(***************************************************************************)
EXTENDS Integers, Sequences, SequencesExt

Invalid == <<>>
Ok(value) == <<value>>
Sparse == -1

signed_byte(byte) == IF byte < 128 THEN byte ELSE byte - 256

-----------------------------------------------------------------------------
(* The boot sector: a positive scale counts units, a negative one is the    *)
(* logarithm of a size in bytes.                                           *)

PowerOf2(n) ==
  LET power[k \in 0 .. n] == IF k = 0 THEN 1 ELSE 2 * power[k - 1] IN power[n]

scaled_size(encoded, unit) ==
  LET scale == signed_byte(encoded) IN
  IF scale = 0 \/ scale <= -32 THEN Invalid ELSE Ok(IF scale < 0 THEN PowerOf2(-scale) ELSE unit * scale)

IsSize(bytes) == bytes \in {512, 1024, 2048, 4096}

\* The physical sector is asked for later.
parse_boot_sector(boot) ==
  LET cluster == scaled_size(boot.sectors_per_cluster, boot.bytes_per_sector)
      record  == IF cluster = Invalid THEN Invalid ELSE scaled_size(boot.record_scale, cluster[1]) IN
  IF ~boot.ntfs \/ ~IsSize(boot.bytes_per_sector) \/ record = Invalid THEN Invalid
  ELSE IF ~IsSize(record[1]) THEN Invalid
  ELSE Ok([bytes_per_sector |-> boot.bytes_per_sector, cluster_size |-> cluster[1],
           file_record_size |-> record[1], mft_start_lcn |-> boot.mft_start_lcn,
           physical_sector_size |-> 4096])

-----------------------------------------------------------------------------
(* Run lists. *)

unsigned_le(bytes) ==
  LET value[k \in 0 .. Len(bytes)] ==
        IF k = 0 THEN 0 ELSE bytes[Len(bytes) - k + 1] + 256 * value[k - 1]
  IN  value[Len(bytes)]

\* Two's complement.
signed_le(bytes) ==
  unsigned_le(bytes)
    - (IF bytes[Len(bytes)] >= 128 THEN unsigned_le([i \in DOMAIN bytes |-> 255]) + 1 ELSE 0)

\* One turn of the loop. A run's first cluster is given relative to the one
\* before it that has one.
ReadRun(bytes, list) ==
  LET header      == bytes[list.at]
      length_size == header % 16
      offset_size == header \div 16
      length_end  == list.at + length_size
      end         == length_end + offset_size
      count       == unsigned_le(SubSeq(bytes, list.at + 1, length_end))
      lcn         == IF offset_size = 0 THEN list.previous
                     ELSE list.previous + signed_le(SubSeq(bytes, length_end + 1, end))
      run         == [lcn |-> IF offset_size = 0 THEN Sparse ELSE lcn, cluster_count |-> count]
  IN  IF list.status # "reading" THEN list
      ELSE IF list.at > Len(bytes) THEN [list EXCEPT !.status = "invalid"]
      ELSE IF header = 0 THEN [list EXCEPT !.status = "ended"]
      ELSE IF length_size \notin 1 .. 8 \/ offset_size > 8 \/ end > Len(bytes)
      THEN [list EXCEPT !.status = "invalid"]
      ELSE IF count = 0 \/ lcn < 0 THEN [list EXCEPT !.status = "invalid"]
      ELSE [status |-> "reading", at |-> end + 1, previous |-> lcn, runs |-> Append(list.runs, run)]

\* No turn but the last leaves the position where it is.
decode_runs(bytes) ==
  LET lists[k \in 0 .. Len(bytes) + 1] ==
        IF k = 0 THEN [status |-> "reading", at |-> 1, previous |-> 0, runs |-> <<>>]
        ELSE CHOOSE next \in {ReadRun(bytes, list) : list \in {lists[k - 1]}} : TRUE
      list == lists[Len(bytes) + 1]
  IN  IF list.status = "ended" THEN Ok(list.runs) ELSE Invalid

RunBytes(run, geometry) == run.cluster_count * geometry.cluster_size

\* The logical position at which a run starts.
RunStart(runs, j, geometry) ==
  FoldSeq(LAMBDA run, sum : sum + RunBytes(run, geometry), 0, SubSeq(runs, 1, j - 1))

record_disk_offset(number, geometry, runs) ==
  LET logical == number * geometry.file_record_size
      Within(j) == logical - RunStart(runs, j, geometry)
      Run == {j \in DOMAIN runs : Within(j) \in 0 .. RunBytes(runs[j], geometry) - 1} IN
  IF \E j \in Run : /\ Within(j) + geometry.file_record_size <= RunBytes(runs[j], geometry)
                    /\ runs[j].lcn # Sparse
  THEN LET j == CHOOSE j \in Run : TRUE
       IN  Ok(runs[j].lcn * geometry.cluster_size + Within(j))
  ELSE Invalid
=============================================================================
