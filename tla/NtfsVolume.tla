---------------------------- MODULE NtfsVolume ----------------------------
(***************************************************************************)
(* An NTFS volume that is in use while its MFT is read. A file is a base   *)
(* record and any number of extension records, between which its           *)
(* attributes are spread; a file reference (FRN) is a sequence number and  *)
(* a record number. Record 0 is the MFT itself, record 1 stands for the    *)
(* root directory. External to the source: what its readers may meet.      *)
(***************************************************************************)
EXTENDS RunList, FiniteSets

\* Each volume: what its boot sector and the run list of its MFT say (boot,
\* run_bytes), what is true of it (geometry, runs, offsets: where each record
\* lies), its records (disk), which of them may change, how often, and the
\* names they may get (busy, changes, names), and how many records may be
\* caught half written (torn).
CONSTANT Volumes

Frn == Nat \X Nat
NoFrn == <<0, 0>>
Number(frn) == frn[2]

Byte == 0 .. 255

FileName == [parent : Frn, namespace : 0 .. 3, name : Seq(Byte)]

FileRecord ==
  [file : BOOLEAN, seq : Nat \ {0}, in_use : BOOLEAN, dir : BOOLEAN, base : Frn, mtime : Seq(Nat),
   list : {"none", "resident", "nonresident"}, entries : Seq([type : {"info", "name", "data"}, reference : Frn]),
   names : Seq(FileName), data : Seq([size : Nat, first : BOOLEAN])]

\* Every extension record in use is that of a base record in use.
HaveBases(records) ==
  \A x \in DOMAIN records : records[x].in_use /\ records[x].base # NoFrn =>
    \E n \in DOMAIN records :
      records[x].base = <<records[n].seq, n>> /\ records[n].in_use /\ records[n].base = NoFrn

\* No two runs have a cluster in common.
Disjoint(list) ==
  \A i, j \in DOMAIN list : i = j \/ Sparse \in {list[i].lcn, list[j].lcn}
    \/ list[i].lcn + list[i].cluster_count <= list[j].lcn
    \/ list[j].lcn + list[j].cluster_count <= list[i].lcn

ASSUME VolumesAssumption ==
  \A v \in Volumes :
    /\ DOMAIN v.disk \subseteq Nat /\ IsFiniteSet(DOMAIN v.disk) /\ 0 \in DOMAIN v.disk
    /\ v.disk \in [DOMAIN v.disk -> FileRecord] /\ HaveBases(v.disk)
    /\ \A n \in DOMAIN v.disk : Number(v.disk[n].base) \in DOMAIN v.disk
    /\ v.busy \subseteq DOMAIN v.disk /\ v.names \subseteq Seq(Byte)
    /\ v.changes \in Nat /\ v.torn \in Nat
    /\ v.physical_sector \in Nat \ {0} /\ v.stream_size \in Nat
    /\ v.boot \in [ntfs : BOOLEAN, bytes_per_sector : Nat, sectors_per_cluster : Byte,
                   record_scale : Byte, mft_start_lcn : Nat]
    /\ v.run_bytes \in Seq(Byte)
    /\ decode_runs(v.run_bytes) # Invalid => Disjoint(decode_runs(v.run_bytes)[1])

VARIABLES
  volume,   \* the one that is indexed
  disk,     \* the record under each number
  changes,  \* changes so far
  ever,     \* history: the names and sizes files have had
  touched   \* history: files changed, created or deleted

volume_vars == <<volume, disk, changes, ever, touched>>

FrnOf(number) == <<disk[number].seq, number>>

Numbers == DOMAIN disk
Dos == 2
IsWin32(name) == name.namespace \in {1, 3}

BaseRecords == {n \in Numbers : disk[n].in_use /\ disk[n].base = NoFrn}
RecordsOf(n) == {n} \cup {x \in Numbers : disk[x].in_use /\ disk[x].base = FrnOf(n)}
Directories == {n \in BaseRecords : disk[n].dir}
Root == 1

\* The names a user sees, a short DOS name not among them.
NamesOf(n) == {name \in UNION {ToSet(disk[x].names) : x \in RecordsOf(n)} : name.namespace # Dos}

\* A file's size is in the first extent of its data, when it has any.
SizesOf(n) == {data.size : data \in {d \in UNION {ToSet(disk[x].data) : x \in RecordsOf(n)} : d.first}}

MtimesOf(n) == UNION {ToSet(disk[x].mtime) : x \in RecordsOf(n)}

\* The records on the way from a file up to the root, by its first name.
Upwards(n) ==
  LET above[x \in Numbers] ==
        IF x = Root THEN {Root}
        ELSE {x} \cup above[Number((CHOOSE name \in NamesOf(x) : TRUE).parent)]
  IN  above[n]

Facts ==
  [names |-> UNION {{<<FrnOf(n), name.parent, name.name>> : name \in NamesOf(n)} : n \in BaseRecords},
   sizes |-> UNION {{<<FrnOf(n), size>> : size \in SizesOf(n)} : n \in BaseRecords}]

-----------------------------------------------------------------------------

Blank(seq) ==
  [file |-> TRUE, seq |-> seq, in_use |-> FALSE, dir |-> FALSE, base |-> NoFrn, mtime |-> <<>>,
   list |-> "none", entries |-> <<>>, names |-> <<>>, data |-> <<>>]

NewFile(seq, names) ==
  [Blank(seq) EXCEPT !.in_use = TRUE, !.mtime = <<1>>, !.names = names,
                     !.data = <<[size |-> 2000, first |-> TRUE]>>]

\* What an attribute list says of one record.
Listed(record, frn) ==
  LET Of(attributes, type) == [i \in DOMAIN attributes |-> [type |-> type, reference |-> frn]]
  IN  Of(record.mtime, "info") \o Of(record.names, "name") \o Of(record.data, "data")

\* Only an empty directory is deleted, and none is moved beneath itself.
Deleted(n) ==
  /\ \A x \in BaseRecords \ {n} : \A name \in NamesOf(x) : name.parent # FrnOf(n)
  /\ disk' = [x \in Numbers |-> IF x \in RecordsOf(n) THEN Blank(disk[x].seq + 1) ELSE disk[x]]

\* Renamed or moved, in whichever record the name is.
Renamed(n, parent, name) ==
  \E x \in RecordsOf(n) :
    /\ disk[x].names # <<>> /\ n \notin Upwards(parent)
    /\ disk' = [disk EXCEPT ![x].names[1] = [@ EXCEPT !.parent = FrnOf(parent), !.name = name]]

\* The base record gets too small: data, and names if need be, move to another.
Spilled(n, free, names_too) ==
  /\ disk[n].list = "none" /\ disk[n].data # <<>> /\ ~disk[free].in_use
  /\ LET extension == [Blank(disk[free].seq) EXCEPT
                         !.in_use = TRUE, !.base = FrnOf(n), !.data = disk[n].data,
                         !.names = IF names_too THEN disk[n].names ELSE <<>>]
         rest == [disk[n] EXCEPT !.data = <<>>, !.names = IF names_too THEN <<>> ELSE @]
     IN  disk' = [disk EXCEPT
           ![free] = extension,
           ![n] = [rest EXCEPT !.list = "resident",
                     !.entries = Listed(rest, FrnOf(n)) \o Listed(extension, FrnOf(free))]]

Created(free, parent, name) ==
  /\ ~disk[free].in_use
  /\ disk' = [disk EXCEPT ![free] =
       NewFile(@.seq, <<[parent |-> FrnOf(parent), namespace |-> 3, name |-> name]>>)]

\* One file changes.
Change ==
  /\ changes < volume.changes
  /\ \E n \in volume.busy :
       /\ \/ n \in BaseRecords /\ Deleted(n)
          \/ \E parent \in Directories, name \in volume.names :
               \/ n \in BaseRecords /\ Renamed(n, parent, name)
               \/ Created(n, parent, name)
          \/ \E free \in volume.busy, names_too \in BOOLEAN :
               n \in BaseRecords /\ Spilled(n, free, names_too)
       /\ touched' = touched \cup {FrnOf(n)}
  /\ changes' = changes + 1
  /\ ever' = [names |-> ever.names \cup Facts'.names, sizes |-> ever.sizes \cup Facts'.sizes]
  /\ UNCHANGED volume

\* The records that a read at a place of the disk finds: at most one.
Found(offset) ==
  {n \in Numbers : disk[n].file /\ volume.offsets[n] = Ok(offset)}

VolumeInit ==
  /\ volume \in Volumes /\ disk = volume.disk /\ changes = 0 /\ touched = {}
  /\ ever = Facts
=============================================================================
