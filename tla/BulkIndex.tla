----------------------------- MODULE BulkIndex -----------------------------
(***************************************************************************)
(* Indexing a volume in bulk: the raw MFT reader, the enumeration of its   *)
(* USN records when that fails or has torn too many records, and the       *)
(* assembly of what either emits into an arena. The volume stays in use.   *)
(***************************************************************************)
EXTENDS MftReader, ArenaColumns

CONSTANTS
  TORN_SHARE,   \* one record in so many may be torn (100 in the code)
  USN_BATCH,    \* record numbers that one call's buffer covers (1 MiB of records)
  VolumeName    \* what the root is called

ASSUME BulkAssumption == TORN_SHARE \in Nat \ {0} /\ USN_BATCH \in Nat \ {0}

VARIABLES
  start_frn,    \* where the enumeration of USN records goes on
  demoted       \* history: the index is made of USN records

vars == <<volume_vars, reader_vars, start_frn, demoted>>

Init ==
  /\ VolumeInit /\ ReaderInit
  /\ start_frn = 0 /\ demoted = FALSE

entries == pass.entries

-----------------------------------------------------------------------------
(* Assembly *)

\* A file lies beneath the entry that has its parent's FRN. One without such
\* an entry, and one that is its own parent, lie beneath the volume's root,
\* which is pushed last.
ParentIndex(emitted, i) ==
  LET named == {j \in DOMAIN emitted \ {i} : emitted[j].frn = emitted[i].parent}
  IN  IF named = {} THEN Len(emitted) + 1 ELSE CHOOSE j \in named : TRUE

\* IndexAssembly: push for every entry, then finish.
Assembled(emitted) ==
  Append([i \in DOMAIN emitted |->
            [name |-> emitted[i].name, mtime |-> emitted[i].mtime, dir |-> emitted[i].dir,
             frn |-> emitted[i].frn, size |-> emitted[i].size, exact |-> emitted[i].exact,
             parent |-> ParentIndex(emitted, i)]],
         [name |-> VolumeName, mtime |-> 0, dir |-> TRUE, frn |-> NoFrn, size |-> 0, exact |-> TRUE,
          parent |-> PARENT_NONE])

\* What the build returns.
Arena == build(Assembled(entries))

-----------------------------------------------------------------------------
(* build_raw_index, build_usn_index *)

FinishRaw ==
  /\ phase = "raw"
  /\ IF pass.torn > Len(entries) \div TORN_SHARE
     THEN Fail /\ demoted' = TRUE
     ELSE phase' = "done" /\ UNCHANGED <<geometry, runs, place, pass, todo, resolved, hidden, demoted>>
  /\ UNCHANGED <<volume_vars, start_frn>>

\* A USN record carries one of a file's names, and neither size nor links.
UsnEntry(n, name) ==
  [frn |-> FrnOf(n), parent |-> name.parent, name |-> name.name, dir |-> disk[n].dir,
   mtime |-> Default(disk[n].mtime, 0), size |-> 0, exact |-> FALSE]

Batch == {n \in BaseRecords : n \in start_frn .. start_frn + USN_BATCH - 1 /\ NamesOf(n) # {}}

UsnBatch ==
  /\ phase = "demoted" /\ start_frn \in Numbers
  /\ \E name \in [Batch -> UNION {NamesOf(n) : n \in Batch}] :
       /\ \A n \in Batch : name[n] \in NamesOf(n)
       /\ LET emitted[k \in 0 .. USN_BATCH] ==
                IF k = 0 THEN pass.entries
                ELSE LET n == start_frn + k - 1 IN
                     IF n \in Batch THEN Append(emitted[k - 1], UsnEntry(n, name[n])) ELSE emitted[k - 1]
          IN  pass' = [pass EXCEPT !.entries = emitted[USN_BATCH]]
  /\ start_frn' = start_frn + USN_BATCH
  /\ UNCHANGED <<volume_vars, phase, geometry, runs, place, todo, resolved, hidden, demoted>>

\* The end of the MFT ends the enumeration, any other error the build.
UsnEnd ==
  /\ phase = "demoted" /\ start_frn \notin Numbers
  /\ phase' = "done"
  /\ UNCHANGED <<volume_vars, geometry, runs, place, pass, todo, resolved, hidden, start_frn, demoted>>

UsnFails ==
  /\ phase = "demoted" /\ phase' = "failed"
  /\ pass' = NewPass /\ start_frn' = 0
  /\ UNCHANGED <<volume_vars, geometry, runs, place, todo, resolved, hidden, demoted>>

ReadRaw ==
  /\ Read /\ demoted' = (phase' = "demoted")
  /\ UNCHANGED <<volume_vars, start_frn>>

ReadError ==
  /\ ReadFails /\ demoted' = TRUE
  /\ UNCHANGED <<volume_vars, start_frn>>

bulk_index_volume == ReadRaw \/ FinishRaw \/ UsnBatch \/ UsnEnd

VolumeChange ==
  /\ phase \notin {"done", "failed"} /\ Change
  /\ UNCHANGED <<reader_vars, start_frn, demoted>>

Next == bulk_index_volume \/ ReadError \/ UsnFails \/ VolumeChange

\* The indexing thread goes on. Nothing says that a read fails, or that the
\* volume changes.
Spec == Init /\ [][Next]_vars /\ WF_vars(bulk_index_volume)

-----------------------------------------------------------------------------
(* Properties *)

Phases == {"boot", "pass", "resolve", "raw", "demoted", "done", "failed"}

\* Types, and what goes with each phase: the pass stays within the runs,
\* references are only left while they are resolved.
TypeOK ==
  /\ DOMAIN disk = DOMAIN volume.disk /\ phase \in Phases /\ demoted \in BOOLEAN
  /\ \A n \in Numbers : disk[n].seq \in Nat /\ disk[n].base[2] \in Numbers
  /\ place.run \in 1 .. Len(runs) + 1
  /\ place.run \in DOMAIN runs => place.run_position \in 0 .. RunBytes(runs[place.run], geometry)
  /\ (todo # {} => phase = "resolve")
  /\ pass.torn \in 0 .. Cardinality(hidden) /\ start_frn \in Nat
  /\ Len(resolved) \in {0, Len(pass.deferred)}
  /\ phase \in {"demoted", "failed"} => demoted

\* What the pass can follow: runs that are whole numbers of records and of
\* physical sectors, all of them in record zero's own list.
Regular ==
  /\ ~volume.continued
  /\ \A j \in DOMAIN volume.runs :
       LET bytes == RunBytes(volume.runs[j], volume.geometry) IN
       bytes % volume.geometry.file_record_size = 0 /\ bytes % volume.physical_sector = 0

\* Files whose attributes the reader can put together: with a list it can
\* read where there is one, and with data that are in one piece.
Readable(n) ==
  /\ disk[n].list # "nonresident"
  /\ \A x \in RecordsOf(n) : \A data \in ToSet(disk[x].data) : data.first
Whole == \A n \in DOMAIN volume.disk : \A data \in ToSet(volume.disk[n].data) : data.first
Unchanged == {n \in BaseRecords : FrnOf(n) \notin touched \cup hidden /\ NamesOf(n) # {} /\ Readable(n)}

EntriesOf(n) == {i \in DOMAIN entries : entries[i].frn = FrnOf(n)}

\* A file that nothing happened to while the volume was read is in the index
\* once, under the name a user sees, wherever its attributes lie; read raw,
\* with its size if it has any and its time, else with no size it claims to
\* know. (enumerate_mft_raw, resolve_deferred, enumerate_mft_usn.)
UnchangedExact ==
  (demoted \/ Regular) =>
    \A n \in Unchanged :
      /\ Cardinality(EntriesOf(n)) = 1
      /\ LET entry == entries[CHOOSE i \in EntriesOf(n) : TRUE]
             names == {name \in NamesOf(n) : name.parent = entry.parent /\ name.name = entry.name}
         IN  /\ names # {} /\ entry.dir = disk[n].dir
             /\ demoted => ~entry.exact
             /\ ~demoted =>
                  /\ (\E name \in NamesOf(n) : IsWin32(name)) => \E name \in names : IsWin32(name)
                  /\ entry.exact <=> SizesOf(n) # {}
                  /\ entry.exact => entry.size \in SizesOf(n)
                  /\ MtimesOf(n) # {} => entry.mtime \in MtimesOf(n)

\* An index of the raw reader lacks no more than its share of the files: more
\* torn records than that, and it is thrown away. (build_raw_index.)
LossBounded ==
  ~demoted /\ Regular =>
    Cardinality({n \in BaseRecords : FrnOf(n) \notin touched /\ Readable(n) /\ NamesOf(n) # {}
                                       /\ EntriesOf(n) = {}})
      <= Len(entries) \div TORN_SHARE

\* Both: nothing that stays as it is gets lost, but for a share of the files.
IndexComplete == phase = "done" => UnchangedExact /\ LossBounded

\* Whatever changes meanwhile, an entry's name and parent are ones that its
\* file had at some time, and so is a size that is said to be exact: never
\* another file's, of which a record now is. (resolve_deferred's checks.)
EmittedWasTrue ==
  \A i \in DOMAIN entries :
    /\ <<entries[i].frn, entries[i].parent, entries[i].name>> \in ever.names
    /\ entries[i].exact /\ Whole => <<entries[i].frn, entries[i].size>> \in ever.sizes

-----------------------------------------------------------------------------

RecordOf(arena, frn) == CHOOSE k \in DOMAIN arena.frns : arena.frns[k] = frn

TruePath(n) ==
  LET path[x \in Numbers] ==
        LET name == CHOOSE name \in NamesOf(x) : TRUE
        IN  IF x = Root THEN <<VolumeName>> ELSE Append(path[Number(name.parent)], name.name)
  IN  path[n]

\* A tree is what its intervals say: beneath whom a position lies.
PathIn(arena, k) ==
  LET above == SelectSeq(arena.dfs.records, LAMBDA j : arena.dfs.positions[k] \in Subtree(arena.dfs, j))
  IN  SelectSeq([i \in DOMAIN above |-> name_into(arena, above[i])], LAMBDA name : name # DOT)

\* An arena built while directories were moved may have cycles among its
\* parents. Still every record is in the tree once, its path is made of the
\* records whose intervals hold it, and an unchanged file beneath unchanged
\* directories has the path it has on the volume. (IndexAssembly::finish,
\* ArenaBuilder::build, dfs::build, full_path_into.)
PathsExact ==
  phase = "done" => \A arena \in {Arena} :
    /\ IsInjective(arena.dfs.records) /\ ToSet(arena.dfs.records) = 1 .. arena.count
    /\ \A k \in 1 .. arena.count : full_path(arena, k) = PathIn(arena, k)
    /\ (demoted \/ Regular) =>
         \A n \in Unchanged :
           (Upwards(n) \subseteq {x \in Unchanged : Cardinality(NamesOf(x)) = 1}) =>
             full_path(arena, RecordOf(arena, FrnOf(n))) = TruePath(n)

\* The bulk build ends, however the MFT is laid out: with an index, or with
\* the error that the USN enumeration ended with. (The pass's inner loop,
\* which advances by whole sectors.)
Ends == <>(phase \in {"done", "failed"})
=============================================================================
