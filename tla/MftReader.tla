----------------------------- MODULE MftReader -----------------------------
(***************************************************************************)
(* The raw MFT reader: one pass over the runs of the MFT in chunks, then   *)
(* the extension records that the pass has not met, each by a read of its  *)
(* own. The volume changes between any two reads.                          *)
(***************************************************************************)
EXTENDS NtfsVolume

CONSTANT BUFFER   \* bytes read at once (4 MiB in the code)

ASSUME BufferAssumption == BUFFER \in Nat \ {0}

VARIABLES
  phase,     \* "boot", "pass", "resolve", "raw" when it has ended
  geometry,  \* what the boot sector and record zero say
  runs,
  place,     \* how far the pass has come
  pass,      \* PassState, and what the sink was given
  todo,      \* references still to be resolved
  resolved,  \* what was found for each deferred record
  hidden     \* history: files whose base record was torn

reader_vars == <<phase, geometry, runs, place, pass, todo, resolved, hidden>>

NewPass == [torn |-> 0, deferred |-> <<>>, extensions |-> <<>>, entries |-> <<>>]

ReaderInit ==
  /\ phase = "boot" /\ geometry = <<>> /\ runs = <<>> /\ pass = NewPass
  /\ place = [run |-> 1, run_position |-> 0, stream_position |-> 0]
  /\ todo = {} /\ resolved = <<>> /\ hidden = {}

\* An error ends the enumeration, and with it all that it has read.
Fail ==
  /\ phase' = "demoted" /\ pass' = NewPass /\ todo' = {} /\ resolved' = <<>> /\ runs' = <<>>
  /\ geometry' = <<>> /\ place' = [run |-> 1, run_position |-> 0, stream_position |-> 0]
  /\ hidden' = {}

\* read_volume_boot, and mft_runs from the record that should be the MFT's own.
ReadRuns ==
  /\ phase = "boot"
  /\ LET boot == parse_boot_sector(volume.boot)
         at   == Found(boot[1].mft_start_lcn * boot[1].cluster_size)
         list == decode_runs(volume.run_bytes)
     IN  IF boot = Invalid \/ at = {} \/ list = Invalid THEN Fail
         ELSE /\ phase' = "pass" /\ runs' = list[1]
              /\ geometry' = [boot[1] EXCEPT !.physical_sector_size = volume.physical_sector]
              /\ UNCHANGED <<place, pass, todo, resolved, hidden>>

-----------------------------------------------------------------------------
(* What a record says. *)

Default(option, value) == IF option = <<>> THEN value ELSE option[1]

data_size(data) == IF data.first THEN data.size ELSE 0

\* Of several, the last.
Size(record) == IF record.data = <<>> THEN <<>> ELSE <<data_size(Last(record.data))>>

\* The name that is taken: a Win32 one before a POSIX one, a DOS one never.
Preferred(names) ==
  LET Of(namespaces) == {i \in DOMAIN names : names[i].namespace \in namespaces}
      best == IF Of({1, 3}) # {} THEN Of({1, 3}) ELSE Of({0})
  IN  IF best = {} THEN <<>> ELSE <<names[CHOOSE i \in best : \A j \in best : i <= j]>>

\* Mutant: a size that is not there is known to be none.
Entry_Known(frn, name, dir, mtime, size) ==
  [frn |-> frn, parent |-> name.parent, name |-> name.name, dir |-> dir,
   mtime |-> Default(mtime, 0), size |-> Default(size, 0), exact |-> TRUE]

Entry(frn, name, dir, mtime, size) ==
  [frn |-> frn, parent |-> name.parent, name |-> name.name, dir |-> dir,
   mtime |-> Default(mtime, 0), size |-> Default(size, 0), exact |-> size # <<>>]

\* Where the list puts what the record itself lacks.
ChildReferences(number, record) ==
  {entry.reference : entry \in {e \in ToSet(record.entries) :
     /\ Number(e.reference) # number
     /\ \/ e.type = "name" /\ Preferred(record.names) = <<>>
        \/ e.type = "data" /\ record.data = <<>>
        \/ e.type = "info" /\ record.mtime = <<>>}}

parse_extension(record) ==
  [base |-> record.base, names |-> record.names,
   size |-> Size(record), mtime |-> record.mtime]

Remember(state, n) ==
  [state EXCEPT !.extensions =
     [r \in DOMAIN state.extensions \cup {FrnOf(n)} |->
        IF r = FrnOf(n) THEN parse_extension(disk[n]) ELSE state.extensions[r]]]

\* ParsedRecord::parse: there may be no FILE record, and the fixups of one
\* that is half written do not match.
Parsed(at, torn) == IF at = {} THEN "none" ELSE IF torn THEN "torn" ELSE "record"

\* Mutant: a record with a list is not deferred when it has a name.
parse_and_emit_NamedAtOnce(state, number, at, torn) ==
  LET n        == CHOOSE n \in at : TRUE
      record   == disk[n]
      names    == Preferred(record.names)
      parsed   == Parsed(at, torn)
  IN  IF parsed = "none" THEN state
      ELSE IF parsed = "torn" THEN [state EXCEPT !.torn = @ + 1]
      ELSE IF ~record.in_use \/ n # number THEN state
      ELSE IF record.base # NoFrn THEN Remember(state, n)
      ELSE IF names = <<>> THEN state
      ELSE [state EXCEPT !.entries =
              Append(@, Entry(FrnOf(n), names[1], record.dir, record.mtime, Size(record)))]

\* A slot of the MFT that holds no FILE record, or another's, is passed over.
parse_and_emit(state, number, at, torn) ==
  LET n        == CHOOSE n \in at : TRUE
      record   == disk[n]
      names    == Preferred(record.names)
      children == ChildReferences(number, record)
      parsed   == Parsed(at, torn)
  IN  IF parsed = "none" THEN state
      ELSE IF parsed = "torn" THEN [state EXCEPT !.torn = @ + 1]
      ELSE IF ~record.in_use \/ n # number THEN state
      ELSE IF record.base # NoFrn THEN Remember(state, n)
      ELSE IF record.list # "none" /\ (children # {} \/ names = <<>>)
      THEN [state EXCEPT !.deferred = Append(@,
              [frn |-> FrnOf(n), children |-> children, names |-> record.names, dir |-> record.dir,
               mtime |-> record.mtime, size |-> Size(record)])]
      ELSE IF names = <<>> THEN state
      ELSE [state EXCEPT !.entries =
              Append(@, Entry(FrnOf(n), names[1], record.dir, record.mtime, Size(record)))]

-----------------------------------------------------------------------------
(* The pass. *)

Lesser(a, b) == IF a < b THEN a ELSE b

More ==
  /\ place.run_position < RunBytes(runs[place.run], geometry)
  /\ place.stream_position < volume.stream_size

\* Mutant: the last sector is read whole, whether the run has it or not.
Aligned_Up ==
  LET wanted == Lesser(RunBytes(runs[place.run], geometry) - place.run_position, BUFFER)
      sector == geometry.physical_sector_size
  IN  ((wanted + sector - 1) \div sector) * sector

\* Whole physical sectors only: none, when what is left of a run is less.
Aligned ==
  LET wanted == Lesser(RunBytes(runs[place.run], geometry) - place.run_position, BUFFER)
  IN  wanted - (wanted % geometry.physical_sector_size)

Slots == Lesser(volume.stream_size - place.stream_position, Aligned) \div geometry.file_record_size

SlotAt(k) == Found(runs[place.run].lcn * geometry.cluster_size + place.run_position
                     + k * geometry.file_record_size)

\* At most one record of a chunk is caught half written.
ReadChunk ==
  /\ phase = "pass" /\ place.run \in DOMAIN runs /\ runs[place.run].lcn # Sparse
  /\ More /\ Aligned > 0
  /\ \E torn \in {{}} \cup {{k} : k \in {k \in 0 .. Slots - 1 : SlotAt(k) # {}}} :
       LET first == place.stream_position \div geometry.file_record_size
           after[k \in 0 .. Slots] ==
             IF k = 0 THEN pass
             ELSE parse_and_emit(after[k - 1], first + k - 1, SlotAt(k - 1), k - 1 \in torn)
       IN  /\ torn # {} => Cardinality(hidden) < volume.torn
           /\ pass' = after[Slots]
           /\ hidden' = hidden \cup UNION {{FrnOf(n) : n \in SlotAt(k)} : k \in torn}
  /\ place' = [place EXCEPT !.run_position = @ + Aligned, !.stream_position = @ + Aligned]
  /\ UNCHANGED <<phase, geometry, runs, todo, resolved>>

\* Mutant: the loop goes on until the run is read to its end.
NextRun_NoBreak ==
  /\ phase = "pass" /\ place.run \in DOMAIN runs /\ runs[place.run].lcn # Sparse /\ ~More
  /\ place' = [place EXCEPT !.run = @ + 1, !.run_position = 0]
  /\ UNCHANGED <<phase, geometry, runs, pass, todo, resolved, hidden>>

NextRun ==
  /\ phase = "pass" /\ place.run \in DOMAIN runs
  /\ IF runs[place.run].lcn = Sparse THEN Fail
     ELSE /\ ~More \/ Aligned = 0
          /\ place' = [place EXCEPT !.run = @ + 1, !.run_position = 0]
          /\ UNCHANGED <<phase, geometry, runs, pass, todo, resolved, hidden>>

EndPass ==
  /\ phase = "pass" /\ place.run \notin DOMAIN runs /\ phase' = "resolve"
  /\ todo' = UNION {base.children : base \in ToSet(pass.deferred)}
  /\ resolved' = [i \in DOMAIN pass.deferred |-> [names |-> <<>>, size |-> <<>>, mtime |-> <<>>]]
  /\ UNCHANGED <<geometry, runs, place, pass, hidden>>

-----------------------------------------------------------------------------
(* resolve_deferred *)

\* A B-tree's first key: by record number, then by the whole reference.
FirstOf(references) ==
  CHOOSE r \in references : \A q \in references :
    Number(r) < Number(q) \/ (Number(r) = Number(q) /\ r[1] <= q[1])

\* Whoever refers to an extension takes what it holds, if it is still theirs.
Resolve(reference, extension) ==
  resolved' = [i \in DOMAIN resolved |->
    IF reference \notin pass.deferred[i].children \/ extension.base # pass.deferred[i].frn
    THEN resolved[i]
    ELSE [names |-> resolved[i].names \o extension.names,
          size  |-> IF extension.size = <<>> THEN resolved[i].size ELSE extension.size,
          mtime |-> IF extension.mtime = <<>> THEN resolved[i].mtime ELSE extension.mtime]]

\* A record that is no longer the extension referred to is skipped; one that
\* is half written ends the enumeration.
ResolveChild ==
  /\ phase = "resolve" /\ todo # {}
  /\ LET reference == FirstOf(todo)
         offset    == record_disk_offset(Number(reference), geometry, runs)
         at        == Found(offset[1])
         n         == CHOOSE n \in at : TRUE
         Done      == todo' = todo \ {reference} /\ UNCHANGED <<phase, geometry, runs, place, pass, hidden>>
     IN  IF reference \in DOMAIN pass.extensions
         THEN Resolve(reference, pass.extensions[reference]) /\ Done
         ELSE IF offset = Invalid THEN Fail
         ELSE \E torn \in BOOLEAN :
           LET parsed == Parsed(at, torn) IN
           /\ torn => volume.torn > 0
           /\ IF parsed = "torn" THEN Fail
              ELSE IF parsed = "none" \/ ~disk[n].in_use \/ disk[n].base = NoFrn \/ FrnOf(n) # reference
              THEN UNCHANGED resolved /\ Done
              ELSE Resolve(reference, parse_extension(disk[n])) /\ Done

\* The deferred records are emitted, with their own names before those found.
EmitDeferred ==
  /\ phase = "resolve" /\ todo = {} /\ phase' = "raw"
  /\ LET Emitted(i) ==
           LET base  == pass.deferred[i]
               names == Preferred(base.names \o resolved[i].names)
           IN  IF names = <<>> THEN <<>>
               ELSE <<Entry(base.frn, names[1], base.dir,
                            IF resolved[i].mtime = <<>> THEN base.mtime ELSE resolved[i].mtime,
                            IF resolved[i].size = <<>> THEN base.size ELSE resolved[i].size)>>
     IN  pass' = [pass EXCEPT !.entries = @ \o FlattenSeq([i \in DOMAIN resolved |-> Emitted(i)])]
  /\ UNCHANGED <<geometry, runs, place, todo, resolved, hidden>>

\* Any read may fail.
ReadFails == phase \in {"boot", "pass", "resolve"} /\ Fail

Read == ReadRuns \/ ReadChunk \/ NextRun \/ EndPass \/ ResolveChild \/ EmitDeferred
=============================================================================
