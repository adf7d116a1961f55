# Scry: verification of the live index and its connections

Scry indexes the names of all files of NTFS volumes. A daemon (`scryd`)
enumerates each volume once, then follows the volume's change journal, and
answers searches over a named pipe or by sharing its index with the client.
This directory holds TLA+ models of the parts of it where order, failure and
staleness matter, their model-checking configurations and machine-checked
proofs. Paths below are relative to the repository.

## 1. Inventory

| Component | Source | State | Operations | What makes it correct |
|---|---|---|---|---|
| Journal watcher | `scry-fsevents/src/windows/journal.rs` | read position, overflow flag | open at a cursor, read, send each record and the position, fail | every record read reaches the worker, or the overflow flag does |
| Volume worker | `scry-daemon/src/updates.rs`, `changes.rs` | batch, schedule, published view | receive, drain, take overflow, apply, compact, rebuild, idle persist | what the view's cursor claims is in the view |
| Build, resume, compact | `scry-daemon/src/persistence.rs`, `scry-core/src/store.rs`, `frnmap.rs` | snapshot and sidecar files | enumerate and save, resume by replay, rewrite | whatever crashes, a restart misses nothing |
| Delta overlay | `scry-core/src/delta.rs`, `view.rs` | tombstones, additions, FRN table | create, delete, rename; paths | one live record per file, under its true path |
| Compaction merge | `scry-core/src/view/compaction.rs` | none | merge base and delta, patch parents, merge FRNs | same records, same paths |
| Bulk indexing | `scry-fsevents/src/windows/indexing.rs`, `scry-core/src/arena/builder.rs` | the entries so far | read raw, fall back to USN records, assemble, sort | what nobody touches meanwhile is indexed exactly; whatever else it misses is in the journal after the cursor |
| Daemon life cycle | `scry-daemon/src/main.rs`, `shutdown.rs` | list of volumes | start, first build, shutdown handler | shutdown leaves a resumable snapshot |
| RPC server | `scry-daemon/src/rpc.rs`, `scry-ipc/src/lib.rs` | per connection: cancellation generation, refinement cache | read, cancel, answer; peek | one answer per request; only superseded requests are cancelled |
| Client library | `scry-client/src` | replies owed, local mapping | send, receive latest, handshake, fall back | the result shown is the last query's |
| Shared sections | `scry-daemon/src/sections.rs`, `scry-ipc/src/section.rs` | cache of two generations | look up, map, evict | a client never searches a base with another's overlay |
| Refinement cache | `scry-daemon/src/search.rs` | candidates per volume | filter or rescan | filtering equals rescanning |
| Search algorithms | `scry-core/src/query.rs`, `view/path_search.rs`, `view/ranked.rs`, `intervals.rs`, `rank.rs`, `terms.rs` | none | prefix, substring, path terms, top k | equal to a naive scan |
| Arena layout | `scry-core/src/arena*`, `dfs*`, `bitvec.rs`, `trigram.rs`, `spool.rs` | none | encode, decode, search, navigate; two builders | decoding inverts encoding, and both builders write the same columns |
| Raw MFT reader | `scry-fsevents/src/mft` | the place in the runs, deferred and extension records, torn records | boot sector, run list, pass, resolution of attributes that lie elsewhere | each file once, under its own name and size, however its attributes are spread |
| CLI, updater, benchmarks, throttle | `scry-cli`, `scripts`, `scry-bench`, `scry-fsevents/src/throttle.rs` | — | — | — |

How they interact: the watcher thread of a volume sends `ChangeEvent`s through
a bounded channel (16384 slots) with `try_send`; the worker thread takes them,
and publishes views by swapping one atomic pointer; request
threads load that pointer. The shutdown handler runs on a thread of its own,
persists the published views and publishes what it reopened. Snapshot and FRN sidecar are two files, written
one after the other and each renamed into place; a tag in both pairs them.

What is hard about it: the channel may be full or its content stale (from
before a rebuild); an enumeration is not a snapshot of the volume: while the MFT is
read, records are freed, used again, split and caught half written; the
journal's records age out and the journal may be replaced; the process may die
between any two file operations, of which two threads may be writing the same
files; whether an unsaved view is ever saved hangs on three dates; compaction computes record numbers in two
different ways that have to agree; a query has half a dozen ways to be answered,
by name order, trigram blocks, tree intervals, candidate checks, worker shards or
what the last query left, and they all have to find the same.

## 2. Modules

| Module | Models | Composes |
|---|---|---|
| `VisibleIndex` | abstract: what is once shown stays shown | |
| `VolumeFeed` | watcher, channel, worker, snapshot files, crashes and restarts of one volume; content is the set of changes it covers | implements `VisibleIndex` |
| `SnapshotFiles` | the files of one volume, written step by step by the worker and the shutdown handler | |
| `IdlePersist` | `IdlePersistSchedule` and the worker's waits, with a clock | |
| `DeltaOverlay` | `Delta::apply` on base records, path reconstruction | |
| `Compaction` | `ArenaBuilder::build`, `compact_to_snapshot` | extends `DeltaOverlay` |
| `LiveIndex` | one volume's tree, its journal, and the worker's batches, rebuilds, compactions, restarts on real records | extends `Compaction` |
| `Connection` | one client, its pipe, and the daemon's two threads for it | |
| `SharedIndex` | one volume's views, the section cache, clients that search a mapping, restarts of the daemon | |
| `TreeLayout` | `dfs::build`, the tree of its intervals, recursive and exact sizes | |
| `Intervals` | `IntervalSet` | |
| `Ranking` | sort keys, the bounded heap, the shards of a scan | |
| `Search` | the ranked search and the search by path terms of one view | extends `DeltaOverlay`, `TreeLayout`, `Intervals`, `Ranking` |
| `RefinementCache` | one connection's searches over several volumes, its cache, the views published meanwhile | extends `Search` |
| `RunList` | sizes in the boot sector, run lists, the place of a record | |
| `NtfsVolume` | external: an MFT in use, its records, what may happen to them | extends `RunList` |
| `MftReader` | `read_volume_boot` to `resolve_deferred` | extends `NtfsVolume` |
| `NameColumn` | front coding, the walks over names, searches by bucket, the trigram index | extends `TreeLayout` |
| `Patterns` | wildcards, the literals a pattern requires, the scan of the blocks that have them | extends `NameColumn` |
| `ArenaColumns` | `ArenaBuilder::build`, `SpooledArenaBuilder`, the file-backed tree order, exact sizes, full paths | extends `NameColumn` |
| `BulkIndex` | `bulk_index_volume`: raw reader, fallback, USN enumeration, assembly, on a volume in use | extends `MftReader`, `ArenaColumns` |
| `IndexColumns` | what the columns of an index owe the searches in it | extends `BulkIndex`, `Patterns` |
| `MCVolumeFeed`, `MCLiveIndex`, `MCSharedIndex`, `MCRefinementCache`, `MCBulkIndex` | values of constants for TLC | |
| `VolumeFeedProofs` | type correctness, the shape of channel and journal, the coverage invariants, and that the feed implements `VisibleIndex` | extends `VolumeFeed` |
| `ConnectionProofs` | framing, latest-wins and cancellation | extends `Connection` |
| `IdlePersistProofs` | the dates of the schedule | extends `IdlePersist` |
| `SharedIndexProofs` | what a generation names, and how old a mapping may be | extends `SharedIndex` |
| `SnapshotFilesProofs` | the files two writers leave under a volume's names | extends `SnapshotFiles` |
| `LiveIndexProofs` | the two layers of a view, and what enumeration and compaction make; what a view shows of each file, against the volume's past; the walks that spell paths, in the view, the volume and a compacted base | extends `LiveIndex` |
| `BulkIndexProofs` | where the pass through an MFT reads, and whose attributes it emits | extends `BulkIndex` |
| `RefinementCacheProofs` | sorting and the heap, the tree order, interval sets, each search of a view, and what the cache keeps | extends `RefinementCache` |

The two concrete models split the system along one line. `VolumeFeed` knows in
which order things happen and takes applying a change for granted; `LiveIndex`
applies changes to records and takes from `VolumeFeed` that an applied batch is
a consecutive run of the journal. Both take a snapshot and a build for single
steps: `SnapshotFiles` opens up the first, `BulkIndex` the second, and
`IdlePersist` says when the first is taken.

### VolumeFeed and the code

A change is a pair of journal identity and USN. `journal` is NTFS's;
`watching`, `cursor`, `startUsn`, `readUsn` are the locals of `watch`; `chan` and
`overflowed` are the channel and `JournalHandle::overflowed`; `pc`, `batch`,
`replayNext` are `reindex_on_changes` and, before it runs, `build_or_resume_view`
(`pc` is "boot", then "rebuild"); `built` is the cursor `build_view` captured;
`next` is the view `compact_view` is given; `view` the published `IndexView`;
`disk` the snapshot and the state of its sidecar: "whole", "missing" (no file, or
a tag that does not match) or "partial" (matching, with FRNs lacking).

| Code | Action |
|---|---|
| `watch`: open and validate; read; each `try_send`; `Advanced`; error | `WatchStart`, `WatchRead`, `WatchSend`, `WatchAdvance`, `WatchFails` |
| `recv_timeout` and `collect_change`; 500 ms of silence | `Receive`, `DrainTimeout` |
| `take_overflow` and the empty-batch test | `TakeOverflow` |
| the apply loop, publishing, the 5% test; a change that cannot be applied | `ApplyBatch`, `NeedsFullReindex` |
| 30 s of silence with a persist due | `IdlePersist` |
| `compact_view` up to the snapshot's rename; sidecar, reopen, publish; an error | `CompactSnapshot`, `CompactSidecar`, `CompactFails` |
| `build_view`: cursor; enumeration and snapshot; sidecar and publish; an error | `BuildCursor`, `BuildSnapshot`, `BuildPublish`, `BuildFails` |
| `resume_view` succeeds; or `build_view` is called instead | `Resume`, `ResumeRefused` |
| `handle_console_ctrl`; death of the process | `Shutdown`, `Crash` |

`gap` is a history variable of the known ways in which the code loses a
change: "rebuild failed" (section 5), "partial sidecar" (section 5), "journal
replaced" (positions of the old journal arrive after a rebuild under the new
one) and "no cursor" (`journal_cursor(..).ok()` gave None, so the watcher starts
from the journal's end). Properties that hold but for these say so; a
successful rebuild clears the set, except that a journal replaced under a
running watcher stays replaced for it.

### LiveIndex and the code

`tree` and `journal` are NTFS's. `base` holds the sorted records and the
FRN sidecar, `delta` is `Delta` field by field, with record indices from 1. A
name is a number, its rank in the case-insensitive order. The volume's record
and the root directory's own entry ("." in the MFT, skipped in paths) are one
record here, `Root`. `Seen` is a fuzzy enumeration: each file as it was at some
moment since the cursor was captured. `ApplyBatch` applies a run of events to
the view; `BuildCursor` drops one, for whatever reason, and starts a rebuild;
`BuildPublish` leaves queued events older than the new base queued; `Compact` is
`compact_view` in all its uses; `Restart` resumes by replay or starts a rebuild.

Two history variables name known weaknesses: `orphans`, files whose record hangs
under the wrong directory because the enumeration did not meet theirs or because
it was renamed in the delta; `defects`, compactions with equal names and
compactions of a view that had taken in stale events, whose position hides the
newer ones from a later replay. A rebuild clears both.

### SnapshotFiles and the code

A file is what stands under one of four names: `path` and `frn`, the snapshot and its
sidecar, and the two temporary names. It has a tag and a body; a body is an image,
the changes its records hold and the position they claim. `writer` is the program
counter of each thread and what it has open. Files stay with who has them open or mapped
when their names move (`Follow`).

Nothing in the code keeps the two threads apart, and nothing in the model does. What there
is comes from the files. `scratch` is each thread's hold on the spools, whose names are
fixed: a spool is first opened, with truncation, which the system refuses while
the other has it mapped and allows while the other only has it open; then it is given its
length and mapped; the one of the names is unmapped and mapped again when it grows
(a refusal there is an `expect`, and the release build aborts on a panic); and
dropping a spool removes whatever has its name, after which who still has it holds a file
nobody else can open ("apart"). The spool of the names is a variable of its own; the six
of the columns, which follow one by one and never grow, are opened and mapped as one. The
temporary files can be created, and truncated, by both at any time, and `Rename` takes whatever has the
temporary name by then, half written or the other's, or fails if the other has renamed it already.

`clash` remembers that both have written one file: a `File::create` of a temporary file the
other has open; a spool opened or resized while the other has it unmapped to let it grow,
which costs the other what it held; or two compactions past their merge. The
last is more than the code makes certain. Such two have shared a spool, or each have one that is
apart, and may or may not meet again in the spools of the layout, which the model leaves out.
After a clash the model goes on with every step of both threads, which
files there are, who has which, and whether each can be opened, but no longer follows what they
hold: a body written then is `Unknown` or unreadable, freely chosen.

| Code | Action |
|---|---|
| `reindex_on_changes`: a batch, and what it asks for; 30 s of silence | `Take`; `IdlePersist` |
| `handle_console_ctrl`: its call; `persist_idle_view`; the end of the process | `Call`; `Load`; `Exit` |
| `SpooledArenaBuilder::new`: `open`, `set_len` and `map_mut` of each spool; the merge; `ByteSpool::reserve` | `OpenSpool`, `MapSpool`; `Merge`; `Regrow` |
| `compact_to_snapshot` and `save_with_sidecar`: `File::create`, body, rename, twice; `ArenaStore::open`; `store.store` | `CreateSnapshot`, `WriteBody`, `RenameSnapshot`, `CreateSidecar`, `RenameSidecar`; `Open`; `Publish` |
| an error anywhere, which may or may not come; death of the process | `Fail`; `Crash` |
| `build_or_resume_view` | `Resume`, `FirstBuild` |

`lost` remembers that a rebuild failed, or that a thread published a view older than
the one it replaced: `store.store` replaces whatever is there by then.

### IdlePersist and the code

An instant is the time passed since it, in units of which `POLL_INTERVAL` says how many
are 30 s; `Unset` is `None`. `view` says whether the published view has changes in its
delta and whether its position moved. The operators named as the methods of
`IdlePersistSchedule` are those methods; every path through one turn of
`reindex_on_changes` is one of `Nothing`, `Publish`, `Rewrite` (messages came), `Poll`
(none came for 30 s) and `Disconnect` (the watcher is gone, and the worker returns for good,
which `ended` says until the daemon is started again). `HandlerPersists` is
`persist_idle_view` of the shutdown handler, which does not touch the schedule.

### BulkIndex, MftReader and the code

A record is what its attributes say: sequence number, flags, base reference, times,
names with their namespaces, data extents, attribute list. Bytes are kept where the code
computes with them: the boot sector's scales, run lists, chunks and sectors, offsets.

| Code | Action |
|---|---|
| `read_volume_boot`, `mft_runs` | `ReadRuns` |
| `enumerate_mft_raw`: one turn of the inner loop; its end, for each run; the end of the pass | `ReadChunk`; `NextRun`; `EndPass` |
| `resolve_deferred`: one reference; the emission | `ResolveChild`; `EmitDeferred` |
| any error of the raw reader | `ReadError` (and `Fail` where the code finds one) |
| `build_raw_index`: the share of torn records, `IndexAssembly::finish` | `FinishRaw` |
| `enumerate_mft_usn`: one call, the end of the MFT, an error | `UsnBatch`, `UsnEnd`, `UsnFails` |

`VolumeChange` is the volume's: between any two steps a file is deleted (its records get
new sequence numbers), renamed, moved, created in a free record, or has its data or names
moved to another record. `ever` remembers each name and size a file has had, `touched`
which files changed. `torn` bounds how many records a read finds half written.

### NameColumn, Patterns, ArenaColumns and the code

Operators without state, as in `Search`, but here names are sequences of bytes, since
what is checked is their coding. `Push` is `FrontCoder::push`, `Walk` stands for the
loops of `for_each_name` and its variants over buckets, `ScanName` for one turn of
`prefix_range`. A pattern is the tree that `regex_syntax` parses it to (external, like
matching itself); `required_literals` is `analyze`, with the conjunctive form as sets
and no clauses for `None`. A bitmap is the set of its positions, with samples every
`SUPERBLOCK_BITS`. `build` sorts and lays out; `BuildSpooled` is given sorted records
with the parents' old numbers and patches them, and walks the tree with the table of
children and the stack of frames of `dfs::file_backed`. `BuildersAgree` compares them.

### Connection and the code

A request is a number in the order written, a reply carries the number it
answers. `pending` is `Client::pending_interactive`; `requests` and `replies` are the
two directions of the pipe. `thread`, `req`, `reply` and `stop` are
`handle_connection`'s loop and locals; `observation` is the mutex of
`ConnectionCancellation`, and `moved` says whether its generation differs from the
one `begin_request` took, all that `Cancellation` looks at. `peeker` and `seen` are
the peeking thread. The client's calls are split where they wait:

| Code | Action |
|---|---|
| `send_interactive`; one turn of `try_recv_interactive`, its end | `Submit`; `Poll`, `PollNothing` |
| `recv_interactive`: start, each frame | `Wait`, `WaitRead` |
| `query_ordered`, `stats`: write, read | `Query`, `QueryRead` |
| the handshake of `search_local`: write, failed write, read | `Share`, `ShareFails`, `ShareRead` |
| `reconnect_for_rpc_fallback`, the search after it | `Reconnect`, `Requery` |
| a read on a dropped pipe; dropping the client | `ReadFails`; `Disconnect` |
| `read_frame`, `begin_request`, `handle_request`, `write_frame` | `ReadFrame`, `BeginRequest`, `HandleRequest`, `WriteFrame` |
| the end of the loop, `peeker.join` | `HangUp`, `Join` |
| `observe_pending`: lock, peek, publish; the flag | `PeekerLock`, `Peek`, `PeekerPublish`, `PeekerStops` |
| the process ends, is started again | `DaemonExits`, `DaemonStarts` |

A search that finds the generation moved answers with nothing, but it may have
made its last check before: `Outcomes` allows both. The history variable `mixed`
remembers that a call that waits for exactly one frame was made with interactive
replies owed; the library does not prevent this (only `SearchSession::stats`
checks), and from then on a frame may answer another call than the one that
reads it. The framing properties exempt it. The old connection of a client that
reconnects is not followed further: its threads see the same as after
`Disconnect`.

### SharedIndex and the code

A base is a number. A view is known by its daemon (`epoch`), the generation it
took from `fresh_generation`, its base, and how many changes of the volume base
and overlay together reflect (`seen`). `cache` is `SharedSectionCache`; `client`,
`conn`, `local`, `inWindow` are a client's control, its pipe, `LocalVolume` and
whether `last_handshake` is within `SNAPSHOT_WINDOW`; `snapshot` and `answer`
belong to its thread in the daemon. `floor` is a history variable: what was
published, and by which daemon, when the client asked for what it searches.

| Code | Action |
|---|---|
| the worker's three ways to publish | `PublishDelta`, `PublishBase` |
| the process ends and is started: resume, or build | `Restart` |
| `search_local`: handshake; answer; error; `reconnect_for_rpc_fallback`; 250 ms pass | `Ask`, `Take`, `TakeFails`, `Reconnect`, `WindowEnds` |
| `ShareIndex`: `load_full` and the generation test | `Load` |
| `shared_section_from_cache`, serialising the overlay; an error | `ShareSection`, `ShareFails` |

### Search, RefinementCache and the code

`TreeLayout`, `Intervals`, `Ranking` and `Search` have no state: each operator is a
function of the code, named as there or in its comment. The walk of `dfs::build` is
a fold of single steps over an explicit stack, `coalesce`, `push_ordered_point` and
`intersect_into` are folds over runs, and the heap is the set of the keys retained.
Names and terms are opaque; what the code learns from their bytes is given by
relations, of which `TextFacts` says what holds of any bytes: a name that begins
with a term contains it, and has the rows of its trigrams; the names that are before a term
come first in the order, then those that begin with it. The names are in order in every
base. A set is put in order by `InOrder`, which numbers it by counting, so that the proofs
can tell what comes out.

`views` are the volumes' published views, `cache` is `RefinementCache`, `asked`,
`answer` and `reused` are the last query, its hits and the volumes it was answered
for from the cache, until the answer is sent.

| Code | Action |
|---|---|
| the worker publishes a batch, or another base | `Publish` |
| `search_indexes_with_cache`: a query that can be refined | `Search` |
| the same for filters; patterns are in `Patterns` only | `Bypass` |
| cancelled before or between volumes | `Superseded` |
| `encode_results` | `Deliver` |

A search loads one view after the other and uses each only once, so a view
published in the middle counts as published before or after. `fits`, whether the
candidates of the rarest term can be checked within the budget of steps and name
bytes, is a free choice. Left out are the reuse of results for repeated names, the
memo of `verify_path_seed`, the batches and bitmaps by which many records are
enumerated, which visit the same records, and parents that are not directories. No
FRN of a base is created again in a batch, since an addition's size and time are
those of its FRN.

## 3. Runs

| Run | Asks | Bounds |
|---|---|---|
| `feed_safety` | Is everything a cursor claims in the view, and in the snapshot? Does a change get lost between journal and view? Does the feed implement `VisibleIndex`? | 2 records, journal replaced, 1 more; channel of 1; 4 starts |
| `feed_live` | Does each change become visible? | 2 records, journal replaced; channel of 1; 2 starts |
| `index` | Are overlay and base consistent, is every divergence queued, every path exact? Does compaction keep records and paths? | 3 files, 2 of them directories, 2 names, 3 events on a directory with or without a file |
| `connection` | Are frames one to one and in order? Is what is shown the newest query's answer? Is the newest request ever cancelled? Is it answered? Do both threads end with their client? | 4 requests, 1 exit of the daemon, room for 1 reply |
| `shared_index` | Does a client ever search a base with another's overlay, or nothing at all? How old may what it searches be? | 2 interchangeable clients, 1 change, 3 generations, 2 daemons |
| `search` | Is every answer what a naive search finds? Is what the cache keeps complete? | 3 directories with each of the 64 parent columns, a file, a second volume; 11 queries; 1 publication (a rename, two renames with a file made in between, a deletion, a new base); cap of 4, 2 shards |
| `idle_persist` | Is everything unsaved known to the schedule? While there is a worker, is it written in time, retried, and on disk in the end? | 30 s, 10 min, 60 min and 5 min as 1, 4, 8 and 2 ticks; ages up to 10 |
| `snapshot_files` | While the two threads have not written one file at once: is what is mapped ever written, or half a file found? Is a sidecar ever taken for another snapshot's? Does a shutdown save what it found? And does it end in any case? | 2 changes, 2 starts, 2 threads that compact or rebuild at any time, a failure of any step, a death between any two (630,000 states, two minutes) |
| `bulk_index` | Is what nobody touches indexed exactly, however its attributes lie? Is anything made up? Are paths, names, searches over names and sizes what was put in? Does the build end? | 9 layouts of the MFT and 5 kinds of contents, with up to 3 changes and 3 torn records; 225 sets of names in all their orders; 8 literals, 15 patterns |
| `feed_partial_sidecar`, `index_moved_dirs`, `shared_index_restart` | the code's own words against what it does (section 5) | smaller |

The properties:

- `ViewCoversCursor`, `SnapshotCoversCursor`: a cursor never claims a change that
  is not reflected. It takes an overflow, a rebuild, stale messages and a
  position message in the right order to break it, or a crash between two
  renames and a replay from an aged-out position.
- `NothingDropped`: a change the watcher has passed is shown, in the channel, in
  the batch, in a compaction, or owed by a rebuild.
- `ImplementsIndex`: what is once shown stays shown across compaction, rebuild,
  crash and replay, unless a partial sidecar is in play.
- `EventuallyVisible`: liveness of the same.
- `OverlayConsistent`: what `apply` and the searches rely on, of the overlay and, after
  compactions and rebuilds, of the base.
- `DivergenceIsQueued`: wherever view and volume disagree about a file, an
  event about it is still to come. This is why fuzzy enumeration and stale
  replay are harmless.
- `PathExact`: with no event outstanding each file is found under its path only.
- `CompactionKeepsPaths`: an action property; what compaction did to records. It asks it of
  records whose directories are live and end somewhere. An enumeration may meet two directories
  in each other; such a path is cut off at 512 names by the code and, with as many records as
  the model has, at another place before and after.
- `FramesInOrder`: what is in the pipe and in the thread's hands is exactly what
  the client counts on, in the order it asked. `LatestWins` depends on it: a
  client drains by counting frames and never looks at what they answer.
- `NewestNotSuperseded`: only a request that a newer one has overtaken is answered
  with nothing. This is what the mutex is for: an observation of a request's own
  bytes must be published before its generation is taken.
- `NewestAnswered`, `ThreadsEnd`: liveness of a connection.
- `MappingCoherent`: a client's base and overlay are of one view, although its
  thread answers from a view it loaded earlier while the worker publishes others,
  and although the section may come from the cache another thread filled.
- `WindowBoundsStaleness`: within the window a client sees no less than was published
  when it asked, and one that asks nobody has a mapping. It exempts a client whose
  mapping is of an earlier daemon (section 5).
- `AnswerExact`: the answer is the best of all that match in all volumes, in order.
  "Match" is stated once, over records and their live ancestors, without intervals,
  blocks, shards, heaps or a cache. It exempts limits over the cap, and answers taken
  from the cache while a directory was moved away above a record (section 5).
- `CacheComplete`: what is kept of a view is all that its terms match there. A list
  cut off at the cap, or terms and lists of different queries, would break it; the next
  query would then miss files without an error.
- `UnsavedIsScheduled`: whatever failed, was reset or restarted in between, a view that
  differs from its snapshot has the date that will get it written.
- `SilentChangesAreTried`, `PositionIsCheckpointed`: what those dates are worth; the first
  after a silence of the quiet period and a poll, the second at the checkpoint's age. Both
  exempt a volume whose worker has returned: nobody polls for it (section 5).
- `EventuallyDurable`: once messages stop and writes succeed, all is on disk, or the worker
  has returned before it got there.
- `SnapshotIntact`: no write reaches the file a view is mapped from, and what has the
  snapshot's name is a whole snapshot, at any death. This and the next three exempt what
  follows a `clash`, and nothing before it: a rebuild and a compaction, or two compactions, that interleave
  without writing one file are in.
- `SidecarMatchesSnapshot`: between any two steps of two writers, a sidecar that would be
  accepted numbers the records of the snapshot beside it.
- `NothingOverclaimed`: what is on disk and what is published hold what their position
  says; but for `lost`.
- `ShutdownSaves`: when the handler is through with a volume, the disk claims no less than
  the view it found, whatever the worker was writing, compacting or rebuilding.
- `ShutdownEnds`: the handler's thread comes to its end though the worker is stuck with
  the spools mapped or in a rebuild, and whatever they have written over each other.
- `IndexComplete`: a file nobody touches is there once, with a name a user sees, its size
  and its time; an index of the raw reader lacks no more than the tolerated share of torn
  records. Breaking it takes a list in one record, a name in a second and an order of
  the pass in which the second comes first or last.
- `EmittedWasTrue`: whatever changes between the pass and the resolution, an entry has no
  name and no exact size that its file never had.
- `PathsExact`: parents taken at different moments may form cycles; each record is in the
  tree once all the same, the path climbed is the one the intervals say, and unmoved files
  have the path they have on the volume.
- `ColumnsExact`: names are read back by every walk over every range, searches by bucket
  heads and by trigrams lose nothing, a pattern finds all its matches although most blocks
  may be left out, exactness of sizes is derived right, and the two builders agree.
- `Ends`: the pass ends for runs that are not whole numbers of sectors or records, too.

Why the bounds are enough. A channel of one slot overflows at once, so every
pattern of drop and delivery occurs already with two records; the third one
belongs to the new journal. Four starts allow a snapshot to be written, lost,
replayed and refused in turn. In `LiveIndex` three events suffice to create or move a
directory, put something in it and move or delete it again, across any
placement of a batch end, a rebuild, a compaction and a restart; two names
force both equal and different names. For a connection, four
requests put one in each place (being worked on, answered but unread, and two
waiting) and room for one reply makes the thread wait. Three generations are one
more than the section cache keeps, so its eviction happens. For searches, one publication at
any moment between queries makes a cache stale once, and the queries form chains that
refine, change their order or kind and exceed the cap; the volume has enough records
for two shards, two blocks and several buckets. For the files, a second change lets one
thread compact while another publishes, and a second start finds what the first one's death
left. For bulk indexing the layouts are those at which the arithmetic differs: runs out of
order, clusters larger than a record and smaller, a record across two runs, a run that is no
whole number of sectors, scales that look negative, a sparse run, a list that breaks off or
goes on elsewhere. Three changes suffice to make a cycle of two directories or to free,
use and split a record between pass and resolution. Buckets of 3, varint bytes of 4 values, blocks of
4 records, 2 rows of trigrams and samples every 2 bits put each border within
the six records of the volume, and rows of the trigram index collide. Two clauses of three
literals are fewer than some of the patterns would give, so lists are cut and alternations
fall back. Each property is broken within these
bounds by a small change of the code's logic, kept beside the definition it
changes and marked "Mutant".

Deadlock is not checked: a volume whose bounded changes are all made, with its
daemon down for the last time, really stops, and so do a connection whose
client has left and an index that is built. `idle_persist` checks it: a clock never stops.

Fairness of `feed_live`: the watcher thread and the worker thread are
scheduled, so each has weak fairness on its own steps; a journal read that
cannot succeed fails, and a resume that is refused goes on to a build. Nothing
is assumed of the volume, of crashes, of failures of compaction and rebuild, or
of the idle timer. The property therefore excuses a daemon that is down, a dead
watcher (the code never restarts it) and the known leaks.

Fairness of `connection`: the application polls, as the interactive mode of
`scry-cli` does in its event loop, and finishes the calls it makes; both threads
are scheduled. `begin_request` gets strong fairness, since the peeker holds the
lock for one peek and then sleeps for a millisecond. A search is only known to end
when it is the newest or finds the generation moved; one that does neither may
run for ever, so `NewestAnswered` shows that cancellation works. Nothing is
assumed of submissions, disconnections or exits. `NewestAnswered` excuses a
connection that has ended and a mixed one.

Fairness of `idle_persist`: time passes, and `recv_timeout` returns when its time is up;
`EventuallyDurable` asks that messages and failures of writes stop for good, which
nothing forces them to. A worker that has returned is not waited for: `Poll` is then not
enabled, and the property excuses it. Fairness of `snapshot_files`: the handler's thread is scheduled, and
nothing is asked of the worker, which may hold the spools for ever, nor that any step fail. Fairness
of `bulk_index`: the indexing thread goes on; reads need not fail for it to end, and the
volume may stop changing or not.

## 4. Proofs

Proved for the values of the constants that the assumptions allow: every channel capacity,
number and length of journals and number of starts; for a connection, every number of
requests and exits and every capacity of the pipe; for the schedule, any four lengths of its
intervals; for the shared index, any number of clients, changes, generations and restarts;
for the files, any number of changes and starts; for the records, any files, names and
events, and any trees to begin with: a file's directory is there, and none is in itself; for
bulk indexing, any buffer and batch size, and any volume whose MFT the assumption admits;
for searches, any names, terms and queries, bases, batches of events, number of volumes and
of threads, bucket and block sizes, and cap of the cache.

| Module | Theorem | States |
|---|---|---|
| `VolumeFeedProofs` | `TypeCorrect` | `Spec => []TypeOK` |
| | `ViewNeverOverclaims` | `Spec => []ViewCoversCursor` |
| | `SnapshotNeverOverclaims` | `Spec => []SnapshotCoversCursor` |
| | `NothingIsDropped` | `Spec => []NothingDropped` |
| | `Implements` | `Spec => ImplementsIndex` |
| `ConnectionProofs` | `TypesKept` | `Spec => []TypeOK` |
| | `FramingKept` | `Spec => []FramesInOrder` |
| | `NewestShown` | `Spec => LatestWins` |
| | `OnlyOvertakenCancelled` | `Spec => []NewestNotSuperseded` |
| `IdlePersistProofs` | `TypeCorrect` | `Spec => []TypeOK` |
| | `NothingUnscheduled` | `Spec => []UnsavedIsScheduled` |
| | `SilentChangesTried` | `Spec => []SilentChangesAreTried` |
| | `PositionCheckpointed` | `Spec => []PositionIsCheckpointed` |
| `SharedIndexProofs` | `TypeCorrect` | `Spec => []TypeOK` |
| | `Coherence` | `Spec => []MappingCoherent` |
| | `Staleness` | `Spec => []WindowBoundsStaleness` |
| `SnapshotFilesProofs` | `TypeCorrect` | `Spec => []TypeOK` |
| | `Intact` | `Spec => []SnapshotIntact` |
| | `SidecarMatches` | `Spec => []SidecarMatchesSnapshot` |
| | `Honest` | `Spec => []NothingOverclaimed` |
| | `ShutdownKeeps` | `Spec => []ShutdownSaves` |
| `LiveIndexProofs` | `TypeCorrect` | `Spec => []TypeOK` |
| | `OverlayKept` | `Spec => []OverlayConsistent` |
| | `CompactionKeepsRecords` | a compaction maps live records one to one onto the new base's |
| | `Convergence` | `Spec => []DivergenceIsQueued` |
| | `Paths` | `Spec => []PathExact` |
| | `CompactedPaths` | `Spec => CompactionKeepsPaths` |
| `BulkIndexProofs` | `TypeCorrect` | `Spec => []TypeOK` |
| | `OnlyTruth` | `Spec => []EmittedWasTrue` |
| `RefinementCacheProofs` | `TypeCorrect` | `Spec => []TypeOK` |
| | `CandidatesComplete` | `Spec => []CacheComplete` |
| | `AnswersExact` | `Spec => []AnswerExact` |
| | `LayoutIsOK` | the walk of `dfs::build` visits every record once, whatever the parents, and its intervals are the subtrees |
| | `SearchExact` | each search of a view returns the best of what is wanted there |
| | `RefiningExact` | filtering what the shorter terms match is searching for the longer ones |

Assumptions: `CapacityAssumption`, `BoundsAssumption`, `ConnectionAssumption`,
`IdlePersistAssumption`, `SharedIndexAssumption`, `SnapshotFilesAssumption`,
`FilesAssumption`, `BufferAssumption`, `BulkAssumption`, `VolumesAssumption`, `RankingAssumption`,
`SearchAssumption` and `RefinementAssumption`, no more. `VolumesAssumption` says what an NTFS volume is before anybody reads it: records have attributes of the right
types, an extension record in use is one of a base record in use, no base reference leads out
of the MFT, and no two runs of the MFT share a cluster. Boot sector and run list
may say anything.

The argument for the feed has two layers. `Shape` adds to `TypeOK` what
is true of positions and messages without regard to content: the journal's window
is in order, the batch holds changes of the watched journal, a running watcher has a cursor, queued messages are
below the read position. `Coverage` needs more than
the three invariants it implies, since none of them is inductive:

- `PositionsOK`: no position on disk, in a view or captured for a build lies in
  the future of its journal;
- `BuildOK`: what a build captured includes everything before its cursor;
- `CompactOK`: a view on its way through compaction covers what its cursor claims;
- `FrnsOK`: without a leak there is no partial sidecar;
- `HonestOK`: view and disk cover what they claim;
- `HandoverOK`: what lies below the watcher's first position is in the view it
  was started for;
- `QueueOK`: for each position message in the channel, and for the one already
  in the batch, every change below it is safe, queued before it, or in the batch.

`QueueOK` is the heart: a position message is only honest together with the
messages in front of it, and it stays so when messages are dropped because the
flag raised then makes everything "safe" until the rebuild. One lemma per action establishes
each of the two; `ShapeAlways` and `CoverageAlways` collect them.

For the refinement of `VisibleIndex` a third layer, `Replayable`, answers what a restart could take away. The coverage properties do not: they exempt every
known leak, and `ImplementsIndex` only the partial sidecar. A change may have leaked out of the
index and still not be un-shown, since it was not shown. What a resume would neither find in the
snapshot nor replay is `Missed`; nothing shown may be:

- `ShownOK`: nothing in the view, the view being compacted or the batch is missed;
- `ResumableOK`: nor is anything that may still come to be shown (`Pending`: in the
  channel, or not read yet), by the snapshot on disk or by what either view would be
  written as; and a snapshot has everything of earlier journals, because a cursor with a
  later identity only comes from an enumeration;
- `OrderOK`: messages are in the journal's order, so that a position cannot overtake a
  change that a later batch would show;
- `BuiltOK`: a build's journal is not older than the watched one.

Every step then maps to `Change` (the volume's) or `Publish` (`ShownStays`); a resume is
the hard one (`ResumeShows`): what was shown and is not in the snapshot is not claimed by it,
so it is in the journal behind the cursor, and replayed.

The argument for a connection is one invariant, `ConnectionInv`. To the types and
to the two invariants it implies it adds:

- `LockOK`, `WorkOK`: the lock is held exactly from before the peek to after the
  publication, and the thread has a request exactly while it works on one;
- `OwedOK`: unless mixed, a client waiting for one frame owes no others, the last
  request written is the newest interactive one while any is owed, and there are
  never more replies in the pipe than are owed, even when the daemon is gone;
- `MovedOK`: a generation that has moved, and an observation about to move it, mean
  that a newer request exists. At `BeginRequest` the free lock says that no
  observation is pending; at `Peek` the framing says that unread bytes are a newer
  request's.

Each client call is shown to write one frame and owe one more, to read one and
owe one less, or to do neither (`WriteFraming`, `ReadFraming`, `QuietFraming`).

For the schedule, `TypeOK` and `UnsavedIsScheduled` are inductive together
(`IdlePersistInv`). `TriedInv` relates three clocks that run apart: the last change is at
least as old as the silence, the silence at least as old as the wait, and a wait that
began after the quiet period began with an attempt, or soon after one. The assumption puts
`Horizon` beyond everything an age is compared with.

`CheckpointInv` does the same for a position without changes: the date of the position
is as old as its first unsaved move, or an attempt came after it. Both speak of a worker
that has not returned; `Disconnect` keeps them for want of one.

For the shared index the invariant is `SharedInv`. `MappingCoherent` alone is far from
inductive: it follows from `GenerationNamesBase`, that among the published view, the
views the threads have loaded and the entries of the cache a generation names one base. A
restart starts the generations over and empties both cache and threads, and a new base
takes a generation that nobody has yet. For staleness `Follows` says that
nothing of the running daemon is newer than its published view, and that what has its
generation is as new; `AnswerOK` and `FloorOK` carry what was published when a client
asked (`floor`) from the thread that loaded a view, to the answer, to the mapping.

For the files the invariant is `FilesInv`: the types in any case, and, unless there has been a
`clash`, the parts below, together `Whole`. A step that clashes owes the types only, and no
step undoes a clash (`ClashStays`); any other leaves what its threads have written as it is (`Unclashed`).

- `TurnsOK`, `WriterOK`: what each thread has in hand at each step, and that no temporary
  file is open by both (`Alone`), although both may be writing, a rebuild included;
- `FilesOK`: a name for good holds a whole file, a temporary one what its writer has
  written so far;
- `TagsOK`: among files and images in hand a tag is one image's. `SidecarMatchesSnapshot`
  follows for any moment between the renames. `FreshTagExists` shows that the five tags
  of the model suffice, so that reusing a forgotten one hides nothing;
- `BaseOK`: a view's file is still the one it was mapped from, or has lost its name;
- `CursorsOK`, `PositionKept`, `FileAhead`: which of handler, worker and file is
  ahead of which, at each step of each. `ShutdownSaves` needs all three, because the
  worker may finish a snapshot of an older view between the handler's load and its rename;
- `ClaimsOK`: unless something is `lost`, every image holds what it claims, and what
  the worker works from holds all that was received.

For the records the invariant is `Inv` of `LiveIndexProofs`. `BaseOK` and `DeltaOK` hold
whatever has happened: the base is sorted and its indices are its own; additions come after
their parents; `added_frns` has the live additions and no others. `Exact` (the sidecar
resolves every record's file to it) and `Apart` (no file is live in both layers) hold but for
`defects`; they need each other, since an event finds the file it is about through the
sidecar. `ApplyKeeps` shows that any event keeps them, stale, repeated or about a file that was
never there, so a batch does (`ApplyAllKeeps`) wherever it begins in the journal.

What a base is made of was the harder part. `BuildBase` and `Compacted` give each record a
number that is a count of what comes before it. `RankIsBijection` shows that counting in
any total order numbers a finite set without gaps and in order; for an enumeration the order
is by name, then file (`BuiltBase`), for a merge by name, base before delta, then as they were
(`MergedOrders`). That merged order is total because the base is sorted, so each compaction
needs what the last one established. `PlaceIsRank` finds the sums of the code, over the live
records of each layer, to be those ranks. Where parents and sidecar use another sum
(`FinalIndexOfDelta`), it is still a place in the arena, and without equal names the same one
(`FinalPlaces`). The root keeps its place and has no parent because every
addition has a name and sorts after it (`PatchedRoot`).

That the view never falls behind without an event to come is `Converging` of
`LiveIndexProofs`. References are left behind first: `Shown` is the name and the
directory that the live records of a file show, and lemmas say what an event (`ApplyShows`),
an enumeration (`EnumerationShows`) and a compaction (`CompactedShows`) make of it. The rest
compares that with the volume's past, the history `trees`:

- `Past`: the trees and the journal tell the same story, no file comes back, and a directory
  is there as long as anything is in it;
- `Fresh`: each file is shown as it was at some time since the events that were applied
  (a fuzzy enumeration and a stale event can each be ahead of the other), or the file will be
  renamed or deleted by a later event; `StrandedOK` and the orphans say whose directory is exempt;
- `TombsOK`: a record of the base is dead only because its file has another one or is gone,
  so a directory that an event names is never found dead (`NamedParent`). This is why an
  event does not put a file under a dead directory, although `resolve_parent` does not look;
- the same of the base alone from the snapshot's position, which is what a restart starts
  from. A file may cease to be an orphan by an event that a restart then undoes: `BaseOrphans`
  says that the replay will repeat it. It holds because an enumeration that missed a file's
  directory ran while that directory was made or removed;
- right after a rebuild, and only then, the snapshot's position may be ahead of the events
  applied (`next_usn = saved \/ next_usn <= pos`): the guard behind "stale record".

An event moves each file's time along (`FreshStep`), one step of the induction over a batch
(`BatchKeeps`), whichever position the batch begins at. A file about which nothing more is to come is
the same in all later trees (`Unreported`), and so the same as now.

For paths, the last part follows the walks. A walk that spells a path is a function of the
hops it may still take (`FullPath` and `DeltaPath` are written with a row for each number of
hops, for these proofs); `FullPathWalk` and `PathOfClimb` show that a climb, records each of which is the
parent of the one before, up to one without a parent, makes it spell their names: no
climb is cut short, because it meets no record twice and so is no longer than there are
records (`WalkIsShort`). `TruePathOfAscent` says the same of the volume. What is left is
that the view's climb and the volume's ascent go through the same files:

- `Grounded`: the volume stays a tree (`FsRename` does not move a directory below itself), and a
  base that comes from no compaction with equal names keeps the root's record. In a tree every
  file has an ascent to the root, for the files that it reaches would be in each other otherwise
  (`AscentExists`);
- `Convergence`, with nothing outstanding: each file on the ascent has one live record, its name,
  and the next file as directory. `StrandedOK` makes the record of that directory a live one, so it is the
  one record of the next file (`ExactPaths`).

A compaction maps a climb through live records to their places in the new base under the same
names (`CompactedClimb`): this is where the places that the code computes for parents must be
those where it puts records. `AncestorIsReached` finds the climb in `Ancestors`, which only collects.

The recursion over a batch, along walks and the counting are proved with induction over the naturals,
stated for a set (`NatSetInduction`), since the library's rules take an operator. `ApplyAll` and
`BuildBase` are written without folds, and maps without `@@`, for these proofs.

All these invariants were checked with TLC before they were proved.

For bulk indexing the invariant is `IInv` of `BulkIndexProofs`:

- `VolumeOK`, `BaseExists`: whatever is done to the volume, an extension record in use has a
  base record, and `ever` has every name and size that a file has now;
- `TrueFile`: what is kept of a record, from the moment it is read until it is emitted, was
  true of its file at some time. That is said of the entries, the deferred records, the
  extension records the pass met and what was resolved, each with the FRN that goes with it,
  sequence number included. It stays so when the record is freed and used again, since `ever` only grows. What
  is left is that an extension is only added to the base it names (`ResolveKeeps`) and that a record's own
  attributes are those of its base's file (`RecordTrue`);
- `PlaceOK`, `HiddenOK`: the pass stays within its run, and each file whose record was torn has been
  passed. The place of the disk at which a torn record lies was therefore not torn before: a
  chunk is in one run, runs are disjoint (`RunsApart`), and within a run the pass only goes forward.
  So torn records are counted once each, which is what the share compares;
- `ResolvedOK`: there is a place for each deferred record, from the end of the pass on.

The recursions over bytes, runs and slots (`decode_runs`, `ReadChunk`, `UsnBatch`) are written as
functions of a bounded number, and proved total (`StepsExist`) and typed by `UpTo`.

For searches the invariant is `IInv` of `RefinementCacheProofs`. It is short, and what it says
of one step is a theorem about a whole search:

- `ViewsOK`: each published view is made of one of the bases, sorted and laid out, and of
  an overlay whose additions come after their parents, which are directories (`DeltaOK`, kept by
  each event, `ApplyKeeps`, and so by a batch, `BatchKeeps`); records and additions together
  have numbers (`Roomy`);
- `CacheOK`: no candidates are of a generation still to come, so a publication makes them unusable at
  once; those of a view that is still published are hits of its records and, unless a directory
  above one was moved away, all that the terms kept beside them match (`KeptOK`). `cache.terms` and the lists
  are replaced together, and a query that is cancelled drops the lists or leaves both: with
  terms that are ahead of their lists `ReuseNarrows` would fail;
- `AnswerExact` itself, until the answer is sent.

The way from there to `SearchExact` goes through everything a search uses. References in
brackets are the lemmas to begin with:

- a finite set in any total order is numbered without gaps by counting (`InOrderSorts`), so a fold over it
  meets each member once and in order; the bounded heap then ends with the best of
  what it was offered, in whatever order and by whichever shards (`RetainAllIsBest`, `RetainShardedIsBest`,
  `HeapIsBest`);
- `LayoutIsOK`: the walk over the columns of parents, cycles and records that are their own
  parents included, places each record once, and what is between a record's place and its end is
  what hangs below it;
- interval sets keep runs in order and apart, and `coalesce`, `push_ordered_point` and
  `intersect_into` compute union and intersection of positions (`IntervalSetBuilt`,
  `ShortSetBuilt`, `SetsIntersected`). Hence a position is in all sets when each term is in the name of its
  record or of a live directory above it (`Found`), by the intervals or by climbing from the
  candidates of one term (`SeedVerified`). What the additions inherit comes from sets of the base only,
  because their parents come first (`InheritanceIs`);
- the scan of `prefix_range` from a bucket's head on finds the names that begin with a term, all of
  them (`PrefixRangeIs`): those before it come first, as `TextFacts` says of any bytes.

`RefiningExact` needs that a name with the longer term has the shorter, and that the two ways to
look upwards agree: the refinement climbs through whatever is there, the search through what is
live. They do unless a live record has a dead one above it (`ReachedUnstranded`), which is what
`Decided` excludes. Last, each volume contributes all its matches or a limit's worth of the
first (`Enough`), and then what is left out of a volume is behind a limit's worth in the merged
order (`LeftOut`), so the merged lists begin alike (`MergedSame`).

Only model-checked: `EventuallyVisible`, `NewestAnswered`, `ThreadsEnd`,
`EventuallyDurable`, `ShutdownEnds` and `Ends` (liveness under fairness is beyond the prover),
and of `BulkIndex` `IndexComplete`, `PathsExact` and `ColumnsExact`. The first of these says of a
whole pass what it found, by the layout of each record; the other two compare columns of bytes that recursive
operators write and read (front coding, trigrams, rank samples, the spooled builder), and would
need induction over each of them.

## 5. Where the code departs from its words

- `feed_partial_sidecar`: a snapshot without a sidecar (crash between the
  renames, or an ignored one) is resumed when nothing happened since; once its
  cursor moves, compaction writes an empty sidecar that matches.
- `index_moved_dirs`: the contents of a directory renamed in the delta lose their
  parent at compaction.
- `shared_index_restart`: generations start over with the daemon, so the handshake may
  confirm a mapping of an earlier daemon that lacks what the new one has seen; the
  staleness is not bounded by the window then.

Met on the way, without a run of their own:

- A failed full reindex is only logged; what asked for it (overflow flag, batch) is
  consumed. The next position message claims the lost changes, and the next snapshot makes
  the loss permanent. `VolumeFeed` records it as the gap "rebuild failed".
- An addition with the name of a live base record is given the same final index as that
  record at compaction; the two exchange parents and FRN entries (history `defects`).
- After a directory was renamed in the delta, the cache finds what is beneath it by the
  old name, which is still on the displayed path, and a scan does not: typing a query letter
  by letter and pasting it give different answers (`AnswerExact` exempts it).
- When a run of the MFT is no whole number of physical sectors, `aligned` becomes 0
  (`scry-fsevents/src/mft/mod.rs:157`) and the pass goes to the next run without moving
  `stream_position`: records after it are taken for others and passed over, and only torn
  ones count towards the fallback. A physical sector that cannot be asked for is taken to be
  4096 bytes (`mft/boot.rs:66`), more than a small cluster. `Regular` says when it cannot happen.
- Clusters of 64 KiB (128 sectors) and more are encoded as what is read as a negative
  `i8`: the boot sector is refused, or a wrong place is read, and the volume is
  indexed by USN records, without sizes.
- `data_size` takes the length fields of any `$DATA` segment, also of one that continues
  another, in which they are not valid: the size is 0, and held to be exact. The report's words for such a
  size are "a genuinely empty file" (`mft/mod.rs:54`). `Readable` and `Whole` exempt it.
- A file whose attribute list is not resident, and whose names are in another record, is
  not indexed by the raw reader until its next change.
- An `$MFT` so fragmented that its own runs continue in another record is read only as far as
  record zero's list goes, without an error; the rest of the volume is missing.
- `scry-core/src/literals.rs:8` says that "every match contains at least one literal from every
  clause". Literals are lowered as ASCII, but a pattern matches without regard to case in
  all of Unicode: `*stu*` matches a name with a long s (U+017F), and a block that holds
  only such a name is left out. A small index, which has no blocks, finds it. `PatternsExact`
  exempts names that are not ASCII.
- `main.rs:68` says that a shutdown loses at most the work since the last write. The
  handler and the worker both publish without comparing, so a view the worker made from an
  older one may replace the handler's (history `lost`); the process is about to end then.
- The handler's compaction and a rebuild of the worker create, write and rename the same
  `tmp` and `frn.tmp`, and nothing excludes it (`updates.rs:223`, `main.rs:80`). Where both
  are at it, one truncates what the other has written, and the rename of the first puts a
  file under the snapshot's name that the second is still writing and that may be mapped by then,
  although `store.rs:297` relies on what was validated when it was opened. Without `~clash` TLC
  violates `SnapshotIntact` (the handler's `File::create` falls between body and rename of the
  worker, and half a file gets the name) and `ShutdownSaves` (the handler renames the file,
  and the worker writes on).
  The next start refuses such a file, as a rule, and builds anew; `main.rs:68` is not kept then.
- Two compactions of one volume usually exclude each other, since the open of a spool that
  the other has mapped fails. There are gaps: between open and `map_mut` (`spool.rs:59-67`,
  `208-215`), in `ByteSpool::reserve`, which unmaps to grow (`spool.rs:248-252`), and after a
  failed compaction has removed the spools of a running one by their names. Two that get through a
  gap write into one file, or go on side by side into the same `tmp`.
- When the watcher ends, the worker returns (`updates.rs:140`): from then on nobody asks
  the schedule, and what is not on disk waits for the shutdown (`Disconnect`).
- `updates.rs:38` promises changes a "much shorter durability bound" than positions. Each
  change starts the ten minutes anew, and the schedule is only asked after 30 s without
  a message: a volume in steady use is written at the 5% threshold only.

- A client that reconnects after a failed handshake keeps counting the replies owed
  over the old pipe (`scry-client/src/local.rs:35`); `recv_interactive` then waits for
  frames that will not come. `Reconnect` models it.
- From the second query of a connection on each volume is scanned for 20000 hits
  (`scry-daemon/src/search.rs:200`), also when the limit, which may be 100000, is
  higher: the first answer may be longer than later ones. `ScanLimit` models it.
- `scry-core/src/dfs.rs:114` says that a record left unvisited "can only be a member of
  a parent cycle". It may also hang below one; if its index is lower it becomes a root
  and loses its parent. `PathsExact` claims the paths on the volume only beneath
  directories that nothing happened to.

## 6. Not modelled, and the plan

Not modelled: the parsing of queries and of regular expressions; rkyv and the
format of files, `select` of a bit vector (nothing
uses it); the bytes of MFT attributes and of USN records, privileges and handles; the
self-write filter by names (the daemon's own files are "ignored" records); times other than the
schedule's (any timeout may expire at any moment the code waits); status discovery,
which has a connection of its own; a full direction towards the daemon (64 KB of
requests); the shutdown loop over several volumes; the throttle, which only delays;
the command line, the updater and the benchmarks.

`SnapshotFiles` does not follow the contents of files after a `clash` (section 2), nor the
spools of the layout (`dfs/file_backed.rs`), which two compactions reach only when both
are past the merge; that counts as a clash. A removed spool is taken to lose its name at
once, as on Windows 10 and later, or to keep it. A fresh tag is taken to be new; the code
draws 32 bits from the clock. One call of the handler is modelled: a console event and the shutdown
event (`shutdown.rs:76-88`) at the same moment would be two, on two threads. In `BulkIndex`, `UsnBatch` and
`UsnEnd` leave out two early exits (`indexing.rs:172-174`, `191-193`) for answers that the
kernel does not give.

Next, in this order:

1. Proofs: `IndexComplete`, from the invariant of `BulkIndexProofs` and what the pass has
   covered; the walks over names and buckets.
2. Models: the updater's activation and rollback; status discovery; the encoding of the
   overlay for clients.
