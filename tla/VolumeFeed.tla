----------------------------- MODULE VolumeFeed -----------------------------
(***************************************************************************)
(* How one volume's index is kept current: the NTFS change journal, the    *)
(* watcher thread that reads it into a bounded channel, the worker that    *)
(* drains the channel in batches, publishes views, compacts and rebuilds,  *)
(* the snapshot on disk, and the daemon's crashes and restarts.            *)
(*                                                                         *)
(* Content is abstracted to the set of structural changes it reflects: a   *)
(* base is what an enumeration or a compaction covered, a delta what was   *)
(* applied on top. What applying one change does to records is modelled    *)
(* in DeltaOverlay. A change is <<journal id, usn>>.                       *)
(***************************************************************************)
EXTENDS Integers, Sequences

CONSTANTS
  Capacity,    \* slots of the watcher -> worker channel (16384 in the daemon)
  MaxUsn,      \* bounds: records written to the first, second... journal
  MaxStarts    \* bound: daemon starts

ASSUME CapacityAssumption == Capacity \in Nat \ {0}
ASSUME BoundsAssumption == MaxUsn \in Seq(Nat) /\ MaxStarts \in Nat

VARIABLES
  journal,   \* NTFS: [id, first, next] of the volume's current journal
  changes,   \* NTFS: every structural change made so far
  watching,  \* watcher thread: "off", "start", "read", "send" or "dead"
  cursor,    \* [id, next] handed to the watcher; id = 0 stands for None
  startUsn,  \* next record the watcher hands over
  readUsn,   \* next_usn returned by its last journal read
  chan,      \* the bounded channel
  overflowed,\* the flag the watcher raises when the channel is full
  pc,        \* worker (and, before it, startup) program counter
  batch,     \* changes drained and not yet applied
  replayNext,\* replay_next_usn of this batch, NoUsn if none
  built,     \* cursor captured by build_view, and the changes made before it
  next,      \* the view being compacted
  view,      \* the published view; the last one while the daemon is down
  disk,      \* the snapshot on disk and the state of its sidecar
  starts,    \* daemon starts so far
  gap        \* history: the known ways to lose a change that have happened

vars == <<journal, changes, watching, cursor, startUsn, readUsn, chan,
          overflowed, pc, batch, replayNext, built, next, view, disk,
          starts, gap>>

watcherVars == <<watching, cursor, startUsn, readUsn>>
ntfsVars == <<journal, changes>>

NoUsn == -1
NoId == 0
NoCursor == [id |-> NoId, next |-> 0]

\* A snapshot: what it covers, the cursor stamped on it and its FRN sidecar:
\* "whole", "missing" (absent, or ignored for its tag) or "partial".
NoSnapshot == [covered |-> {}, id |-> NoId, next |-> 0, frns |-> "missing"]
EmptyView == [base |-> NoSnapshot, delta |-> {}, next |-> 0]
NoBuild == [id |-> NoId, next |-> 0, seen |-> {}]

Covered(v) == v.base.covered \cup v.delta

\* Changes a cursor claims to be reflected: all of earlier journals, and
\* those of this one below its position.
Before(id, usn) == {c \in changes : c[1] < id \/ (c[1] = id /\ c[2] < usn)}

Serving == pc \notin {"down", "boot"} /\ watching # "off"

Init ==
  /\ journal = [id |-> 1, first |-> 0, next |-> 0]
  /\ changes = {}
  /\ watching = "off" /\ cursor = NoCursor /\ startUsn = 0 /\ readUsn = 0
  /\ chan = <<>> /\ overflowed = FALSE
  /\ pc = "down" /\ batch = {} /\ replayNext = NoUsn
  /\ built = NoBuild
  /\ next = EmptyView /\ view = EmptyView /\ disk = NoSnapshot
  /\ starts = 0 /\ gap = {}

-----------------------------------------------------------------------------
(***************************************************************************)
(* The volume: code outside the repository, modelled from what the         *)
(* watcher, replay_journal and validate_replay_cursor expect of it.        *)
(***************************************************************************)

daemonVars == <<watcherVars, chan, overflowed, pc, batch, replayNext, built,
                next, view, disk, starts, gap>>

\* A record is journaled: a structural change, or the old-name half of a
\* rename, which the daemon ignores.
FsChange ==
  /\ journal.next < MaxUsn[journal.id]
  /\ journal' = [journal EXCEPT !.next = @ + 1]
  /\ \E structural \in BOOLEAN :
       changes' = IF structural THEN changes \cup {<<journal.id, journal.next>>}
                                ELSE changes
  /\ UNCHANGED daemonVars

\* The journal is a window: its oldest records age out.
JournalAges ==
  /\ journal.first < journal.next
  /\ journal' = [journal EXCEPT !.first = @ + 1]
  /\ UNCHANGED <<changes, daemonVars>>

\* The journal is deleted and created anew, with a new identity.
JournalReplaced ==
  /\ journal.id < Len(MaxUsn)
  /\ journal' = [id |-> journal.id + 1, first |-> 0, next |-> 0]
  /\ UNCHANGED <<changes, daemonVars>>

-----------------------------------------------------------------------------
(* The watcher thread. *)

\* Mutant: a cursor whose records have aged out is accepted.
ReplayCursorValid_IgnoresAging(id, usn) ==
  /\ id = journal.id
  /\ usn <= journal.next

\* validate_replay_cursor: the cursor belongs to this journal, its records
\* are still there, and it does not lie in the future.
ReplayCursorValid(id, usn) ==
  /\ id = journal.id
  /\ journal.first <= usn
  /\ usn <= journal.next

workerVars == <<pc, batch, replayNext, built, next, view, disk, starts, gap>>

\* Mutant: the watcher starts from now whatever cursor it was given.
WatchStart_FromNow ==
  /\ watching = "start"
  /\ cursor' = [id |-> journal.id, next |-> journal.next]
  /\ startUsn' = journal.next
  /\ watching' = "read"
  /\ UNCHANGED <<ntfsVars, readUsn, chan, overflowed, workerVars>>

\* watch() opens the journal: from the cursor of the view being served, or
\* from now on when that view has none.
WatchStart ==
  /\ watching = "start"
  /\ \/ /\ cursor.id = NoId
        /\ cursor' = [id |-> journal.id, next |-> journal.next]
        /\ startUsn' = journal.next
        /\ watching' = "read"
     \/ /\ cursor.id # NoId
        /\ ReplayCursorValid(cursor.id, cursor.next)
        /\ startUsn' = cursor.next
        /\ watching' = "read"
        /\ UNCHANGED cursor
  /\ UNCHANGED <<ntfsVars, readUsn, chan, overflowed, workerVars>>

\* One journal read returns some records after the last ones.
WatchRead ==
  /\ watching = "read"
  /\ cursor.id = journal.id /\ journal.first <= startUsn
  /\ \E usn \in startUsn + 1 .. journal.next : readUsn' = usn
  /\ watching' = "send"
  /\ UNCHANGED <<ntfsVars, cursor, startUsn, chan, overflowed, workerVars>>

\* Mutant: a full channel drops the message and nobody is told.
TrySend_Silent(message) ==
  /\ chan' = IF Len(chan) < Capacity THEN Append(chan, message) ELSE chan
  /\ UNCHANGED overflowed

\* Mutant: the channel takes one message more than it has room for.
TrySend_OffByOne(message) ==
  IF Len(chan) <= Capacity
  THEN chan' = Append(chan, message) /\ UNCHANGED overflowed
  ELSE overflowed' = TRUE /\ UNCHANGED chan

\* try_send: a full channel drops the message and raises the flag.
TrySend(message) ==
  IF Len(chan) < Capacity
  THEN chan' = Append(chan, message) /\ UNCHANGED overflowed
  ELSE overflowed' = TRUE /\ UNCHANGED chan

Message(kind, usn) == [kind |-> kind, usn |-> usn]

\* The records of the read are handed over one by one, in journal order.
WatchSend ==
  /\ watching = "send" /\ startUsn < readUsn
  /\ TrySend(Message(IF <<cursor.id, startUsn>> \in changes
                     THEN "change" ELSE "ignored", startUsn))
  /\ startUsn' = startUsn + 1
  /\ UNCHANGED <<ntfsVars, watching, cursor, readUsn, workerVars>>

\* After them, the position the journal has been read to.
WatchAdvance ==
  /\ watching = "send" /\ startUsn = readUsn
  /\ TrySend(Message("advanced", readUsn))
  /\ watching' = "read"
  /\ UNCHANGED <<ntfsVars, cursor, startUsn, readUsn, workerVars>>

\* A refused cursor or a failed read ends the thread for good.
WatchFails ==
  /\ watching \in {"start", "read"}
  /\ watching' = "dead"
  /\ UNCHANGED <<ntfsVars, cursor, startUsn, readUsn, chan, overflowed, workerVars>>

-----------------------------------------------------------------------------
(* The worker: reindex_on_changes. *)

\* recv_timeout got a message, the first of a batch or one more of it:
\* collect_change keeps a change, or remembers the position.
Receive ==
  /\ pc \in {"idle", "drain"} /\ chan # <<>>
  /\ LET m == Head(chan) IN
       /\ batch' = IF m.kind = "change" THEN batch \cup {<<cursor.id, m.usn>>} ELSE batch
       /\ replayNext' = IF m.kind = "advanced" THEN m.usn ELSE replayNext
  /\ chan' = Tail(chan)
  /\ pc' = "drain"
  /\ UNCHANGED <<ntfsVars, watcherVars, overflowed, built, next, view, disk, starts, gap>>

\* 500 ms passed with nothing to receive: the batch is complete.
DrainTimeout ==
  /\ pc = "drain" /\ chan = <<>>
  /\ pc' = "swap"
  /\ UNCHANGED <<ntfsVars, watcherVars, chan, overflowed, batch, replayNext,
                 built, next, view, disk, starts, gap>>

\* Mutant: an overflow is taken and the batch handled as if it were whole.
TakeOverflow_Forgets ==
  /\ pc = "swap"
  /\ overflowed' = FALSE
  /\ pc' = IF batch = {} /\ replayNext = NoUsn THEN "idle" ELSE "apply"
  /\ UNCHANGED <<ntfsVars, watcherVars, chan, batch, replayNext, built, next,
                 view, disk, starts, gap>>

\* take_overflow, then what the batch calls for: nothing, a delta or a
\* rebuild. A rebuild does not need the batch.
TakeOverflow ==
  /\ pc = "swap"
  /\ overflowed' = FALSE
  /\ \/ /\ overflowed
        /\ pc' = "rebuild" /\ batch' = {} /\ replayNext' = NoUsn
     \/ /\ ~overflowed /\ batch = {} /\ replayNext = NoUsn
        /\ pc' = "idle" /\ UNCHANGED <<batch, replayNext>>
     \/ /\ ~overflowed /\ (batch # {} \/ replayNext # NoUsn)
        /\ pc' = "apply" /\ UNCHANGED <<batch, replayNext>>
  /\ UNCHANGED <<ntfsVars, watcherVars, chan, built, next, view, disk, starts, gap>>

\* The delta with the batch applied. Without FRNs no change can be applied;
\* with a partial map a deletion that finds nothing is taken for done.
Applied(v, events) ==
  CASE v.base.frns = "whole"   -> {v.delta \cup events}
    [] v.base.frns = "partial" -> {v.delta \cup e : e \in SUBSET events}
    [] OTHER                   -> IF events = {} THEN {v.delta} ELSE {}

BatchDone == batch' = {} /\ replayNext' = NoUsn

\* The next view keeps its base, and takes the position the batch brought.
\* It is published, or compacted first when the delta has outgrown 5%.
ApplyBatch ==
  /\ pc = "apply"
  /\ \E delta \in Applied(view, batch) :
       LET v == [view EXCEPT !.delta = delta,
                             !.next = IF replayNext = NoUsn THEN @ ELSE replayNext]
       IN \/ /\ view' = v /\ pc' = "idle"
             /\ UNCHANGED next
          \/ /\ v.delta # {}
             /\ next' = v /\ pc' = "compact"
             /\ UNCHANGED view
  /\ BatchDone
  /\ UNCHANGED <<ntfsVars, watcherVars, chan, overflowed, built, disk, starts, gap>>

\* Some change could not be applied (no FRN map, unknown parent or record):
\* the delta is thrown away and the volume enumerated again.
NeedsFullReindex ==
  /\ pc = "apply" /\ batch # {}
  /\ pc' = "rebuild"
  /\ BatchDone
  /\ UNCHANGED <<ntfsVars, watcherVars, chan, overflowed, built, next, view,
                 disk, starts, gap>>

\* view_needs_persist: there is a delta, or the cursor has moved.
NeedsPersist(v) == v.delta # {} \/ v.next # v.base.next

\* 30 s without a message and a persist is due.
IdlePersist ==
  /\ pc = "idle" /\ chan = <<>> /\ NeedsPersist(view)
  /\ next' = view
  /\ pc' = "compact"
  /\ UNCHANGED <<ntfsVars, watcherVars, chan, overflowed, batch, replayNext,
                 built, view, disk, starts, gap>>

-----------------------------------------------------------------------------
(***************************************************************************)
(* Snapshots are written as two files, each renamed into place: between    *)
(* the two renames the sidecar's tag does not match and it is ignored.     *)
(***************************************************************************)

\* Mutant: the delta is left out of the snapshot that replaces it.
SnapshotOf_BaseOnly(v) ==
  [covered |-> v.base.covered, id |-> v.base.id, next |-> v.next, frns |-> "missing"]

\* The snapshot compaction writes of a view, before its sidecar.
SnapshotOf(v) ==
  [covered |-> Covered(v), id |-> v.base.id, next |-> v.next, frns |-> "missing"]

\* The sidecar is merged from the base's map: without it, only what the
\* delta added is in it.
MergedFrns(v) == IF v.base.frns = "whole" THEN "whole" ELSE "partial"

Lossy(frns) == IF frns = "partial" THEN {"partial sidecar"} ELSE {}

CompactSnapshot ==
  /\ pc = "compact"
  /\ disk' = SnapshotOf(next)
  /\ pc' = "sidecar"
  /\ UNCHANGED <<ntfsVars, watcherVars, chan, overflowed, batch, replayNext,
                 built, next, view, starts, gap>>

Fresh(base) == [base |-> base, delta |-> {}, next |-> base.next]

\* The sidecar is renamed, the pair reopened and published. A failure to
\* reopen leaves the uncompacted view published.
CompactSidecar ==
  /\ pc = "sidecar"
  /\ disk' = [disk EXCEPT !.frns = MergedFrns(next)]
  /\ view' \in {Fresh(disk'), next}
  /\ gap' = gap \cup Lossy(disk'.frns)
  /\ pc' = "idle" /\ next' = EmptyView
  /\ UNCHANGED <<ntfsVars, watcherVars, chan, overflowed, batch, replayNext,
                 built, starts>>

\* Compaction failed before either rename: publish the uncompacted view.
CompactFails ==
  /\ pc \in {"compact", "sidecar"}
  /\ view' = next
  /\ pc' = "idle" /\ next' = EmptyView
  /\ UNCHANGED <<ntfsVars, watcherVars, chan, overflowed, batch, replayNext,
                 built, disk, starts, gap>>

\* build_view captures the journal's position (or fails to) and only then
\* starts to enumerate the volume.
BuildCursor ==
  /\ pc = "rebuild"
  /\ \/ built' = [id |-> journal.id, next |-> journal.next, seen |-> changes]
     \/ built' = [id |-> NoId, next |-> 0, seen |-> changes]
  /\ pc' = "enumerate"
  /\ UNCHANGED <<ntfsVars, watcherVars, chan, overflowed, batch, replayNext,
                 next, view, disk, starts, gap>>

\* The enumeration sees what was there before it, and any part of what
\* changes while it runs; then the snapshot is saved.
BuildSnapshot ==
  /\ pc = "enumerate"
  /\ \E late \in SUBSET (changes \ built.seen) :
       disk' = [covered |-> built.seen \cup late, id |-> built.id,
                next |-> built.next, frns |-> "missing"]
  /\ pc' = "buildSidecar"
  /\ UNCHANGED <<ntfsVars, watcherVars, chan, overflowed, batch, replayNext,
                 built, next, view, starts, gap>>

\* The built pair is opened and published. At startup the watcher is then
\* started from the built cursor; later it goes on where it was.
BuildPublish ==
  /\ pc = "buildSidecar"
  /\ disk' = [disk EXCEPT !.frns = "whole"]
  /\ view' = Fresh(disk')
  /\ pc' = "idle" /\ built' = NoBuild
  /\ IF watching = "off"
     THEN /\ watching' = "start"
          /\ cursor' = [id |-> built.id, next |-> built.next]
          /\ gap' = IF built.id = NoId THEN {"no cursor"} ELSE {}
     ELSE /\ gap' = (gap \cap {"journal replaced"}) \cup
                    (IF built.id \in {NoId, cursor.id} THEN {} ELSE {"journal replaced"})
          /\ UNCHANGED <<watching, cursor>>
  /\ UNCHANGED <<ntfsVars, startUsn, readUsn, chan, overflowed, batch, replayNext,
                 next, starts>>

\* A live rebuild failed: the error is logged and the worker goes on.
BuildFails ==
  /\ pc \in {"rebuild", "enumerate", "buildSidecar"} /\ watching # "off"
  /\ pc' = "idle" /\ built' = NoBuild
  /\ gap' = gap \cup {"rebuild failed"}
  /\ UNCHANGED <<ntfsVars, watcherVars, chan, overflowed, batch, replayNext,
                 next, view, disk, starts>>

-----------------------------------------------------------------------------
(* Startup, shutdown and crashes. *)

Start ==
  /\ pc = "down" /\ starts < MaxStarts
  /\ starts' = starts + 1
  /\ pc' = "boot"
  /\ UNCHANGED <<ntfsVars, watcherVars, chan, overflowed, batch, replayNext,
                 built, next, view, disk, gap>>

\* replay_journal: what the journal still holds from the snapshot's cursor on.
Replayed ==
  {c \in changes : c[1] = journal.id /\ c[2] >= disk.next /\ c[2] >= journal.first}

\* resume_view: the snapshot has a usable cursor, the journal still holds
\* everything after it, and replaying what it holds succeeds. The watcher
\* continues where the replay ended.
Resume ==
  /\ pc = "boot"
  /\ disk.id # NoId /\ ReplayCursorValid(disk.id, disk.next)
  /\ \E delta \in Applied(Fresh(disk), Replayed) :
       view' = [base |-> disk, delta |-> delta, next |-> journal.next]
  /\ cursor' = [id |-> journal.id, next |-> journal.next]
  /\ watching' = "start"
  /\ pc' = "idle"
  /\ UNCHANGED <<ntfsVars, startUsn, readUsn, chan, overflowed, batch, replayNext,
                 built, next, disk, starts, gap>>

\* No snapshot, a useless cursor, an error, or too long a replay.
ResumeRefused ==
  /\ pc = "boot"
  /\ pc' = "rebuild"
  /\ UNCHANGED <<ntfsVars, watcherVars, chan, overflowed, batch, replayNext,
                 built, next, view, disk, starts, gap>>

\* Everything in memory is gone. The view is kept only as a record of what
\* was last shown.
Down ==
  /\ pc' = "down" /\ watching' = "off" /\ cursor' = NoCursor
  /\ startUsn' = 0 /\ readUsn' = 0
  /\ chan' = <<>> /\ overflowed' = FALSE /\ BatchDone
  /\ built' = NoBuild /\ next' = EmptyView
  /\ UNCHANGED <<ntfsVars, view, starts>>

\* The process dies, or gives the volume up when its first build fails.
Crash ==
  /\ pc # "down"
  /\ Down
  /\ UNCHANGED <<disk, gap>>

\* The shutdown handler persists the published view, whatever the worker is
\* doing, and exits; it may get as far as the snapshot or its sidecar.
Shutdown ==
  /\ Serving /\ NeedsPersist(view)
  /\ \E frns \in {"missing", MergedFrns(view)} :
       /\ disk' = [SnapshotOf(view) EXCEPT !.frns = frns]
       /\ gap' = gap \cup Lossy(frns)
  /\ Down

-----------------------------------------------------------------------------
Ntfs == FsChange \/ JournalAges \/ JournalReplaced

Watcher == WatchStart \/ WatchRead \/ WatchSend \/ WatchAdvance

Worker ==
  \/ Receive \/ DrainTimeout \/ TakeOverflow
  \/ ApplyBatch \/ NeedsFullReindex
  \/ CompactSnapshot \/ CompactSidecar
  \/ BuildCursor \/ BuildSnapshot \/ BuildPublish
  \/ Resume

Failures == WatchFails \/ CompactFails \/ BuildFails \/ ResumeRefused \/ Crash

Next == Ntfs \/ Watcher \/ Worker \/ Failures \/ IdlePersist \/ Start \/ Shutdown

Spec == Init /\ [][Next]_vars

\* Both threads are scheduled; a read or a resume that cannot succeed fails.
Fairness ==
  /\ WF_vars(Watcher)
  /\ WF_vars(Worker)
  /\ WF_vars(WatchFails /\ ~(cursor.id = journal.id /\ journal.first <= startUsn))
  /\ WF_vars(ResumeRefused)

LiveSpec == Spec /\ Fairness

-----------------------------------------------------------------------------
(* Properties. *)

Frns == {"whole", "missing", "partial"}
Base == [covered : SUBSET changes, id : Nat, next : Nat, frns : Frns]
View == [base : Base, delta : SUBSET changes, next : Nat]

Messages == [kind : {"change", "ignored", "advanced"}, usn : Nat]

NtfsTypes ==
  /\ journal \in [id : Nat, first : Nat, next : Nat]
  /\ changes \subseteq Nat \X Nat

WatcherTypes ==
  /\ watching \in {"off", "start", "read", "send", "dead"}
  /\ cursor \in [id : Nat, next : Nat]
  /\ startUsn \in Nat /\ readUsn \in Nat
  /\ chan \in Seq(Messages)
  /\ Len(chan) <= Capacity
  /\ overflowed \in BOOLEAN

WorkerTypes ==
  /\ pc \in {"down", "boot", "idle", "drain", "swap", "apply", "compact",
             "sidecar", "rebuild", "enumerate", "buildSidecar"}
  /\ batch \subseteq changes
  /\ replayNext \in Nat \cup {NoUsn}
  /\ starts \in Nat
  /\ gap \subseteq {"rebuild failed", "journal replaced", "partial sidecar", "no cursor"}

ViewTypes ==
  /\ built \in [id : Nat, next : Nat, seen : SUBSET changes]
  /\ next \in View /\ view \in View /\ disk \in Base

\* Type correctness; everything a batch, a view or a snapshot mentions has
\* happened on the volume, and the channel holds no more than it can.
TypeOK == NtfsTypes /\ WatcherTypes /\ WorkerTypes /\ ViewTypes

\* The published view never claims, by its cursor, a change it does not
\* reflect: not after drops, rebuilds behind a full channel, stale messages
\* or restarts. The exceptions are the known leaks.
ViewCoversCursor ==
  gap = {} => Before(view.base.id, view.next) \subseteq Covered(view)

\* Nor does the snapshot on disk, so a restart that replays from its cursor
\* misses nothing, wherever the crash fell.
SnapshotCoversCursor ==
  gap = {} => Before(disk.id, disk.next) \subseteq disk.covered

\* Where a change the watcher has read can be: shown, on its way, or to be
\* picked up by the rebuild that the worker owes or is doing.
Queued(c) == \E i \in 1 .. Len(chan) : chan[i] = Message("change", c[2])
Rebuilding(c) ==
  \/ pc = "rebuild"
  \/ pc \in {"enumerate", "buildSidecar"} /\ c \in built.seen
Safe(c) ==
  c \in Covered(view) \/ c \in batch \/ overflowed \/ Rebuilding(c)
    \/ (pc \in {"compact", "sidecar"} /\ c \in Covered(next))

\* Nothing falls between the journal and the index: a change of the watched
\* journal that the watcher has passed is queued or safe.
NothingDropped ==
  gap = {} /\ watching \in {"read", "send", "dead"} =>
    \A c \in changes :
      c[1] = cursor.id /\ c[2] < startUsn => Safe(c) \/ Queued(c)

\* The abstract index is what the last published view covers: once shown, a
\* change stays shown, through compaction, rebuild, crash and replay, unless
\* a partial sidecar has been written and not yet been rebuilt.
Index == INSTANCE VisibleIndex
  WITH shown <- Covered(view), lossy <- "partial sidecar" \in gap
ImplementsIndex == Index!Spec

\* Every change becomes visible while the daemon and its watcher are up,
\* unless a known leak has happened.
EventuallyVisible ==
  \A id \in DOMAIN MaxUsn : \A usn \in 0 .. MaxUsn[id] - 1 :
    (<<id, usn>> \in changes) ~>
      \/ <<id, usn>> \in Covered(view)
      \/ gap # {} \/ watching = "dead" \/ pc = "down"

\* What the code's own words promise and it does not do.

\* After a compaction every live record resolves through the sidecar.
SidecarResolvesEveryRecord == disk.frns # "partial"
=============================================================================
