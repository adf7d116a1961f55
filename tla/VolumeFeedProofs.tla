-------------------------- MODULE VolumeFeedProofs --------------------------
(***************************************************************************)
(* VolumeFeed is well typed, and loses no change without a trace: for      *)
(* every channel capacity, number of journal records, journals and daemon  *)
(* starts; and it implements VisibleIndex. The types come first, with one  *)
(* lemma for each group of variables and one step for each action that     *)
(* disturbs it; then the changes; then the refinement.                     *)
(***************************************************************************)
EXTENDS VolumeFeed, SequenceTheorems, TLAPS

\* A change lies behind the end of the journal it was made in.
Made(c) ==
  /\ 1 <= c[1]
  /\ c[1] < journal.id \/ (c[1] = journal.id /\ c[2] < journal.next)

\* Journals are numbered from 1, and no change lies ahead of its journal.
JournalOK ==
  /\ 1 <= journal.id
  /\ \A c \in changes : Made(c)

\* A batch exists only while it is drained, checked for overflow or applied.
BatchOK ==
  pc \notin {"drain", "swap", "apply"} => batch = {} /\ replayNext = NoUsn

\* The channel is empty and unflagged until the watcher has run; the watcher is
\* off exactly as long as startup has not published a view; and a watcher that
\* has not opened the journal yet leaves its worker nothing to rebuild from.
StartOK ==
  /\ watching \in {"off", "start"} => chan = <<>> /\ overflowed = FALSE /\ startUsn = 0
  /\ watching = "off" => pc \in {"down", "boot", "rebuild", "enumerate", "buildSidecar"}
  /\ watching = "start" => pc \in {"idle", "compact", "sidecar"}
  /\ pc \in {"down", "boot"} => watching = "off"

\* A message that reports a change reports one that was made.
ChanOK ==
  \A i \in 1 .. Len(chan) :
    chan[i].kind = "change" => <<cursor.id, chan[i].usn>> \in changes

\* The inductive invariant behind TypeOK.
Shape == TypeOK /\ JournalOK /\ BatchOK /\ StartOK /\ ChanOK

-----------------------------------------------------------------------------
\* No step of the daemon writes the volume's journal.
LEMMA NtfsFrame ==
  Watcher \/ Worker \/ Failures \/ IdlePersist \/ Start \/ Shutdown => UNCHANGED ntfsVars
<1>1. Watcher => UNCHANGED ntfsVars
  BY DEF Watcher, WatchStart, WatchRead, WatchSend, WatchAdvance
<1>2. Worker => UNCHANGED ntfsVars
  BY DEF Worker, Receive, DrainTimeout, TakeOverflow, ApplyBatch, NeedsFullReindex,
         CompactSnapshot, CompactSidecar, BuildCursor, BuildSnapshot, BuildPublish, Resume
<1>3. Failures => UNCHANGED ntfsVars
  BY DEF Failures, WatchFails, CompactFails, BuildFails, ResumeRefused, Crash, Down, ntfsVars
<1> QED  BY <1>1, <1>2, <1>3 DEF IdlePersist, Start, Shutdown, Down, ntfsVars

\* The journal's part of the invariant is kept, and changes are never unmade.
LEMMA NtfsStep ==
  ASSUME NtfsTypes, JournalOK, [Next]_vars
  PROVE  NtfsTypes' /\ JournalOK' /\ changes \subseteq changes'
<1>1. CASE FsChange
  <2>1. /\ journal' \in [id : Nat, first : Nat, next : Nat]
        /\ journal'.id = journal.id /\ journal'.next = journal.next + 1
    BY <1>1 DEF FsChange, NtfsTypes
  <2>2. changes' \subseteq changes \cup {<<journal.id, journal.next>>} /\ changes \subseteq changes'
    BY <1>1 DEF FsChange
  <2>3. journal.id \in Nat /\ journal.next \in Nat /\ 1 <= journal.id
    BY DEF NtfsTypes, JournalOK
  <2>4. ASSUME NEW c \in {<<journal.id, journal.next>>}
        PROVE  c \in Nat \X Nat /\ Made(c)'
    BY <2>1, <2>3 DEF Made
  <2>5. \A c \in changes : Made(c)'
    BY <2>1 DEF NtfsTypes, JournalOK, Made
  <2>6. NtfsTypes'
    BY <2>1, <2>2, <2>4 DEF NtfsTypes
  <2>7. JournalOK'
    BY <2>1, <2>2, <2>3, <2>4, <2>5 DEF JournalOK
  <2> QED  BY <2>2, <2>6, <2>7
<1>2. CASE JournalAges
  <2>1. /\ journal' \in [id : Nat, first : Nat, next : Nat]
        /\ journal'.id = journal.id /\ journal'.next = journal.next
    BY <1>2 DEF JournalAges, NtfsTypes
  <2>2. changes' = changes
    BY <1>2 DEF JournalAges
  <2> QED  BY <2>1, <2>2 DEF NtfsTypes, JournalOK, Made
<1>3. CASE JournalReplaced
  <2>1. /\ journal' \in [id : Nat, first : Nat, next : Nat]
        /\ journal'.id = journal.id + 1
    BY <1>3 DEF JournalReplaced, NtfsTypes
  <2>2. changes' = changes
    BY <1>3 DEF JournalReplaced
  <2>3. \A c \in changes : Made(c)'
    BY <2>1 DEF NtfsTypes, JournalOK, Made
  <2> QED  BY <2>1, <2>2, <2>3 DEF NtfsTypes, JournalOK
<1>4. CASE UNCHANGED ntfsVars
  BY <1>4 DEF ntfsVars, NtfsTypes, JournalOK, Made
<1> QED
  BY <1>1, <1>2, <1>3, <1>4, NtfsFrame DEF Next, Ntfs, vars, ntfsVars

-----------------------------------------------------------------------------
\* The steps that leave the watcher and the channel alone.
LEMMA WatcherFrame ==
  \/ Ntfs \/ IdlePersist \/ Start
  \/ DrainTimeout \/ ApplyBatch \/ NeedsFullReindex \/ CompactSnapshot \/ CompactSidecar
  \/ BuildCursor \/ BuildSnapshot
  \/ CompactFails \/ BuildFails \/ ResumeRefused
  \/ UNCHANGED vars
  => UNCHANGED <<watching, cursor, startUsn, readUsn, chan, overflowed>>
<1>1. Ntfs => UNCHANGED <<watching, cursor, startUsn, readUsn, chan, overflowed>>
  BY DEF Ntfs, FsChange, JournalAges, JournalReplaced, daemonVars, watcherVars
<1>2. \/ DrainTimeout \/ ApplyBatch \/ NeedsFullReindex \/ CompactSnapshot \/ CompactSidecar
      \/ BuildCursor \/ BuildSnapshot
      => UNCHANGED <<watching, cursor, startUsn, readUsn, chan, overflowed>>
  BY DEF DrainTimeout, ApplyBatch, NeedsFullReindex, CompactSnapshot, CompactSidecar,
         BuildCursor, BuildSnapshot, watcherVars
<1> QED
  BY <1>1, <1>2 DEF IdlePersist, Start, CompactFails, BuildFails, ResumeRefused, vars, watcherVars

\* What try_send does to the channel: it stays within its capacity, keeps what it
\* held, and holds at most the one message more.
LEMMA TrySendStep ==
  ASSUME WatcherTypes, NEW m \in Messages, TrySend(m)
  PROVE  /\ chan' \in Seq(Messages) /\ Len(chan') <= Capacity
         /\ overflowed' \in BOOLEAN
         /\ \A i \in 1 .. Len(chan') :
              \/ i \in 1 .. Len(chan) /\ chan'[i] = chan[i]
              \/ i = Len(chan') /\ chan'[i] = m
<1>1. chan \in Seq(Messages) /\ Len(chan) <= Capacity /\ Len(chan) \in Nat
      /\ overflowed \in BOOLEAN /\ Capacity \in Nat
  BY CapacityAssumption DEF WatcherTypes
<1>2. CASE Len(chan) < Capacity
  <2>1. chan' = Append(chan, m) /\ overflowed' = overflowed
    BY <1>2 DEF TrySend
  <2>2. /\ Append(chan, m) \in Seq(Messages) /\ Len(Append(chan, m)) = Len(chan) + 1
        /\ \A i \in 1 .. Len(chan) : Append(chan, m)[i] = chan[i]
        /\ Append(chan, m)[Len(chan) + 1] = m
    BY <1>1, AppendProperties
  <2>3. \A i \in 1 .. Len(chan) + 1 : i \in 1 .. Len(chan) \/ i = Len(chan) + 1
    BY <1>1
  <2> QED  BY <1>1, <1>2, <2>1, <2>2, <2>3
<1>3. CASE ~(Len(chan) < Capacity)
  BY <1>1, <1>3 DEF TrySend
<1> QED  BY <1>2, <1>3

\* The watcher's part of the invariant is kept by every step.
LEMMA WatcherStep ==
  ASSUME Shape, [Next]_vars, changes \subseteq changes'
  PROVE  WatcherTypes' /\ ChanOK'
<1> USE DEF Shape, TypeOK
<1>1. CASE WatchStart
  <2>1. chan = <<>> /\ chan' = chan /\ overflowed' = overflowed /\ readUsn' = readUsn
        /\ watching' = "read"
    BY <1>1 DEF WatchStart, StartOK
  <2>2. cursor' \in [id : Nat, next : Nat] /\ startUsn' \in Nat
    BY <1>1 DEF WatchStart, WatcherTypes, NtfsTypes
  <2> QED  BY <2>1, <2>2 DEF WatcherTypes, ChanOK
<1>2. CASE WatchRead
  <2>1. readUsn' \in Nat
    BY <1>2 DEF WatchRead, WatcherTypes, NtfsTypes
  <2>2. watching' = "send" /\ UNCHANGED <<cursor, startUsn, chan, overflowed>>
    BY <1>2 DEF WatchRead
  <2> QED  BY <2>1, <2>2 DEF WatcherTypes, ChanOK
<1>3. CASE WatchSend
  <2> DEFINE kind == IF <<cursor.id, startUsn>> \in changes THEN "change" ELSE "ignored"
  <2>1. /\ UNCHANGED <<watching, cursor, readUsn>> /\ startUsn' = startUsn + 1
        /\ TrySend(Message(kind, startUsn))
    BY <1>3 DEF WatchSend
  <2>2. startUsn \in Nat /\ startUsn' \in Nat /\ Message(kind, startUsn) \in Messages
    BY <2>1 DEF WatcherTypes, Message, Messages
  <2>3. ASSUME NEW m \in Messages, m = Message(kind, startUsn), TrySend(m)
        PROVE  WatcherTypes' /\ ChanOK'
    <3>1. /\ chan' \in Seq(Messages) /\ Len(chan') <= Capacity
          /\ overflowed' \in BOOLEAN
          /\ \A i \in 1 .. Len(chan') :
               \/ i \in 1 .. Len(chan) /\ chan'[i] = chan[i]
               \/ i = Len(chan') /\ chan'[i] = m
      BY <2>3, TrySendStep
    <3>2. WatcherTypes'
      BY <2>1, <2>2, <3>1 DEF WatcherTypes
    <3>3. m.kind = "change" => <<cursor.id, m.usn>> \in changes
      BY <2>3 DEF Message
    <3> QED  BY <2>1, <3>1, <3>2, <3>3 DEF ChanOK
  <2> QED  BY <2>1, <2>2, <2>3
<1>4. CASE WatchAdvance
  <2>1. /\ UNCHANGED <<cursor, startUsn, readUsn>> /\ watching' = "read"
        /\ TrySend(Message("advanced", readUsn))
    BY <1>4 DEF WatchAdvance
  <2>2. Message("advanced", readUsn) \in Messages
    BY DEF WatcherTypes, Message, Messages
  <2>3. ASSUME NEW m \in Messages, m = Message("advanced", readUsn), TrySend(m)
        PROVE  WatcherTypes' /\ ChanOK'
    <3>1. /\ chan' \in Seq(Messages) /\ Len(chan') <= Capacity
          /\ overflowed' \in BOOLEAN
          /\ \A i \in 1 .. Len(chan') :
               \/ i \in 1 .. Len(chan) /\ chan'[i] = chan[i]
               \/ i = Len(chan') /\ chan'[i] = m
      BY <2>3, TrySendStep
    <3>2. WatcherTypes'
      BY <2>1, <3>1 DEF WatcherTypes
    <3>3. m.kind # "change"
      BY <2>3 DEF Message
    <3> QED  BY <2>1, <3>1, <3>2, <3>3 DEF ChanOK
  <2> QED  BY <2>1, <2>2, <2>3
<1>5. CASE WatchFails
  BY <1>5 DEF WatchFails, WatcherTypes, ChanOK
<1>6. CASE Receive
  <2>1. chan # <<>> /\ chan' = Tail(chan) /\ UNCHANGED <<watching, cursor, startUsn, readUsn, overflowed>>
    BY <1>6 DEF Receive, watcherVars
  <2>2. chan \in Seq(Messages) /\ Len(chan) \in Nat /\ Capacity \in Nat
    BY CapacityAssumption DEF WatcherTypes
  <2>3. /\ Tail(chan) \in Seq(Messages) /\ Len(Tail(chan)) = Len(chan) - 1
        /\ \A i \in 1 .. Len(Tail(chan)) : Tail(chan)[i] = chan[i + 1]
    BY <2>1, <2>2, HeadTailProperties
  <2>4. WatcherTypes'
    BY <2>1, <2>2, <2>3 DEF WatcherTypes
  <2>5. \A i \in 1 .. Len(chan') : i + 1 \in 1 .. Len(chan) /\ chan'[i] = chan[i + 1]
    BY <2>1, <2>2, <2>3
  <2> QED  BY <2>1, <2>4, <2>5 DEF ChanOK
<1>7. CASE TakeOverflow
  <2>1. overflowed' = FALSE /\ UNCHANGED <<watching, cursor, startUsn, readUsn, chan>>
    BY <1>7 DEF TakeOverflow, watcherVars
  <2> QED  BY <2>1 DEF WatcherTypes, ChanOK
<1>8. CASE BuildPublish \/ Resume
  <2>1. built.id \in Nat /\ built.next \in Nat /\ journal.id \in Nat /\ journal.next \in Nat
    BY DEF ViewTypes, NtfsTypes
  <2>2. CASE BuildPublish
    <3>1. \/ watching = "off" /\ watching' = "start" /\ cursor' = [id |-> built.id, next |-> built.next]
          \/ UNCHANGED <<watching, cursor>>
      BY <2>2 DEF BuildPublish
    <3>2. UNCHANGED <<startUsn, readUsn, chan, overflowed>>
      BY <2>2 DEF BuildPublish
    <3>3. UNCHANGED cursor \/ chan = <<>>
      BY <3>1 DEF StartOK
    <3> QED  BY <2>1, <3>1, <3>2, <3>3 DEF WatcherTypes, ChanOK
  <2>3. CASE Resume
    <3>1. /\ cursor' = [id |-> journal.id, next |-> journal.next] /\ watching' = "start"
          /\ UNCHANGED <<startUsn, readUsn, chan, overflowed>> /\ chan = <<>>
      BY <2>3 DEF Resume, StartOK
    <3> QED  BY <2>1, <3>1 DEF WatcherTypes, ChanOK
  <2> QED  BY <1>8, <2>2, <2>3
<1>9. CASE Down
  <2>1. /\ watching' = "off" /\ cursor' = NoCursor /\ startUsn' = 0 /\ readUsn' = 0
        /\ chan' = <<>> /\ overflowed' = FALSE
    BY <1>9 DEF Down
  <2>2. NoCursor \in [id : Nat, next : Nat] /\ 0 <= Capacity
    BY CapacityAssumption DEF NoCursor, NoId
  <2>3. <<>> \in Seq(Messages) /\ Len(<<>>) = 0
    BY EmptySeq
  <2>4. WatcherTypes'
    BY <2>1, <2>2, <2>3 DEF WatcherTypes
  <2> QED  BY <2>1, <2>3, <2>4 DEF ChanOK
<1>10. CASE UNCHANGED <<watching, cursor, startUsn, readUsn, chan, overflowed>>
  BY <1>10 DEF WatcherTypes, ChanOK
<1> QED
  BY <1>1, <1>2, <1>3, <1>4, <1>5, <1>6, <1>7, <1>8, <1>9, <1>10, WatcherFrame
  DEF Next, Watcher, Worker, Failures, Crash, Shutdown

-----------------------------------------------------------------------------
\* A delta grows by no more than the batch, and by all of it unless the sidecar is
\* partial: the one case in which a deletion that finds nothing is taken for done.
LEMMA AppliedBounds ==
  ASSUME NEW v \in View, NEW events \in SUBSET changes, NEW delta \in Applied(v, events)
  PROVE  /\ v.delta \subseteq delta /\ delta \subseteq v.delta \cup events
         /\ v.base.frns # "partial" => delta = v.delta \cup events
<1>1. v.base.frns \in Frns
  BY DEF View, Base
<1>2. CASE v.base.frns = "whole"
  BY <1>2 DEF Applied
<1>3. CASE v.base.frns = "partial"
  BY <1>3 DEF Applied
<1>4. CASE v.base.frns = "missing"
  <2>1. Applied(v, events) = IF events = {} THEN {v.delta} ELSE {}
    BY <1>4 DEF Applied
  <2> QED  BY <2>1, <1>4
<1> QED  BY <1>1, <1>2, <1>3, <1>4 DEF Frns

\* A reopened snapshot is a view.
LEMMA FreshTypes ==
  ASSUME NEW base \in Base PROVE Fresh(base) \in View
BY DEF Fresh, View, Base

\* What compaction writes of a view is a snapshot.
LEMMA SnapshotTypes ==
  ASSUME NEW v \in View
  PROVE  SnapshotOf(v) \in Base /\ MergedFrns(v) \in Frns
BY DEF SnapshotOf, MergedFrns, Covered, View, Base, Frns

\* The initial view, snapshot and build are well typed.
LEMMA EmptyTypes ==
  /\ NoSnapshot \in Base /\ EmptyView \in View
  /\ NoBuild \in [id : Nat, next : Nat, seen : SUBSET changes]
<1>1. NoSnapshot \in Base
  BY DEF NoSnapshot, Base, Frns, NoId
<1>2. EmptyView \in View
  BY <1>1 DEF EmptyView, View
<1> QED  BY <1>1, <1>2 DEF NoBuild, NoId

\* The steps that leave the views and the snapshot alone.
LEMMA ViewFrame ==
  \/ Ntfs \/ Watcher \/ Start \/ ResumeRefused \/ WatchFails
  \/ Receive \/ DrainTimeout \/ TakeOverflow \/ NeedsFullReindex \/ UNCHANGED vars
  => UNCHANGED <<built, next, view, disk>>
<1>1. Ntfs => UNCHANGED <<built, next, view, disk>>
  BY DEF Ntfs, FsChange, JournalAges, JournalReplaced, daemonVars
<1>2. Watcher \/ WatchFails => UNCHANGED <<built, next, view, disk>>
  BY DEF Watcher, WatchStart, WatchRead, WatchSend, WatchAdvance, WatchFails, workerVars
<1> QED
  BY <1>1, <1>2 DEF Start, ResumeRefused, Receive, DrainTimeout, TakeOverflow,
                    NeedsFullReindex, vars

\* The views' and the snapshot's part of the invariant is kept by every step.
LEMMA ViewStep ==
  ASSUME Shape, [Next]_vars, changes \subseteq changes'
  PROVE  ViewTypes'
<1> USE DEF Shape, TypeOK
<1>1. ASSUME NEW b \in [id : Nat, next : Nat, seen : SUBSET changes], NEW n \in View,
             NEW v \in View, NEW d \in Base,
             built' = b, next' = n, view' = v, disk' = d
      PROVE  ViewTypes'
  <2>1. d \in Base' /\ \A x \in Base : x \in Base'
    BY DEF Base
  <2>2. v \in View' /\ n \in View'
    BY <2>1 DEF View
  <2> QED  BY <1>1, <2>1, <2>2 DEF ViewTypes
<1>2. /\ built \in [id : Nat, next : Nat, seen : SUBSET changes] /\ next \in View
      /\ view \in View /\ disk \in Base
      /\ view.base \in Base /\ view.delta \subseteq changes /\ view.next \in Nat
      /\ journal.id \in Nat /\ journal.next \in Nat
      /\ batch \subseteq changes /\ replayNext \in Nat \cup {NoUsn}
  BY DEF ViewTypes, View, NtfsTypes, WorkerTypes
<1>3. CASE ApplyBatch
  <2>1. PICK delta \in Applied(view, batch) :
          LET v == [view EXCEPT !.delta = delta,
                                !.next = IF replayNext = NoUsn THEN @ ELSE replayNext]
          IN \/ view' = v /\ UNCHANGED next
             \/ next' = v /\ UNCHANGED view
    BY <1>3 DEF ApplyBatch
  <2>2. delta \subseteq changes
    BY <1>2, <2>1, AppliedBounds
  <2>3. [view EXCEPT !.delta = delta,
                     !.next = IF replayNext = NoUsn THEN @ ELSE replayNext] \in View
    BY <1>2, <2>2 DEF View, NoUsn
  <2>4. UNCHANGED <<built, disk>>
    BY <1>3 DEF ApplyBatch
  <2> QED  BY <1>1, <1>2, <2>1, <2>3, <2>4
<1>4. CASE IdlePersist
  BY <1>1, <1>2, <1>4 DEF IdlePersist
<1>5. CASE CompactSnapshot
  BY <1>1, <1>2, <1>5, SnapshotTypes DEF CompactSnapshot
<1>6. CASE CompactSidecar
  <2>1. disk' \in Base
    BY <1>2, <1>6, SnapshotTypes DEF CompactSidecar, Base
  <2>2. Fresh(disk') \in View
    BY <2>1, FreshTypes
  <2> QED  BY <1>1, <1>2, <1>6, <2>1, <2>2, EmptyTypes DEF CompactSidecar
<1>7. CASE CompactFails
  BY <1>1, <1>2, <1>7, EmptyTypes DEF CompactFails
<1>8. CASE BuildCursor
  <2>1. built' \in [id : Nat, next : Nat, seen : SUBSET changes]
    BY <1>2, <1>8 DEF BuildCursor, NoId
  <2> QED  BY <1>1, <1>2, <1>8, <2>1 DEF BuildCursor
<1>9. CASE BuildSnapshot
  <2>1. PICK late \in SUBSET (changes \ built.seen) :
          disk' = [covered |-> built.seen \cup late, id |-> built.id,
                   next |-> built.next, frns |-> "missing"]
    BY <1>9 DEF BuildSnapshot
  <2>2. disk' \in Base
    BY <1>2, <2>1 DEF Base, Frns
  <2> QED  BY <1>1, <1>2, <1>9, <2>2 DEF BuildSnapshot
<1>10. CASE BuildPublish
  <2>1. disk' \in Base
    BY <1>2, <1>10 DEF BuildPublish, Base, Frns
  <2>2. Fresh(disk') \in View
    BY <2>1, FreshTypes
  <2> QED  BY <1>1, <1>2, <1>10, <2>1, <2>2, EmptyTypes DEF BuildPublish
<1>11. CASE BuildFails
  BY <1>1, <1>2, <1>11, EmptyTypes DEF BuildFails
<1>12. CASE Resume
  <2>1. PICK delta \in Applied(Fresh(disk), Replayed) :
          view' = [base |-> disk, delta |-> delta, next |-> journal.next]
    BY <1>12 DEF Resume
  <2>2. Fresh(disk) \in View /\ Fresh(disk).delta = {}
    BY <1>2, FreshTypes DEF Fresh
  <2>3. delta \subseteq changes
    BY <2>1, <2>2, AppliedBounds DEF Replayed
  <2>4. view' \in View
    BY <1>2, <2>1, <2>3 DEF View
  <2> QED  BY <1>1, <1>2, <1>12, <2>4 DEF Resume
<1>13. CASE Crash
  <2>1. built' = NoBuild /\ next' = EmptyView /\ UNCHANGED <<view, disk>>
    BY <1>13 DEF Crash, Down
  <2> QED  BY <1>1, <1>2, <2>1, EmptyTypes
<1>14. CASE Shutdown
  <2>1. built' = NoBuild /\ next' = EmptyView /\ UNCHANGED view
    BY <1>14 DEF Shutdown, Down
  <2>2. PICK frns \in {"missing", MergedFrns(view)} :
          disk' = [SnapshotOf(view) EXCEPT !.frns = frns]
    BY <1>14 DEF Shutdown
  <2>3. disk' \in Base
    BY <1>2, <2>2, SnapshotTypes DEF Base, Frns
  <2> QED  BY <1>1, <1>2, <2>1, <2>3, EmptyTypes
<1>15. CASE UNCHANGED <<built, next, view, disk>>
  BY <1>1, <1>2, <1>15
<1> QED
  BY <1>3, <1>4, <1>5, <1>6, <1>7, <1>8, <1>9, <1>10, <1>11, <1>12, <1>13, <1>14, <1>15,
     ViewFrame
  DEF Next, Worker, Failures

-----------------------------------------------------------------------------
\* The steps that leave the worker alone.
LEMMA WorkerFrame ==
  \/ Ntfs \/ WatchRead \/ WatchSend \/ WatchAdvance \/ UNCHANGED vars
  => UNCHANGED <<pc, batch, replayNext, starts, gap>>
<1>1. Ntfs => UNCHANGED <<pc, batch, replayNext, starts, gap>>
  BY DEF Ntfs, FsChange, JournalAges, JournalReplaced, daemonVars
<1> QED
  BY <1>1 DEF WatchRead, WatchSend, WatchAdvance, workerVars, vars

\* The worker's part of the invariant is kept by every step.
LEMMA WorkerStep ==
  ASSUME Shape, [Next]_vars, changes \subseteq changes'
  PROVE  WorkerTypes' /\ BatchOK' /\ StartOK'
<1> USE DEF Shape, TypeOK
<1>0. ASSUME \/ /\ pc' \in {"boot", "idle", "compact", "sidecar", "rebuild", "enumerate",
                              "buildSidecar", "down"}
                /\ batch' = {} /\ replayNext' = NoUsn
             \/ pc' \in {"drain", "swap", "apply"} /\ UNCHANGED <<batch, replayNext>>,
             starts' \in Nat,
             gap' \subseteq {"rebuild failed", "journal replaced", "partial sidecar", "no cursor"}
      PROVE  WorkerTypes' /\ BatchOK'
  BY <1>0 DEF WorkerTypes, BatchOK
<1>1. CASE WatchStart \/ WatchFails
  BY <1>1 DEF WatchStart, WatchFails, workerVars, WorkerTypes, BatchOK, StartOK
<1>2. CASE UNCHANGED <<pc, batch, replayNext, starts, gap>> /\ (Ntfs \/ WatchRead \/ WatchSend \/ WatchAdvance \/ UNCHANGED vars)
  <2>1. WorkerTypes' /\ BatchOK'
    BY <1>2 DEF WorkerTypes, BatchOK
  <2>2. StartOK' 
    BY <1>2, WatcherFrame DEF StartOK, WatchRead, WatchSend, WatchAdvance
  <2> QED  BY <2>1, <2>2
<1>3. CASE Receive
  <2>1. /\ pc \in {"idle", "drain"} /\ pc' = "drain" /\ chan # <<>>
        /\ UNCHANGED <<watching, startUsn, overflowed, starts, gap>>
        /\ batch' = IF Head(chan).kind = "change"
                      THEN batch \cup {<<cursor.id, Head(chan).usn>>} ELSE batch
        /\ replayNext' = IF Head(chan).kind = "advanced" THEN Head(chan).usn ELSE replayNext
    BY <1>3 DEF Receive, watcherVars
  <2>2. chan \in Seq(Messages)
    BY DEF WatcherTypes
  <2>3. Head(chan) \in Messages /\ Head(chan) = chan[1] /\ 1 \in 1 .. Len(chan)
    BY <2>1, <2>2, EmptySeq, HeadTailProperties
  <2>4. batch' \subseteq changes /\ replayNext' \in Nat \cup {NoUsn}
    BY <2>1, <2>3 DEF ChanOK, WorkerTypes, Messages
  <2>5. WorkerTypes' /\ BatchOK'
    BY <2>1, <2>4 DEF WorkerTypes, BatchOK
  <2> QED  BY <2>1, <2>5 DEF StartOK
<1>4. CASE DrainTimeout
  BY <1>4 DEF DrainTimeout, watcherVars, WorkerTypes, BatchOK, StartOK
<1>5. CASE TakeOverflow
  BY <1>5 DEF TakeOverflow, watcherVars, WorkerTypes, BatchOK, StartOK
<1>6. CASE ApplyBatch \/ NeedsFullReindex \/ IdlePersist
  BY <1>6 DEF ApplyBatch, NeedsFullReindex, IdlePersist, BatchDone, watcherVars,
              WorkerTypes, BatchOK, StartOK
<1>7. CASE CompactSnapshot \/ CompactSidecar \/ CompactFails
  BY <1>7 DEF CompactSnapshot, CompactSidecar, CompactFails, Lossy, watcherVars,
              WorkerTypes, BatchOK, StartOK
<1>8. CASE BuildCursor \/ BuildSnapshot \/ BuildFails
  BY <1>8 DEF BuildCursor, BuildSnapshot, BuildFails, watcherVars,
              WorkerTypes, BatchOK, StartOK
<1>9. CASE BuildPublish
  BY <1>9 DEF BuildPublish, WorkerTypes, BatchOK, StartOK
<1>10. CASE Start \/ ResumeRefused
  <2>1. /\ pc \in {"down", "boot"} /\ pc' \in {"boot", "rebuild"} /\ (starts' = starts \/ starts' = starts + 1)
        /\ UNCHANGED <<watching, startUsn, chan, overflowed, batch, replayNext, gap>>
    BY <1>10 DEF Start, ResumeRefused, watcherVars
  <2>2. batch' = {} /\ replayNext' = NoUsn
    BY <2>1 DEF BatchOK
  <2>3. starts' \in Nat
    <3>1. starts \in Nat
      BY DEF WorkerTypes
    <3> QED  BY <2>1, <3>1
  <2>4. WorkerTypes' /\ BatchOK'
    BY <1>0, <2>1, <2>2, <2>3 DEF WorkerTypes
  <2> QED  BY <2>1, <2>4 DEF StartOK
<1>11. CASE Resume
  BY <1>11 DEF Resume, WorkerTypes, BatchOK, StartOK
<1>12. CASE Crash \/ Shutdown
  <2>1. Down /\ gap' \subseteq gap \cup {"partial sidecar"}
    BY <1>12 DEF Crash, Shutdown, Lossy
  <2> QED  BY <2>1 DEF Down, BatchDone, WorkerTypes, BatchOK, StartOK
<1> QED
  BY <1>1, <1>2, <1>3, <1>4, <1>5, <1>6, <1>7, <1>8, <1>9, <1>10, <1>11, <1>12, WorkerFrame
  DEF Next, Watcher, Worker, Failures

-----------------------------------------------------------------------------
\* The daemon starts with the invariant.
LEMMA InitShape == Init => Shape
<1> SUFFICES ASSUME Init PROVE Shape
  OBVIOUS
<1>1. NtfsTypes /\ JournalOK
  BY DEF Init, NtfsTypes, JournalOK
<1>2. <<>> \in Seq(Messages) /\ Len(<<>>) = 0 /\ 0 <= Capacity
  BY EmptySeq, CapacityAssumption
<1>3. NoCursor \in [id : Nat, next : Nat]
  BY DEF NoCursor, NoId
<1>4. WatcherTypes
  BY <1>2, <1>3 DEF Init, WatcherTypes
<1>5. WorkerTypes
  BY DEF Init, WorkerTypes
<1>6. ViewTypes
  BY EmptyTypes DEF Init, ViewTypes
<1>7. BatchOK /\ StartOK /\ ChanOK
  BY <1>2 DEF Init, BatchOK, StartOK, ChanOK
<1> QED  BY <1>1, <1>4, <1>5, <1>6, <1>7 DEF Shape, TypeOK

\* Every step keeps the invariant.
LEMMA ShapeStep == Shape /\ [Next]_vars => Shape'
<1> SUFFICES ASSUME Shape, [Next]_vars PROVE Shape'
  OBVIOUS
<1>1. NtfsTypes' /\ JournalOK' /\ changes \subseteq changes'
  BY NtfsStep DEF Shape, TypeOK
<1> QED  BY <1>1, WatcherStep, WorkerStep, ViewStep DEF Shape, TypeOK

\* The inductive invariant holds throughout.
THEOREM ShapeAlways == Spec => []Shape
BY InitShape, ShapeStep, PTL DEF Spec

\* TypeOK: whatever the capacity and the number of records and restarts, the
\* channel never holds more than it can, and batches, views and snapshots only
\* ever reflect changes that were made (updates.rs, journal.rs, persistence.rs).
THEOREM TypeCorrect == Spec => []TypeOK
<1>1. Shape => TypeOK
  BY DEF Shape
<1> QED  BY <1>1, ShapeAlways, PTL

-----------------------------------------------------------------------------
(* The coverage properties. The argument follows a change from the journal *)
(* to the view. Positions never run ahead of the journal, so a cursor can  *)
(* only claim changes that exist. A claimed change is safe (in the view,   *)
(* the batch, the view being compacted, or owed to a rebuild) or queued in *)
(* front of the message that claims it. Each handover then keeps what is   *)
(* claimed: the watcher's start, each receive, the overflow check, the     *)
(* batch, the compaction, the rebuild, the snapshot and the replay.        *)

\* A position that the journal has reached, so that no later change can fall
\* below it.
NotAhead(id, usn) == id < journal.id \/ (id = journal.id /\ usn <= journal.next)

\* Every position the daemon holds is one the journal has reached.
PositionsOK ==
  /\ cursor.id <= journal.id
  /\ watching = "start" => NotAhead(cursor.id, cursor.next)
  /\ watching # "off" => NotAhead(cursor.id, startUsn)
  /\ watching = "send" => startUsn <= readUsn /\ NotAhead(cursor.id, readUsn)
  /\ \A i \in 1 .. Len(chan) : NotAhead(cursor.id, chan[i].usn)
  /\ NotAhead(cursor.id, replayNext)
  /\ pc \in {"enumerate", "buildSidecar"} => NotAhead(built.id, built.next)

\* A build sees what the view shows and what its cursor claims, and so does the
\* snapshot it saves.
BuildOK ==
  /\ pc \in {"enumerate", "buildSidecar"} =>
       Covered(view) \cup Before(built.id, built.next) \subseteq built.seen
  /\ pc = "buildSidecar" =>
       built.seen \subseteq disk.covered /\ disk.id = built.id /\ disk.next = built.next

\* A compaction keeps the base of the view it started from and loses nothing of
\* it, and its snapshot covers what it compacts.
CompactOK ==
  /\ pc \in {"compact", "sidecar"} =>
       next.base = view.base /\ Covered(view) \subseteq Covered(next)
  /\ pc = "sidecar" =>
       disk.covered = Covered(next) /\ disk.id = next.base.id /\ disk.next = next.next

\* A partial sidecar leaves its trace in the history.
FrnsOK ==
  "partial sidecar" \notin gap => disk.frns # "partial" /\ view.base.frns # "partial"

\* A view that reflects every change its cursor claims.
Honest(v) == NotAhead(v.base.id, v.next) /\ Before(v.base.id, v.next) \subseteq Covered(v)

\* The view, the snapshot and the view being compacted are honest.
HonestOK ==
  gap = {} =>
    /\ Honest(view) /\ Honest(Fresh(disk))
    /\ pc \in {"compact", "sidecar"} => Honest(next)

\* Either no known way to lose a change has happened, or a rebuild is under way
\* that makes up for what was lost.
Certain == gap = {} \/ pc \in {"rebuild", "enumerate", "buildSidecar"}
\* The changes of the journal that the watcher reads.
Watched == {c \in changes : c[1] = cursor.id}

\* What is claimed at each handover: when the watcher starts, the changes below its
\* cursor are safe; when the worker has received an "advanced" message, those
\* below its position are; and when the batch is applied without an overflow,
\* they are in the view or in the batch.
Handover ==
  /\ watching # "off" => view.base.id \in {NoId, cursor.id}
  /\ watching = "start" => cursor.id # NoId /\ \A c \in Watched : c[2] < cursor.next => Safe(c)
  /\ pc \in {"drain", "swap"} => \A c \in Watched : c[2] < replayNext => Safe(c)
  /\ pc = "apply" =>
       \A c \in Watched : c[2] < replayNext => c \in Covered(view) \cup batch

\* The handovers lose nothing.
HandoverOK == gap = {} => Handover

\* A change reported by a message in front of the i-th.
QueuedBefore(c, i) == \E j \in 1 .. i - 1 : chan[j] = Message("change", c[2])

\* A watched change that was passed by the watcher is safe or queued, and so is a
\* change below the position of any message, in front of that message.
QueueOK ==
  Certain /\ watching # "off" =>
    \A c \in Watched :
      /\ c[2] < startUsn => Safe(c) \/ Queued(c)
      /\ \A i \in 1 .. Len(chan) : c[2] < chan[i].usn => Safe(c) \/ QueuedBefore(c, i)

\* The inductive invariant behind the coverage properties.
Coverage ==
  PositionsOK /\ BuildOK /\ CompactOK /\ FrnsOK /\ HonestOK /\ HandoverOK /\ QueueOK

-----------------------------------------------------------------------------
\* Consequences of Shape that the proofs use, field by field.
LEMMA Fields ==
  ASSUME Shape
  PROVE  /\ journal.id \in Nat /\ journal.first \in Nat /\ journal.next \in Nat /\ 1 <= journal.id
         /\ cursor.id \in Nat /\ cursor.next \in Nat /\ startUsn \in Nat /\ readUsn \in Nat
         /\ replayNext \in Int /\ built.id \in Nat /\ built.next \in Nat
         /\ Len(chan) \in Nat /\ \A i \in 1 .. Len(chan) : chan[i] \in Messages /\ chan[i].usn \in Nat
         /\ \A c \in changes : c \in Nat \X Nat /\ c[1] \in Nat /\ c[2] \in Nat /\ 1 <= c[1]
<1> USE DEF Shape, TypeOK
<1>1. /\ journal.id \in Nat /\ journal.first \in Nat /\ journal.next \in Nat /\ 1 <= journal.id
      /\ \A c \in changes : c \in Nat \X Nat /\ c[1] \in Nat /\ c[2] \in Nat /\ 1 <= c[1]
  BY DEF NtfsTypes, JournalOK, Made
<1>2. /\ cursor.id \in Nat /\ cursor.next \in Nat /\ startUsn \in Nat /\ readUsn \in Nat
      /\ chan \in Seq(Messages)
  BY DEF WatcherTypes
<1>3. replayNext \in Int
  <2>1. replayNext \in Nat \cup {NoUsn}
    BY DEF WorkerTypes
  <2> QED  BY <2>1 DEF NoUsn
<1>4. built.id \in Nat /\ built.next \in Nat
  BY DEF ViewTypes
<1>5. Len(chan) \in Nat /\ \A i \in 1 .. Len(chan) : chan[i] \in Messages
  BY <1>2, LenProperties, ElementOfSeq
<1> QED  BY <1>1, <1>2, <1>3, <1>4, <1>5 DEF Messages

\* The same for the views and the snapshot.
LEMMA ViewFields ==
  ASSUME Shape
  PROVE  /\ view \in View /\ view.base \in Base /\ view.base.id \in Nat /\ view.next \in Nat
         /\ next \in View /\ next.base \in Base /\ next.base.id \in Nat /\ next.next \in Nat
         /\ disk \in Base /\ disk.id \in Nat /\ disk.next \in Nat
         /\ Covered(view) \subseteq changes
BY DEF Shape, TypeOK, ViewTypes, View, Base, Covered

\* The volume's own steps add nothing below a position that was reached.
LEMMA JournalMoves ==
  ASSUME Shape, Ntfs
  PROVE  /\ UNCHANGED daemonVars /\ changes \subseteq changes'
         /\ \A id \in Nat, usn \in Int : NotAhead(id, usn) =>
              NotAhead(id, usn)' /\ Before(id, usn)' = Before(id, usn)
<1>1. journal.id \in Nat /\ journal.next \in Nat
  BY Fields
<1>2. /\ \/ journal'.id = journal.id /\ journal'.next >= journal.next
         \/ journal'.id = journal.id + 1
      /\ journal'.next \in Nat
      /\ changes \subseteq changes' /\ changes' \subseteq changes \cup {<<journal.id, journal.next>>}
  <2>1. CASE FsChange
    BY <2>1, <1>1 DEF FsChange, Shape, TypeOK, NtfsTypes
  <2>2. CASE JournalAges
    BY <2>2, <1>1 DEF JournalAges, Shape, TypeOK, NtfsTypes
  <2>3. CASE JournalReplaced
    BY <2>3, <1>1 DEF JournalReplaced, Shape, TypeOK, NtfsTypes
  <2> QED  BY <2>1, <2>2, <2>3 DEF Ntfs
<1>3. ASSUME NEW id \in Nat, NEW usn \in Int, NotAhead(id, usn)
      PROVE  NotAhead(id, usn)' /\ Before(id, usn)' = Before(id, usn)
  <2>1. NotAhead(id, usn)'
    BY <1>1, <1>2, <1>3 DEF NotAhead
  <2>2. ~(journal.id < id \/ (journal.id = id /\ journal.next < usn))
    BY <1>1, <1>3 DEF NotAhead
  <2>3. \A c \in {<<journal.id, journal.next>>} : c[1] = journal.id /\ c[2] = journal.next
    OBVIOUS
  <2> QED  BY <1>2, <2>1, <2>2, <2>3 DEF Before
<1>4. UNCHANGED daemonVars
  BY DEF Ntfs, FsChange, JournalAges, JournalReplaced
<1> QED  BY <1>2, <1>3, <1>4

\* Every step keeps the positions behind the journal's end.
LEMMA PositionsStep ==
  ASSUME Shape, PositionsOK, [Next]_vars
  PROVE  PositionsOK'
<1>0. /\ journal.id \in Nat /\ journal.next \in Nat /\ 1 <= journal.id
      /\ cursor.id \in Nat /\ cursor.next \in Nat /\ startUsn \in Nat /\ readUsn \in Nat
      /\ replayNext \in Int /\ built.id \in Nat /\ built.next \in Nat
      /\ Len(chan) \in Nat /\ \A i \in 1 .. Len(chan) : chan[i].usn \in Nat
  BY Fields
<1>1. CASE Ntfs
  <2>1. /\ UNCHANGED <<watching, cursor, startUsn, readUsn, chan, replayNext, pc, built>>
        /\ \A id \in Nat, usn \in Int : NotAhead(id, usn) => NotAhead(id, usn)'
    BY <1>1, JournalMoves DEF daemonVars, watcherVars
  <2>2. (cursor.id <= journal.id)'
    <3>1. cursor.id <= journal.id
      BY DEF PositionsOK
    <3>2. journal.id <= journal'.id
      BY <1>0, <1>1 DEF Ntfs, FsChange, JournalAges, JournalReplaced, Shape, TypeOK, NtfsTypes
    <3>3. cursor' = cursor /\ journal'.id \in Nat
      BY <1>1, <2>1, NtfsStep DEF Shape, TypeOK, NtfsTypes
    <3> QED  BY <1>0, <3>1, <3>2, <3>3
  <2>3. /\ watching' = "start" => NotAhead(cursor.id, cursor.next)'
        /\ watching' # "off" => NotAhead(cursor.id, startUsn)'
        /\ watching' = "send" => startUsn' <= readUsn' /\ NotAhead(cursor.id, readUsn)'
    BY <1>0, <2>1 DEF PositionsOK, NotAhead
  <2>4. (\A i \in 1 .. Len(chan) : NotAhead(cursor.id, chan[i].usn))'
    BY <1>0, <2>1 DEF PositionsOK, NotAhead
  <2>5. /\ NotAhead(cursor.id, replayNext)'
        /\ pc' \in {"enumerate", "buildSidecar"} => NotAhead(built.id, built.next)'
    BY <1>0, <2>1 DEF PositionsOK, NotAhead
  <2> QED  BY <2>2, <2>3, <2>4, <2>5 DEF PositionsOK
<1>2. CASE WatchStart
  <2>1. /\ UNCHANGED <<journal, chan, replayNext, pc, built>> /\ chan = <<>> /\ watching' = "read"
        /\ \/ cursor'.id = journal.id /\ startUsn' = journal.next
           \/ cursor' = cursor /\ startUsn' = cursor.next /\ cursor.next <= journal.next
              /\ cursor.id = journal.id
    BY <1>2 DEF WatchStart, Shape, StartOK, ntfsVars, workerVars, ReplayCursorValid
  <2>2. replayNext = NoUsn
    BY <1>2 DEF WatchStart, Shape, StartOK, BatchOK
  <2> QED  BY <1>0, <2>1, <2>2, EmptySeq DEF PositionsOK, NotAhead, NoUsn
<1>3. CASE WatchRead
  <2>1. /\ UNCHANGED <<journal, cursor, startUsn, chan, replayNext, pc, built>>
        /\ cursor.id = journal.id /\ readUsn' \in startUsn + 1 .. journal.next
        /\ watching = "read" /\ watching' = "send"
    BY <1>3 DEF WatchRead, ntfsVars, workerVars
  <2> QED  BY <1>0, <2>1 DEF PositionsOK, NotAhead
<1>4. CASE WatchSend \/ WatchAdvance
  <2>1. /\ UNCHANGED <<journal, cursor, readUsn, replayNext, pc, built>> /\ watching = "send"
        /\ watching' \in {"read", "send"}
        /\ \/ startUsn < readUsn /\ startUsn' = startUsn + 1
           \/ startUsn' = startUsn
    BY <1>4 DEF WatchSend, WatchAdvance, ntfsVars, workerVars
  <2>2. \E kind \in {"change", "ignored", "advanced"}, usn \in Nat :
          usn <= readUsn /\ TrySend(Message(kind, usn))
    BY <1>0, <1>4 DEF WatchSend, WatchAdvance
  <2>3. PICK kind \in {"change", "ignored", "advanced"}, usn \in Nat :
          usn <= readUsn /\ TrySend(Message(kind, usn))
    BY <2>2
  <2>4. PICK m \in Messages : m = Message(kind, usn)
    BY DEF Message, Messages
  <2>5. \A i \in 1 .. Len(chan') :
          \/ i \in 1 .. Len(chan) /\ chan'[i] = chan[i]
          \/ i = Len(chan') /\ chan'[i] = m
    BY <2>3, <2>4, TrySendStep DEF Shape, TypeOK
  <2>6. NotAhead(cursor.id, usn)
    BY <1>0, <2>1, <2>3 DEF PositionsOK, NotAhead
  <2>7. \A i \in 1 .. Len(chan') : NotAhead(cursor.id, chan'[i].usn)
    BY <2>4, <2>5, <2>6 DEF PositionsOK, Message
  <2> QED  BY <1>0, <2>1, <2>7 DEF PositionsOK, NotAhead
<1>5. CASE WatchFails
  BY <1>0, <1>5 DEF WatchFails, ntfsVars, workerVars, PositionsOK, NotAhead, Shape, StartOK
<1>6. CASE Receive
  <2>1. /\ chan # <<>> /\ chan' = Tail(chan) /\ pc' = "drain"
        /\ UNCHANGED <<journal, watching, cursor, startUsn, readUsn>>
        /\ replayNext' \in {replayNext, Head(chan).usn}
    BY <1>6 DEF Receive, watcherVars, ntfsVars
  <2>2. chan \in Seq(Messages)
    BY DEF Shape, TypeOK, WatcherTypes
  <2>3. /\ Len(Tail(chan)) = Len(chan) - 1 /\ Head(chan) = chan[1] /\ 1 \in 1 .. Len(chan)
        /\ \A i \in 1 .. Len(Tail(chan)) : Tail(chan)[i] = chan[i + 1]
    BY <2>1, <2>2, HeadTailProperties, EmptySeq
  <2>4. \A i \in 1 .. Len(chan') : i + 1 \in 1 .. Len(chan) /\ chan'[i] = chan[i + 1]
    BY <1>0, <2>1, <2>3
  <2>5. NotAhead(cursor.id, replayNext')
    BY <2>1, <2>3 DEF PositionsOK
  <2> QED  BY <2>1, <2>4, <2>5 DEF PositionsOK, NotAhead
<1>7. CASE BuildCursor
  BY <1>0, <1>7 DEF BuildCursor, ntfsVars, watcherVars, PositionsOK, NotAhead, NoId
<1>8. CASE BuildPublish \/ Resume
  <2>1. /\ UNCHANGED <<journal, startUsn, chan, replayNext>> /\ pc' = "idle"
        /\ \/ watching # "off" /\ UNCHANGED <<watching, cursor, readUsn>>
           \/ /\ watching = "off" /\ watching' = "start" /\ startUsn = 0 /\ chan = <<>>
              /\ \/ BuildPublish /\ cursor' = [id |-> built.id, next |-> built.next]
                 \/ Resume /\ cursor' = [id |-> journal.id, next |-> journal.next]
    BY <1>8 DEF BuildPublish, Resume, ntfsVars, Shape, StartOK
  <2>2. CASE watching # "off"
    BY <2>1, <2>2 DEF PositionsOK, NotAhead
  <2>3. CASE watching = "off"
    <3>1. pc \in {"boot", "buildSidecar"} /\ replayNext = NoUsn /\ (BuildPublish => pc = "buildSidecar")
      BY <1>8 DEF BuildPublish, Resume, Shape, BatchOK
    <3>2. \/ cursor'.id = built.id /\ cursor'.next = built.next /\ pc = "buildSidecar"
          \/ cursor'.id = journal.id /\ cursor'.next = journal.next
      BY <2>1, <2>3, <3>1
    <3>3. NotAhead(cursor'.id, cursor'.next)
      BY <1>0, <3>2 DEF PositionsOK, NotAhead
    <3> QED  BY <1>0, <2>1, <2>3, <3>1, <3>3, EmptySeq DEF PositionsOK, NotAhead, NoUsn
  <2> QED  BY <2>1, <2>2, <2>3
<1>9. CASE Down
  <2>1. /\ UNCHANGED journal /\ watching' = "off" /\ cursor' = NoCursor /\ chan' = <<>>
        /\ replayNext' = NoUsn /\ pc' = "down"
    BY <1>9 DEF Down, ntfsVars, BatchDone
  <2>2. Len(chan') = 0 /\ cursor'.id = 0
    BY <2>1, EmptySeq DEF NoCursor, NoId
  <2> QED  BY <1>0, <2>1, <2>2 DEF PositionsOK, NotAhead, NoUsn
<1> DEFINE Kept == /\ UNCHANGED <<journal, watching, cursor, startUsn, readUsn, chan>>
                   /\ replayNext' \in {replayNext, NoUsn}
                   /\ pc' \in {"enumerate", "buildSidecar"} =>
                        pc \in {"enumerate", "buildSidecar"} /\ UNCHANGED built
<1>10. CASE Kept
  BY <1>0, <1>10 DEF PositionsOK, NotAhead, NoUsn
<1>11. \/ DrainTimeout \/ TakeOverflow \/ ApplyBatch \/ NeedsFullReindex
       \/ CompactSnapshot \/ CompactSidecar \/ BuildSnapshot
       => Kept
  BY DEF DrainTimeout, TakeOverflow, ApplyBatch, NeedsFullReindex, BatchDone,
         CompactSnapshot, CompactSidecar, BuildSnapshot, ntfsVars, watcherVars
<1>12. \/ IdlePersist \/ Start \/ CompactFails \/ BuildFails \/ ResumeRefused \/ UNCHANGED vars
       => Kept
  BY DEF IdlePersist, Start, CompactFails, BuildFails, ResumeRefused, vars, ntfsVars, watcherVars
<1> QED
  BY <1>1, <1>2, <1>3, <1>4, <1>5, <1>6, <1>7, <1>8, <1>9, <1>10, <1>11, <1>12
  DEF Next, Watcher, Worker, Failures, Crash, Shutdown

\* Every step keeps what builds, compactions and sidecars rely on.
LEMMA PhaseStep ==
  ASSUME Shape, PositionsOK, BuildOK, CompactOK, FrnsOK, [Next]_vars
  PROVE  BuildOK' /\ CompactOK' /\ FrnsOK'
<1>0. /\ built.id \in Nat /\ built.next \in Int /\ Covered(view) \subseteq changes
      /\ journal.id \in Nat /\ journal.next \in Nat
      /\ \A v \in {view, next} : v.base.frns # "partial" \/ MergedFrns(v) = "partial"
  <2>1. built.id \in Nat /\ built.next \in Int /\ Covered(view) \subseteq changes
    BY Fields, ViewFields
  <2>2. journal.id \in Nat /\ journal.next \in Nat
    BY Fields
  <2>3. \A v : v.base.frns = "partial" => MergedFrns(v) = "partial"
    BY DEF MergedFrns
  <2> QED  BY <2>1, <2>2, <2>3
<1>1. CASE Ntfs
  <2>1. /\ UNCHANGED <<pc, built, view, next, disk, gap>>
        /\ \A id \in Nat, usn \in Int :
             NotAhead(id, usn) => Before(id, usn)' = Before(id, usn)
    BY <1>1, JournalMoves DEF daemonVars
  <2>2. pc \in {"enumerate", "buildSidecar"} =>
          Before(built.id, built.next)' = Before(built.id, built.next)
    BY <1>0, <2>1 DEF PositionsOK, Before
  <2> QED  BY <2>1, <2>2 DEF BuildOK, CompactOK, FrnsOK, Covered
<1>2. CASE BuildCursor
  <2>1. /\ UNCHANGED <<changes, view, next, disk, gap>> /\ pc' = "enumerate"
        /\ built'.seen = changes
    BY <1>2 DEF BuildCursor, ntfsVars
  <2>2. Before(built.id, built.next)' \subseteq changes
    BY <2>1 DEF Before
  <2> QED  BY <1>0, <2>1, <2>2 DEF BuildOK, CompactOK, FrnsOK, Covered
<1>3. CASE BuildSnapshot
  <2>1. /\ UNCHANGED <<changes, view, next, built, gap>> /\ pc = "enumerate" /\ pc' = "buildSidecar"
        /\ built.seen \subseteq disk'.covered /\ disk'.id = built.id /\ disk'.next = built.next
        /\ disk'.frns = "missing"
    BY <1>3 DEF BuildSnapshot, ntfsVars
  <2> QED  BY <2>1 DEF BuildOK, CompactOK, FrnsOK, Covered, Before
<1>4. CASE BuildPublish
  <2>1. pc' = "idle" /\ disk'.frns = "whole" /\ view'.base = disk'
    BY <1>4, ViewFields DEF BuildPublish, Fresh, Base
  <2> QED  BY <2>1 DEF BuildOK, CompactOK, FrnsOK
<1>5. CASE Resume
  <2>1. pc' = "idle" /\ UNCHANGED <<disk, gap>> /\ view'.base = disk
    BY <1>5 DEF Resume
  <2> QED  BY <2>1 DEF BuildOK, CompactOK, FrnsOK
<1>6. CASE ApplyBatch
  <2>1. PICK delta \in Applied(view, batch) :
          LET v == [view EXCEPT !.delta = delta,
                                !.next = IF replayNext = NoUsn THEN @ ELSE replayNext]
          IN \/ view' = v /\ pc' = "idle"
             \/ next' = v /\ pc' = "compact" /\ UNCHANGED view
    BY <1>6 DEF ApplyBatch
  <2>2. view.delta \subseteq delta
    BY <2>1, ViewFields, AppliedBounds DEF Shape, TypeOK, WorkerTypes
  <2>3. UNCHANGED <<disk, gap>>
    BY <1>6 DEF ApplyBatch
  <2> QED  BY <2>1, <2>2, <2>3, ViewFields DEF View, BuildOK, CompactOK, FrnsOK, Covered
<1>7. CASE IdlePersist
  BY <1>7 DEF IdlePersist, BuildOK, CompactOK, FrnsOK, Covered
<1>8. CASE CompactSnapshot
  <2>1. /\ UNCHANGED <<next, view, gap>> /\ pc = "compact" /\ pc' = "sidecar"
        /\ disk' = SnapshotOf(next)
    BY <1>8 DEF CompactSnapshot
  <2> QED  BY <2>1 DEF BuildOK, CompactOK, FrnsOK, SnapshotOf, Covered
<1>9. CASE CompactSidecar
  <2>1. /\ pc = "sidecar" /\ pc' = "idle"
        /\ view' \in {Fresh(disk'), next} /\ disk'.frns = MergedFrns(next)
        /\ gap' = gap \cup Lossy(disk'.frns)
    BY <1>9, ViewFields DEF CompactSidecar, Base
  <2>2. MergedFrns(next) = "partial" => "partial sidecar" \in gap'
    BY <2>1 DEF Lossy
  <2>3. next.base.frns # "partial" \/ MergedFrns(next) = "partial"
    BY <1>0
  <2>4. view'.base = disk' \/ view'.base = next.base
    BY <2>1 DEF Fresh
  <2>5. FrnsOK'
    BY <2>1, <2>2, <2>3, <2>4 DEF FrnsOK
  <2> QED  BY <2>1, <2>5 DEF BuildOK, CompactOK
<1>10. CASE CompactFails
  <2>1. pc \in {"compact", "sidecar"} /\ pc' = "idle" /\ view' = next /\ UNCHANGED <<disk, gap>>
    BY <1>10 DEF CompactFails
  <2> QED  BY <2>1 DEF BuildOK, CompactOK, FrnsOK
<1>11. CASE Crash \/ Shutdown
  <2>1. pc' = "down" /\ UNCHANGED view /\ gap \subseteq gap'
    BY <1>11 DEF Crash, Shutdown, Down
  <2>2. disk'.frns = "partial" => disk' = disk \/ "partial sidecar" \in gap'
    BY <1>11 DEF Crash, Shutdown, SnapshotOf, Lossy
  <2> QED  BY <2>1, <2>2 DEF BuildOK, CompactOK, FrnsOK
<1> DEFINE Kept == /\ UNCHANGED <<changes, built, view, next, disk>> /\ gap \subseteq gap'
                   /\ pc' \in {"enumerate", "buildSidecar", "compact", "sidecar"} => UNCHANGED pc
<1>12. CASE Kept
  BY <1>12 DEF BuildOK, CompactOK, FrnsOK, Covered, Before
<1>13. Watcher \/ WatchFails \/ UNCHANGED vars => Kept
  BY DEF Watcher, WatchStart, WatchRead, WatchSend, WatchAdvance, WatchFails, ntfsVars,
         workerVars, vars
<1>14. CASE BuildFails
  <2>1. pc' = "idle" /\ UNCHANGED <<view, disk>> /\ gap \subseteq gap'
    BY <1>14 DEF BuildFails
  <2> QED  BY <2>1 DEF BuildOK, CompactOK, FrnsOK
<1>15. Receive \/ DrainTimeout \/ TakeOverflow \/ NeedsFullReindex \/ Start \/ ResumeRefused => Kept
  BY DEF Receive, DrainTimeout, TakeOverflow, NeedsFullReindex, Start, ResumeRefused,
         ntfsVars
<1> QED
  BY <1>1, <1>2, <1>3, <1>4, <1>5, <1>6, <1>7, <1>8, <1>9, <1>10, <1>11, <1>12, <1>13,
     <1>14, <1>15
  DEF Next, Worker, Failures

\* A step of the daemon that installs an honest view, or reopens an honest
\* snapshot, leaves it honest: the journal has not moved.
LEMMA HonestNow ==
  ASSUME NEW v, Honest(v), UNCHANGED ntfsVars
  PROVE  /\ view' = v => Honest(view)'
         /\ next' = v => Honest(next)'
         /\ Fresh(disk') = v => Honest(Fresh(disk))'
BY DEF Honest, NotAhead, Before, Covered, ntfsVars

\* The snapshot of an honest view is honest (compaction stamps the view's cursor).
LEMMA SnapshotHonest ==
  ASSUME NEW v, NEW d, d.covered = Covered(v), d.id = v.base.id, d.next = v.next
  PROVE  Honest(v) => Honest(Fresh(d))
BY DEF Honest, Fresh, Covered

\* Applying a batch that overflowed nothing gives an honest view, although its
\* position was cut by another thread.
LEMMA AppliedHonest ==
  ASSUME Shape, Coverage, gap = {}, pc = "apply",
         NEW delta \in Applied(view, batch)
  PROVE  Honest([view EXCEPT !.delta = delta,
                             !.next = IF replayNext = NoUsn THEN @ ELSE replayNext])
<1> DEFINE v == [view EXCEPT !.delta = delta,
                             !.next = IF replayNext = NoUsn THEN @ ELSE replayNext]
<1>1. /\ view \in View /\ view.base.id \in Nat /\ view.next \in Nat /\ batch \subseteq changes
      /\ replayNext \in Int /\ journal.id \in Nat /\ 1 <= journal.id
      /\ \A c \in changes : c[1] \in Nat /\ c[2] \in Nat /\ 1 <= c[1]
  BY Fields, ViewFields DEF Shape, TypeOK, WorkerTypes
<1>2. delta = view.delta \cup batch
  BY <1>1, AppliedBounds DEF Coverage, FrnsOK
<1>3. /\ v.base = view.base /\ Covered(v) = Covered(view) \cup batch
      /\ v.next = IF replayNext = NoUsn THEN view.next ELSE replayNext
  BY <1>1, <1>2 DEF View, Covered
<1>4. Honest(view)
  BY DEF Coverage, HonestOK
<1>5. CASE replayNext = NoUsn
  BY <1>3, <1>4, <1>5 DEF Honest
<1>6. CASE replayNext # NoUsn
  <2>1. view.base.id \in {NoId, cursor.id}
    BY DEF Coverage, HandoverOK, Handover, Shape, StartOK
  <2>2. CASE view.base.id = NoId
    BY <1>1, <1>3, <2>2 DEF Honest, NotAhead, Before, NoId
  <2>3. CASE view.base.id = cursor.id
    <3>1. NotAhead(cursor.id, replayNext)
      BY DEF Coverage, PositionsOK
    <3>2. \A c \in changes : c[1] < cursor.id => c \in Covered(view)
      BY <1>4, <2>3 DEF Honest, Before
    <3>3. \A c \in changes : c[1] = cursor.id /\ c[2] < replayNext => c \in Covered(view) \cup batch
      BY DEF Coverage, HandoverOK, Handover, Watched
    <3> QED  BY <1>3, <1>6, <2>3, <3>1, <3>2, <3>3 DEF Honest, Before
  <2> QED  BY <2>1, <2>2, <2>3
<1> QED  BY <1>5, <1>6

\* What a build saves is honest: its cursor was captured before the enumeration.
LEMMA BuiltHonest ==
  ASSUME Coverage, pc = "buildSidecar", NEW d,
         d.covered = disk.covered, d.id = disk.id, d.next = disk.next
  PROVE  Honest(Fresh(d))
BY DEF Coverage, PositionsOK, BuildOK, Honest, Fresh, Covered

\* A snapshot with the rest of the journal replayed on it is honest.
LEMMA ResumedHonest ==
  ASSUME Shape, Honest(Fresh(disk)), disk.frns # "partial",
         disk.id = journal.id, journal.first <= disk.next,
         NEW delta \in Applied(Fresh(disk), Replayed)
  PROVE  Honest([base |-> disk, delta |-> delta, next |-> journal.next])
<1>1. /\ disk \in Base /\ disk.next \in Nat
      /\ journal.id \in Nat /\ journal.first \in Nat /\ journal.next \in Nat
      /\ \A c \in changes : c[1] \in Nat /\ c[2] \in Nat
  BY Fields, ViewFields
<1>2. Fresh(disk) \in View /\ Fresh(disk).base = disk /\ Fresh(disk).delta = {}
      /\ Fresh(disk).next = disk.next
  BY <1>1, FreshTypes DEF Fresh
<1>3. delta = {c \in changes : c[1] = journal.id /\ c[2] >= disk.next}
  <2>1. Replayed \subseteq changes
    BY DEF Replayed
  <2>2. delta = Fresh(disk).delta \cup Replayed
    <3>1. Replayed \in SUBSET changes /\ Fresh(disk).base.frns # "partial"
      BY <1>2, <2>1
    <3> QED  BY <1>2, <3>1, AppliedBounds
  <2>3. \A c \in changes : c[2] >= disk.next => c[2] >= journal.first
    BY <1>1
  <2> QED  BY <1>2, <2>2, <2>3 DEF Replayed
<1>4. \A c \in changes : c[1] < disk.id \/ (c[1] = disk.id /\ c[2] < disk.next) => c \in disk.covered
  BY <1>2 DEF Honest, Before, Covered
<1> QED  BY <1>1, <1>3, <1>4 DEF Honest, NotAhead, Before, Covered

\* Every step keeps views and snapshots honest.
LEMMA HonestStep ==
  ASSUME Shape, Coverage, [Next]_vars
  PROVE  HonestOK'
<1> SUFFICES ASSUME gap' = {}
             PROVE  /\ Honest(view)' /\ Honest(Fresh(disk))'
                    /\ pc' \in {"compact", "sidecar"} => Honest(next)'
  BY DEF HonestOK
<1>0. /\ view.base.id \in Nat /\ view.next \in Nat /\ next.base.id \in Nat /\ next.next \in Nat
      /\ disk.id \in Nat /\ disk.next \in Nat /\ view \in View /\ disk \in Base
  BY ViewFields
<1>1. ASSUME gap = {}
      PROVE  /\ Honest(view) /\ Honest(Fresh(disk))
             /\ pc \in {"compact", "sidecar"} => Honest(next)
  BY <1>1 DEF Coverage, HonestOK
<1>2. CASE Ntfs
  <2>1. UNCHANGED <<pc, view, next, disk, gap>>
        /\ \A id \in Nat, usn \in Int : NotAhead(id, usn) =>
              NotAhead(id, usn)' /\ Before(id, usn)' = Before(id, usn)
    BY <1>2, JournalMoves DEF daemonVars
  <2> QED  BY <1>0, <1>1, <2>1 DEF Honest, NotAhead, Before, Covered, Fresh
<1>3. CASE ApplyBatch
  <2>1. PICK delta \in Applied(view, batch) :
          LET v == [view EXCEPT !.delta = delta,
                                !.next = IF replayNext = NoUsn THEN @ ELSE replayNext]
          IN \/ view' = v /\ pc' = "idle"
             \/ next' = v /\ UNCHANGED view
    BY <1>3 DEF ApplyBatch
  <2>2. pc = "apply" /\ gap = {} /\ UNCHANGED <<ntfsVars, disk>>
    BY <1>3 DEF ApplyBatch
  <2>3. PICK v : /\ Honest(v) 
                 /\ \/ view' = v /\ pc' = "idle"
                    \/ next' = v /\ UNCHANGED view
    BY <2>1, <2>2, AppliedHonest
  <2> QED  BY <1>1, <2>2, <2>3, HonestNow
<1>4. CASE IdlePersist
  <2>1. next' = view /\ gap = {} /\ UNCHANGED <<ntfsVars, view, disk>>
    BY <1>4 DEF IdlePersist
  <2> QED  BY <1>1, <2>1, HonestNow
<1>5. CASE CompactSnapshot
  <2>1. /\ pc = "compact" /\ disk' = SnapshotOf(next) /\ gap = {}
        /\ UNCHANGED <<ntfsVars, view, next>>
    BY <1>5 DEF CompactSnapshot
  <2>2. Honest(Fresh(SnapshotOf(next)))
    BY <1>1, <2>1, SnapshotHonest DEF SnapshotOf
  <2> QED  BY <1>1, <2>1, <2>2, HonestNow
<1>6. CASE CompactSidecar
  <2>1. /\ pc = "sidecar" /\ pc' = "idle" /\ disk' = [disk EXCEPT !.frns = MergedFrns(next)]
        /\ view' \in {Fresh(disk'), next} /\ gap = {} /\ UNCHANGED ntfsVars
    BY <1>6 DEF CompactSidecar
  <2>2. disk'.covered = disk.covered /\ disk'.id = disk.id /\ disk'.next = disk.next
    BY <1>0, <2>1 DEF Base
  <2>3. PICK d : d = disk'
    OBVIOUS
  <2>4. Honest(Fresh(d))
    BY <1>1, <2>1, <2>2, <2>3 DEF Honest, Fresh, Covered
  <2> QED  BY <1>1, <2>1, <2>3, <2>4, HonestNow
<1>7. CASE CompactFails
  <2>1. /\ pc \in {"compact", "sidecar"} /\ pc' = "idle" /\ view' = next /\ gap = {}
        /\ UNCHANGED <<ntfsVars, disk>>
    BY <1>7 DEF CompactFails
  <2> QED  BY <1>1, <2>1, HonestNow
<1>8. CASE BuildSnapshot
  <2>1. /\ pc = "enumerate" /\ gap = {} /\ UNCHANGED <<ntfsVars, view, built>> /\ pc' = "buildSidecar"
        /\ built.seen \subseteq disk'.covered /\ disk'.id = built.id /\ disk'.next = built.next
    BY <1>8 DEF BuildSnapshot
  <2>2. PICK d : d = disk'
    OBVIOUS
  <2>3. Honest(Fresh(d))
    BY <2>1, <2>2 DEF Coverage, PositionsOK, BuildOK, Honest, Fresh, Covered
  <2> QED  BY <1>1, <2>1, <2>2, <2>3, HonestNow
<1>9. CASE BuildPublish
  <2>1. /\ pc = "buildSidecar" /\ pc' = "idle" /\ UNCHANGED ntfsVars
        /\ disk' = [disk EXCEPT !.frns = "whole"] /\ view' = Fresh(disk')
    BY <1>9 DEF BuildPublish
  <2>2. disk'.covered = disk.covered /\ disk'.id = disk.id /\ disk'.next = disk.next
    BY <1>0, <2>1 DEF Base
  <2>3. PICK d : d = disk'
    OBVIOUS
  <2>4. Honest(Fresh(d))
    BY <2>1, <2>2, <2>3, BuiltHonest
  <2> QED  BY <2>1, <2>3, <2>4, HonestNow
<1>10. CASE Resume
  <2>1. /\ pc' = "idle" /\ disk.id = journal.id /\ journal.first <= disk.next /\ gap = {} /\ UNCHANGED <<ntfsVars, disk>>
        /\ \E delta \in Applied(Fresh(disk), Replayed) :
             view' = [base |-> disk, delta |-> delta, next |-> journal.next]
    BY <1>10 DEF Resume, ReplayCursorValid
  <2>2. disk.frns # "partial"
    BY <2>1 DEF Coverage, FrnsOK
  <2>3. PICK v : Honest(v) /\ view' = v
    BY <1>1, <2>1, <2>2, ResumedHonest
  <2> QED  BY <1>1, <2>1, <2>3, HonestNow
<1>11. CASE Crash \/ Shutdown
  <2>1. /\ pc' = "down" /\ gap = {} /\ UNCHANGED <<ntfsVars, view>>
        /\ \/ disk' = disk
           \/ \E frns \in Frns : disk' = [SnapshotOf(view) EXCEPT !.frns = frns]
    BY <1>0, <1>11, SnapshotTypes DEF Crash, Shutdown, Down, Frns
  <2>2. PICK d : d = disk'
    OBVIOUS
  <2>3. d = disk \/ (d.covered = Covered(view) /\ d.id = view.base.id /\ d.next = view.next)
    BY <2>1, <2>2 DEF SnapshotOf
  <2>4. Honest(Fresh(d))
    BY <1>1, <2>1, <2>3, SnapshotHonest
  <2> QED  BY <1>1, <2>1, <2>2, <2>4, HonestNow
<1> DEFINE Kept == /\ UNCHANGED <<journal, changes, view, disk>> /\ gap \subseteq gap'
                   /\ pc' \in {"compact", "sidecar"} => UNCHANGED <<pc, next>>
<1>12. CASE Kept
  BY <1>1, <1>12 DEF Honest, NotAhead, Before, Covered, Fresh
<1>13. Watcher \/ WatchFails \/ UNCHANGED vars => Kept
  BY DEF Watcher, WatchStart, WatchRead, WatchSend, WatchAdvance, WatchFails, ntfsVars,
         workerVars, vars
<1>14. \/ Receive \/ DrainTimeout \/ TakeOverflow \/ NeedsFullReindex \/ BuildCursor
       \/ BuildFails \/ Start \/ ResumeRefused
       => Kept
  BY DEF Receive, DrainTimeout, TakeOverflow, NeedsFullReindex, BuildCursor, BuildFails,
         Start, ResumeRefused, ntfsVars
<1> QED
  BY <1>2, <1>3, <1>4, <1>5, <1>6, <1>7, <1>8, <1>9, <1>10, <1>11, <1>12, <1>13, <1>14
  DEF Next, Worker, Failures

\* A change that is safe stays safe while the daemon and its watcher run.
LEMMA SafeKept ==
  ASSUME Shape, Coverage, [Next]_vars, watching # "off", watching' # "off", Certain',
         NEW c \in changes, Safe(c)
  PROVE  Safe(c)'
<1>1. CASE Ntfs \/ Watcher \/ WatchFails \/ UNCHANGED vars
  <2>1. UNCHANGED <<view, batch, pc, built, next>> /\ (overflowed => overflowed')
    <3>1. CASE Ntfs
      BY <3>1, JournalMoves DEF daemonVars
    <3>2. CASE WatchSend \/ WatchAdvance
      BY <3>2 DEF WatchSend, WatchAdvance, TrySend, workerVars
    <3>3. CASE WatchStart \/ WatchRead \/ WatchFails \/ UNCHANGED vars
      BY <3>3 DEF WatchStart, WatchRead, WatchFails, workerVars, vars
    <3> QED  BY <1>1, <3>1, <3>2, <3>3 DEF Watcher
  <2> QED  BY <2>1 DEF Safe, Rebuilding, Covered
<1>2. CASE Receive
  BY <1>2 DEF Receive, Safe, Rebuilding, Covered
<1>3. CASE DrainTimeout \/ TakeOverflow \/ NeedsFullReindex
  BY <1>3 DEF DrainTimeout, TakeOverflow, NeedsFullReindex, Safe, Rebuilding, Covered
<1>4. CASE ApplyBatch
  <2>1. PICK delta \in Applied(view, batch) :
          LET v == [view EXCEPT !.delta = delta,
                                !.next = IF replayNext = NoUsn THEN @ ELSE replayNext]
          IN \/ view' = v /\ pc' = "idle"
             \/ next' = v /\ pc' = "compact" /\ UNCHANGED view
    BY <1>4 DEF ApplyBatch
  <2>2. pc = "apply" /\ UNCHANGED <<gap, overflowed>>
    BY <1>4 DEF ApplyBatch
  <2>3. delta = view.delta \cup batch
    BY <2>1, <2>2, ViewFields, AppliedBounds
    DEF Certain, Coverage, FrnsOK, Shape, TypeOK, WorkerTypes
  <2> QED  BY <2>1, <2>2, <2>3, ViewFields DEF View, Safe, Rebuilding, Covered
<1>5. CASE IdlePersist \/ CompactSnapshot
  BY <1>5 DEF IdlePersist, CompactSnapshot, Safe, Rebuilding, Covered
<1>6. CASE CompactSidecar \/ CompactFails
  <2>1. /\ pc \in {"compact", "sidecar"} /\ UNCHANGED <<batch, overflowed>>
        /\ view' = next \/ (pc = "sidecar" /\ view' = Fresh(disk') /\ disk'.covered = disk.covered)
    BY <1>6, ViewFields DEF CompactSidecar, CompactFails, Base
  <2>2. Covered(view) \subseteq Covered(next) /\ (pc = "sidecar" => disk.covered = Covered(next))
    BY <2>1 DEF Coverage, CompactOK
  <2>3. Covered(next) \subseteq Covered(view')
    BY <2>1, <2>2 DEF Covered, Fresh
  <2>4. c \in Covered(next) \/ c \in batch \/ overflowed
    BY <2>1, <2>2 DEF Safe, Rebuilding
  <2>5. c \in Covered(view)' \/ c \in batch' \/ overflowed'
    BY <2>1, <2>3, <2>4 DEF Covered
  <2> QED  BY <2>5 DEF Safe
<1>7. CASE BuildCursor \/ BuildSnapshot
  <2>1. CASE BuildCursor
    <3>1. pc' = "enumerate" /\ built'.seen = changes /\ UNCHANGED <<batch, overflowed, view>>
      BY <2>1 DEF BuildCursor
    <3>2. pc = "rebuild"
      BY <2>1 DEF BuildCursor
    <3> QED  BY <3>1, <3>2 DEF Safe, Rebuilding, Covered
  <2>2. CASE BuildSnapshot
    BY <2>2 DEF BuildSnapshot, Safe, Rebuilding, Covered
  <2> QED  BY <1>7, <2>1, <2>2
<1>8. CASE BuildPublish
  <2>1. /\ pc = "buildSidecar" /\ UNCHANGED overflowed
        /\ disk'.covered = disk.covered /\ view' = Fresh(disk')
    BY <1>8, ViewFields DEF BuildPublish, Base
  <2>2. batch = {}
    BY <2>1 DEF Shape, BatchOK
  <2>3. c \in built.seen \/ overflowed
    BY <2>1, <2>2 DEF Safe, Rebuilding, Coverage, BuildOK
  <2>4. built.seen \subseteq Covered(view)'
    BY <2>1 DEF Coverage, BuildOK, Covered, Fresh
  <2> QED  BY <2>1, <2>3, <2>4 DEF Safe
<1>9. ~(\/ BuildFails \/ Start \/ Resume \/ ResumeRefused \/ Crash \/ Shutdown)
  BY DEF BuildFails, Start, Resume, ResumeRefused, Crash, Shutdown, Down, Certain,
         Shape, StartOK
<1> QED
  BY <1>1, <1>2, <1>3, <1>4, <1>5, <1>6, <1>7, <1>8, <1>9
  DEF Next, Worker, Failures

\* A rebuild that has not begun yet will see every change.
LEMMA SafeWhenRebuilding == pc' = "rebuild" => \A c : Safe(c)'
BY DEF Safe, Rebuilding

\* Certainty is only regained by deciding to rebuild.
LEMMA CertainBefore ==
  ASSUME Shape, [Next]_vars, Certain', watching # "off", watching' # "off"
  PROVE  Certain \/ pc' = "rebuild"
<1> SUFFICES ASSUME ~Certain, pc' # "rebuild" PROVE FALSE
  OBVIOUS
<1>1. gap # {} /\ pc \notin {"rebuild", "enumerate", "buildSidecar"}
  BY DEF Certain
<1>2. gap' = {} \/ pc' \in {"enumerate", "buildSidecar"}
  BY DEF Certain
<1>3. ~BuildPublish /\ ~BuildCursor /\ ~BuildSnapshot
  BY <1>1 DEF BuildPublish, BuildCursor, BuildSnapshot
<1>4. \/ gap \subseteq gap' /\ (pc' \in {"enumerate", "buildSidecar"} => pc' = pc)
  <2>1. CASE Ntfs \/ Watcher \/ WatchFails \/ UNCHANGED vars
    BY <2>1, JournalMoves DEF daemonVars, Watcher, WatchStart, WatchRead, WatchSend,
       WatchAdvance, WatchFails, workerVars, vars
  <2>2. CASE Worker \/ CompactFails \/ BuildFails \/ ResumeRefused \/ IdlePersist \/ Start
    BY <1>1, <1>3, <2>2
    DEF Worker, Receive, DrainTimeout, TakeOverflow, ApplyBatch, NeedsFullReindex,
        CompactSnapshot, CompactSidecar, Resume, CompactFails, BuildFails, ResumeRefused,
        IdlePersist, Start
  <2>3. CASE Crash \/ Shutdown
    BY <2>3 DEF Crash, Shutdown, Down
  <2> QED  BY <2>1, <2>2, <2>3 DEF Next, Failures
<1> QED  BY <1>1, <1>2, <1>4

\* Every step keeps the watched changes safe or queued.
LEMMA QueueStep ==
  ASSUME Shape, Coverage, [Next]_vars
  PROVE  QueueOK'
<1> SUFFICES ASSUME Certain', watching' # "off", NEW c \in Watched'
             PROVE  /\ c[2] < startUsn' => Safe(c)' \/ Queued(c)'
                    /\ \A i \in 1 .. Len(chan') :
                         c[2] < chan'[i].usn => Safe(c)' \/ QueuedBefore(c, i)'
  BY DEF QueueOK
<1>0. /\ journal.id \in Nat /\ journal.next \in Nat
      /\ cursor.id \in Nat /\ cursor.next \in Nat /\ startUsn \in Nat /\ readUsn \in Nat
      /\ chan \in Seq(Messages) /\ Len(chan) \in Nat
      /\ \A i \in 1 .. Len(chan) : chan[i].usn \in Nat
  BY Fields DEF Shape, TypeOK, WatcherTypes
<1>1. CASE watching = "off"
  <2>1. BuildPublish \/ Resume
    BY <1>1 DEF Next, Ntfs, Watcher, Worker, Failures, FsChange, JournalAges, JournalReplaced,
       daemonVars, WatchStart, WatchRead, WatchSend, WatchAdvance, WatchFails, Receive,
       DrainTimeout, TakeOverflow, ApplyBatch, NeedsFullReindex, CompactSnapshot,
       CompactSidecar, BuildCursor, BuildSnapshot, CompactFails, BuildFails, ResumeRefused,
       Crash, Shutdown, Down, IdlePersist, Start, watcherVars, vars
  <2>2. startUsn' = 0 /\ chan' = <<>>
    BY <1>1, <2>1 DEF BuildPublish, Resume, Shape, StartOK
  <2>3. c[2] \in Nat
    BY <2>1, Fields DEF Watched, BuildPublish, Resume, ntfsVars
  <2> QED  BY <2>2, <2>3, EmptySeq
<1>2. CASE pc' = "rebuild"
  BY <1>2, SafeWhenRebuilding
<1> SUFFICES ASSUME watching # "off", pc' # "rebuild"
             PROVE  /\ c[2] < startUsn' => Safe(c)' \/ Queued(c)'
                    /\ \A i \in 1 .. Len(chan') :
                         c[2] < chan'[i].usn => Safe(c)' \/ QueuedBefore(c, i)'
  BY <1>1, <1>2
<1>3. Certain
  BY CertainBefore
<1>4. \A d \in changes : Safe(d) => Safe(d)'
  BY SafeKept
<1>5. \A d \in Watched :
        /\ d[2] < startUsn => Safe(d)' \/ Queued(d)
        /\ \A i \in 1 .. Len(chan) : d[2] < chan[i].usn => Safe(d)' \/ QueuedBefore(d, i)
  BY <1>3, <1>4 DEF Coverage, QueueOK, Watched
<1>6. \A d \in changes : d \in Nat \X Nat /\ d = <<d[1], d[2]>> /\ d[1] \in Nat /\ d[2] \in Nat
  BY Fields
<1>7. CASE Ntfs
  <2>1. UNCHANGED <<cursor, startUsn, chan, view, batch, overflowed, pc, built, next>>
    BY <1>7, JournalMoves DEF daemonVars, watcherVars
  <2>2. PICK id \in Nat : id = cursor.id
    BY <1>0
  <2>3. \A usn \in Int : NotAhead(id, usn) => Before(id, usn)' = Before(id, usn)
    BY <1>7, JournalMoves
  <2>4. \A usn \in Int : NotAhead(id, usn) /\ c[2] < usn => c \in Watched
    BY <2>1, <2>2, <2>3 DEF Watched, Before
  <2>5. /\ NotAhead(id, startUsn)
        /\ \A i \in 1 .. Len(chan) : NotAhead(id, chan[i].usn)
    BY <2>2 DEF Coverage, PositionsOK
  <2>6. c[2] < startUsn => c \in Watched
    BY <1>0, <2>4, <2>5
  <2>7. \A i \in 1 .. Len(chan) : c[2] < chan[i].usn => c \in Watched
    BY <1>0, <2>4, <2>5
  <2> QED  BY <1>5, <2>1, <2>6, <2>7 DEF Queued, QueuedBefore
<1>8. CASE WatchStart
  <2>1. chan = <<>> /\ chan' = chan /\ UNCHANGED changes /\ gap = {}
    BY <1>3, <1>8 DEF WatchStart, Shape, StartOK, Certain, ntfsVars
  <2>2. cursor.id # NoId /\ \A d \in Watched : d[2] < cursor.next => Safe(d)
    BY <1>8, <2>1 DEF Coverage, HandoverOK, Handover, WatchStart
  <2>3. UNCHANGED cursor /\ startUsn' = cursor.next
    BY <1>8, <2>2 DEF WatchStart
  <2>4. c \in Watched
    BY <2>1, <2>3 DEF Watched
  <2> QED  BY <1>4, <2>1, <2>2, <2>3, <2>4, EmptySeq DEF Watched
<1>9. CASE WatchSend \/ WatchAdvance
  <2> DEFINE kind == IF <<cursor.id, startUsn>> \in changes THEN "change" ELSE "ignored"
  <2>1. /\ UNCHANGED <<changes, cursor>>
        /\ \/ startUsn' = startUsn + 1 /\ TrySend(Message(kind, startUsn))
           \/ startUsn' = startUsn /\ TrySend(Message("advanced", startUsn))
    BY <1>9 DEF WatchSend, WatchAdvance, ntfsVars
  <2>2. PICK m \in Messages :
          /\ TrySend(m) /\ m.usn = startUsn
          /\ \/ startUsn' = startUsn + 1 /\ m = Message(kind, startUsn)
             \/ startUsn' = startUsn
    BY <1>0, <2>1 DEF Message, Messages
  <2>3. c \in Watched
    BY <2>1 DEF Watched
  <2>4. CASE Len(chan) < Capacity
    <3>1. chan' = Append(chan, m)
      BY <2>2, <2>4 DEF TrySend
    <3>2. /\ Len(chan') = Len(chan) + 1 /\ chan'[Len(chan) + 1] = m
          /\ \A i \in 1 .. Len(chan) : chan'[i] = chan[i]
      BY <1>0, <3>1, AppendProperties
    <3>3. Queued(c) => Queued(c)'
      <4>1. \A j \in 1 .. Len(chan) : j \in 1 .. Len(chan') /\ chan'[j] = chan[j]
        BY <1>0, <3>2
      <4> QED  BY <4>1 DEF Queued
    <3>4. \A i \in 1 .. Len(chan) : QueuedBefore(c, i) => QueuedBefore(c, i)'
      BY <1>0, <3>2 DEF QueuedBefore
    <3>5. ASSUME c[2] < startUsn' PROVE Safe(c)' \/ Queued(c)'
      <4>1. CASE c[2] < startUsn
        BY <1>5, <2>3, <3>3, <4>1
      <4>2. CASE ~(c[2] < startUsn)
        <5>1. c[2] = startUsn /\ m = Message(kind, startUsn)
          BY <1>0, <1>6, <2>2, <2>3, <3>5, <4>2 DEF Watched
        <5>2. c = <<cursor.id, startUsn>> /\ c \in changes
          BY <1>6, <2>3, <5>1 DEF Watched
        <5>3. m = Message("change", c[2])
          BY <5>1, <5>2
        <5> QED  BY <1>0, <3>2, <5>3 DEF Queued
      <4> QED  BY <4>1, <4>2
    <3>6. ASSUME NEW i \in 1 .. Len(chan'), c[2] < chan'[i].usn
          PROVE  Safe(c)' \/ QueuedBefore(c, i)'
      <4>1. CASE i \in 1 .. Len(chan)
        BY <1>5, <2>3, <3>2, <3>4, <3>6, <4>1
      <4>2. CASE i = Len(chan) + 1
        <5>1. Safe(c)' \/ Queued(c)
          BY <1>5, <2>2, <2>3, <3>2, <3>6, <4>2
        <5>2. \A j \in 1 .. Len(chan) : j \in 1 .. i - 1 /\ chan'[j] = chan[j]
          BY <1>0, <3>2, <4>2
        <5> QED  BY <5>1, <5>2 DEF Queued, QueuedBefore
      <4> QED  BY <1>0, <3>2, <4>1, <4>2
    <3> QED  BY <3>5, <3>6
  <2>5. CASE ~(Len(chan) < Capacity)
    BY <2>2, <2>5 DEF TrySend, Safe
  <2> QED  BY <2>4, <2>5
<1>10. CASE Receive
  <2>1. /\ chan # <<>> /\ chan' = Tail(chan) /\ UNCHANGED <<changes, cursor, startUsn>>
        /\ Head(chan).kind = "change" => <<cursor.id, Head(chan).usn>> \in batch'
    BY <1>10 DEF Receive, ntfsVars, watcherVars
  <2>2. /\ Len(chan') = Len(chan) - 1 /\ Head(chan) = chan[1]
        /\ \A i \in 1 .. Len(chan') : chan'[i] = chan[i + 1]
    BY <1>0, <2>1, HeadTailProperties
  <2>3. c \in Watched
    BY <2>1 DEF Watched
  <2>4. chan[1] = Message("change", c[2]) => Safe(c)'
    <3>1. SUFFICES ASSUME chan[1] = Message("change", c[2]) PROVE Safe(c)'
      OBVIOUS
    <3>2. c = <<cursor.id, Head(chan).usn>> /\ Head(chan).kind = "change"
      BY <1>6, <2>2, <2>3, <3>1 DEF Watched, Message
    <3> QED  BY <2>1, <3>2 DEF Safe
  <2>5. ASSUME NEW j \in 1 .. Len(chan), chan[j] = Message("change", c[2]), j # 1
        PROVE  j - 1 \in 1 .. Len(chan') /\ chan'[j - 1] = Message("change", c[2])
    BY <1>0, <2>2, <2>5
  <2>6. Queued(c) => Safe(c)' \/ Queued(c)'
    BY <2>4, <2>5 DEF Queued
  <2>7. ASSUME NEW i \in 1 .. Len(chan'), QueuedBefore(c, i + 1)
        PROVE  Safe(c)' \/ QueuedBefore(c, i)'
    <3>1. PICK j \in 1 .. i : chan[j] = Message("change", c[2])
      BY <2>7 DEF QueuedBefore
    <3>2. j \in 1 .. Len(chan) /\ (j # 1 => j - 1 \in 1 .. i - 1)
      BY <1>0, <2>2
    <3> QED  BY <2>4, <2>5, <3>1, <3>2 DEF QueuedBefore
  <2>8. \A i \in 1 .. Len(chan') : i + 1 \in 1 .. Len(chan)
    BY <1>0, <2>2
  <2>9. \A i \in 1 .. Len(chan') :
          c[2] < chan'[i].usn => Safe(c)' \/ QueuedBefore(c, i + 1)
    BY <1>5, <2>2, <2>3, <2>8
  <2> QED  BY <1>5, <2>1, <2>3, <2>6, <2>7, <2>9
<1> DEFINE Kept == UNCHANGED <<changes, cursor, startUsn, chan>>
<1>11. CASE Kept
  BY <1>5, <1>11 DEF Watched, Queued, QueuedBefore
<1>12. BuildPublish \/ Resume => Kept
  BY DEF BuildPublish, Resume, Shape, StartOK, ntfsVars
<1>13. \/ DrainTimeout \/ TakeOverflow \/ ApplyBatch \/ NeedsFullReindex \/ CompactSnapshot
       \/ CompactSidecar \/ BuildCursor \/ BuildSnapshot
       => Kept
  BY DEF DrainTimeout, TakeOverflow, ApplyBatch, NeedsFullReindex, CompactSnapshot,
         CompactSidecar, BuildCursor, BuildSnapshot, ntfsVars, watcherVars
<1>14. \/ WatchRead \/ WatchFails \/ CompactFails \/ BuildFails \/ ResumeRefused \/ IdlePersist
       \/ Start \/ UNCHANGED vars
       => Kept
  BY DEF WatchRead, WatchFails, CompactFails, BuildFails, ResumeRefused, IdlePersist,
         Start, ntfsVars, watcherVars, workerVars, vars
<1>15. ~Crash /\ ~Shutdown
  BY DEF Crash, Shutdown, Down
<1> QED
  BY <1>7, <1>8, <1>9, <1>10, <1>11, <1>12, <1>13, <1>14, <1>15
  DEF Next, Watcher, Worker, Failures

\* Every step keeps the handovers whole.
LEMMA HandoverStep ==
  ASSUME Shape, Coverage, [Next]_vars
  PROVE  HandoverOK'
<1> SUFFICES ASSUME gap' = {} PROVE Handover'
  BY DEF HandoverOK
<1>0. /\ journal.id \in Nat /\ journal.next \in Nat /\ 1 <= journal.id /\ cursor.id \in Nat
      /\ cursor.next \in Nat /\ replayNext \in Int /\ view \in View /\ disk \in Base
      /\ chan \in Seq(Messages) /\ Len(chan) \in Nat
      /\ \A d \in changes : d[1] \in Nat /\ d[2] \in Nat
  BY Fields, ViewFields DEF Shape, TypeOK, WatcherTypes
<1>1. gap = {} => Handover
  BY DEF Coverage, HandoverOK
<1>2. watching # "off" /\ watching' # "off" => \A d \in changes : Safe(d) => Safe(d)'
  BY SafeKept DEF Certain
<1>3. CASE Ntfs
  <2>1. UNCHANGED <<gap, watching, cursor, replayNext, view, batch, overflowed, pc, built, next>>
    BY <1>3, JournalMoves DEF daemonVars, watcherVars
  <2>2. PICK id \in Nat : id = cursor.id
    BY <1>0
  <2>3. \A usn \in Int : NotAhead(id, usn) => Before(id, usn)' = Before(id, usn)
    BY <1>3, JournalMoves
  <2>4. \A c \in Watched' : \A usn \in Int : NotAhead(id, usn) /\ c[2] < usn => c \in Watched
    BY <2>1, <2>2, <2>3 DEF Watched, Before
  <2>5. NotAhead(id, replayNext) /\ (watching = "start" => NotAhead(id, cursor.next))
    BY <2>2 DEF Coverage, PositionsOK
  <2>6. \A c \in Watched' : c[2] < replayNext => c \in Watched
    BY <1>0, <2>4, <2>5
  <2>7. watching = "start" => \A c \in Watched' : c[2] < cursor.next => c \in Watched
    BY <1>0, <2>4, <2>5
  <2>8. \A c : Safe(c)' = Safe(c)
    BY <2>1 DEF Safe, Rebuilding, Covered
  <2> QED  BY <1>1, <2>1, <2>6, <2>7, <2>8 DEF Handover, Covered
<1>4. CASE WatchStart
  <2>1. /\ UNCHANGED <<gap, view, pc>> /\ watching = "start" /\ watching' = "read"
        /\ pc \in {"idle", "compact", "sidecar"}
    BY <1>4 DEF WatchStart, workerVars, Shape, StartOK
  <2>2. UNCHANGED cursor
    BY <1>1, <1>4, <2>1 DEF WatchStart, Handover
  <2> QED  BY <1>1, <2>1, <2>2 DEF Handover
<1>5. CASE WatchRead \/ WatchSend \/ WatchAdvance \/ WatchFails
  <2>1. /\ UNCHANGED <<changes, gap, view, pc, cursor, batch, replayNext>>
        /\ watching # "off" /\ watching' \notin {"off", "start"}
    BY <1>5 DEF WatchRead, WatchSend, WatchAdvance, WatchFails, ntfsVars, workerVars
  <2> QED  BY <1>1, <1>2, <2>1 DEF Handover, Watched, Covered
<1>6. CASE Receive
  <2>1. /\ UNCHANGED <<changes, gap, view, cursor, watching>> /\ watching \notin {"off", "start"}
        /\ pc \in {"idle", "drain"} /\ pc' = "drain" /\ chan # <<>>
        /\ replayNext' \in {replayNext, Head(chan).usn}
    BY <1>6 DEF Receive, ntfsVars, watcherVars, Shape, StartOK
  <2>2. Head(chan) = chan[1] /\ 1 \in 1 .. Len(chan)
    BY <1>0, <2>1, EmptySeq
  <2>3. \A c \in Watched : c[2] < Head(chan).usn => Safe(c)
    BY <2>1, <2>2 DEF Coverage, QueueOK, Certain, QueuedBefore
  <2>4. \A c \in Watched : c[2] < replayNext => Safe(c)
    <3>1. CASE pc = "drain"
      BY <1>1, <2>1, <3>1 DEF Handover
    <3>2. CASE pc = "idle"
      <4>1. replayNext = -1
        BY <3>2 DEF Shape, BatchOK, NoUsn
      <4> QED  BY <1>0, <4>1 DEF Watched
    <3> QED  BY <2>1, <3>1, <3>2
  <2> QED  BY <1>1, <1>2, <2>1, <2>3, <2>4 DEF Handover, Watched
<1>7. CASE DrainTimeout
  <2>1. /\ UNCHANGED <<changes, gap, view, cursor, watching, replayNext>>
        /\ watching \notin {"off", "start"} /\ pc = "drain" /\ pc' = "swap"
    BY <1>7 DEF DrainTimeout, ntfsVars, watcherVars, Shape, StartOK
  <2> QED  BY <1>1, <1>2, <2>1 DEF Handover, Watched
<1>8. CASE TakeOverflow
  <2>1. /\ UNCHANGED <<changes, gap, view, cursor, watching>>
        /\ watching \notin {"off", "start"} /\ pc = "swap"
        /\ \/ pc' \in {"rebuild", "idle"}
           \/ pc' = "apply" /\ ~overflowed /\ UNCHANGED <<batch, replayNext>>
    BY <1>8 DEF TakeOverflow, ntfsVars, watcherVars, Shape, StartOK
  <2> QED  BY <1>1, <2>1 DEF Handover, Watched, Safe, Rebuilding, Covered
<1>9. CASE BuildPublish
  <2>1. /\ view' = Fresh(disk') /\ disk'.id = built.id /\ pc' = "idle"
        /\ \/ /\ watching = "off" /\ watching' = "start" /\ built.id # NoId
              /\ cursor' = [id |-> built.id, next |-> built.next]
           \/ UNCHANGED <<watching, cursor>> /\ watching # "off" /\ built.id \in {NoId, cursor.id}
    BY <1>0, <1>9 DEF BuildPublish, Base, Coverage, BuildOK
  <2>2. view'.base.id = built.id
    BY <2>1 DEF Fresh
  <2>3. watching # "start"
    BY <1>9 DEF BuildPublish, Shape, StartOK
  <2>4. ASSUME watching = "off", NEW c \in Watched', c[2] < cursor'.next PROVE Safe(c)'
    <3>1. c \in changes /\ c[1] = built.id /\ c[2] < built.next
      BY <1>9, <2>1, <2>4 DEF Watched, BuildPublish, ntfsVars
    <3>2. c \in disk.covered
      BY <1>9, <3>1 DEF BuildPublish, Coverage, BuildOK, Before
    <3>3. c \in Covered(view)'
      BY <1>0, <1>9, <3>2 DEF BuildPublish, Base, Fresh, Covered
    <3> QED  BY <3>3 DEF Safe
  <2> QED  BY <2>1, <2>2, <2>3, <2>4 DEF Handover
<1>10. CASE Resume
  <2>1. /\ pc' = "idle" /\ disk.id = journal.id /\ journal.first <= disk.next /\ gap = {} /\ UNCHANGED changes
        /\ watching' = "start" /\ cursor' = [id |-> journal.id, next |-> journal.next]
        /\ \E delta \in Applied(Fresh(disk), Replayed) :
             view' = [base |-> disk, delta |-> delta, next |-> journal.next]
    BY <1>10 DEF Resume, ReplayCursorValid, ntfsVars
  <2>2. disk.frns # "partial" /\ Honest(Fresh(disk))
    BY <2>1 DEF Coverage, FrnsOK, HonestOK
  <2>3. PICK delta \in Applied(Fresh(disk), Replayed) :
          view' = [base |-> disk, delta |-> delta, next |-> journal.next]
    BY <2>1
  <2>4. Honest([base |-> disk, delta |-> delta, next |-> journal.next])
    BY <2>1, <2>2, ResumedHonest
  <2>5. \A c \in changes : c[1] = journal.id /\ c[2] < journal.next => c \in Covered(view)'
    BY <2>1, <2>3, <2>4 DEF Honest, Before, Covered
  <2> QED  BY <1>0, <2>1, <2>3, <2>5 DEF Handover, Watched, Safe, NoId
<1>11. CASE ApplyBatch \/ IdlePersist \/ CompactSnapshot \/ CompactSidecar \/ CompactFails
  <2>1. /\ UNCHANGED <<changes, gap, watching, cursor>> /\ watching # "off"
        /\ pc' \in {"idle", "compact", "sidecar"}
    <3>1. CASE ApplyBatch \/ IdlePersist
      BY <3>1 DEF ApplyBatch, IdlePersist, ntfsVars, watcherVars, Shape, StartOK
    <3>2. CASE CompactSnapshot \/ CompactSidecar \/ CompactFails
      BY <3>2 DEF CompactSnapshot, CompactSidecar, CompactFails, ntfsVars, watcherVars,
         Shape, StartOK
    <3> QED  BY <1>11, <3>1, <3>2
  <2>2. view'.base = view.base \/ view'.base.id = view.base.id
    <3>1. CASE ApplyBatch
      BY <1>0, <3>1 DEF ApplyBatch, View
    <3>2. CASE IdlePersist \/ CompactSnapshot
      BY <3>2 DEF IdlePersist, CompactSnapshot
    <3>3. CASE CompactSidecar
      BY <1>0, <3>3 DEF CompactSidecar, Base, Fresh, Coverage, CompactOK
    <3>4. CASE CompactFails
      BY <3>4 DEF CompactFails, Coverage, CompactOK
    <3> QED  BY <1>11, <3>1, <3>2, <3>3, <3>4
  <2> QED  BY <1>1, <1>2, <2>1, <2>2 DEF Handover, Watched
<1> DEFINE Kept ==
      /\ gap \subseteq gap' /\ UNCHANGED <<changes, view, cursor, watching>>
      /\ pc' \in {"drain", "swap", "apply"} => UNCHANGED vars
      /\ watching # "start" \/ UNCHANGED vars
<1>12. CASE Kept
  <2>1. CASE UNCHANGED vars
    BY <1>1, <2>1 DEF vars, Handover, Watched, Safe, Rebuilding, Covered
  <2>2. CASE ~UNCHANGED vars
    BY <1>1, <1>12, <2>2 DEF Handover
  <2> QED  BY <2>1, <2>2
<1>13. \/ NeedsFullReindex \/ BuildCursor \/ BuildSnapshot \/ BuildFails \/ Start
       \/ ResumeRefused
       => Kept
  BY DEF NeedsFullReindex, BuildCursor, BuildSnapshot, BuildFails, Start, ResumeRefused,
         ntfsVars, watcherVars, Shape, StartOK
<1>14. UNCHANGED vars => Kept
  BY DEF vars
<1>15. CASE Down
  BY <1>15 DEF Down, Handover
<1> QED
  BY <1>3, <1>4, <1>5, <1>6, <1>7, <1>8, <1>9, <1>10, <1>11, <1>12, <1>13, <1>14, <1>15
  DEF Next, Watcher, Worker, Failures, Crash, Shutdown

\* Every step keeps the coverage invariant.
LEMMA CoverageStep == Shape /\ Coverage /\ [Next]_vars => Coverage'
BY PositionsStep, PhaseStep, HonestStep, HandoverStep, QueueStep DEF Coverage

\* The daemon starts with it.
LEMMA InitCoverage == Init => Coverage
<1> SUFFICES ASSUME Init PROVE Coverage
  OBVIOUS
<1>1. /\ chan = <<>> /\ Len(chan) = 0 /\ journal.id = 1 /\ journal.next = 0 /\ changes = {}
      /\ cursor = NoCursor /\ pc = "down" /\ watching = "off" /\ replayNext = NoUsn
      /\ view = EmptyView /\ disk = NoSnapshot
  BY EmptySeq DEF Init
<1>2. PositionsOK
  BY <1>1 DEF PositionsOK, NotAhead, NoCursor, NoId
<1>3. BuildOK /\ CompactOK /\ FrnsOK
  BY <1>1 DEF BuildOK, CompactOK, FrnsOK, EmptyView, NoSnapshot
<1>4. HonestOK
  BY <1>1 DEF HonestOK, Honest, NotAhead, Before, Covered, Fresh, EmptyView, NoSnapshot, NoId
<1>5. HandoverOK /\ QueueOK
  BY <1>1 DEF HandoverOK, Handover, QueueOK
<1> QED  BY <1>2, <1>3, <1>4, <1>5 DEF Coverage

\* The coverage invariant holds throughout.
THEOREM CoverageAlways == Spec => []Coverage
<1>1. Shape /\ Coverage /\ [Next]_vars => Coverage'
  BY CoverageStep
<1> QED  BY <1>1, InitCoverage, ShapeAlways, PTL DEF Spec

\* ViewCoversCursor: the published view reflects every change that its cursor claims,
\* unless a known leak has happened (apply_batch, compact_view, build_view,
\* resume_view).
THEOREM ViewNeverOverclaims == Spec => []ViewCoversCursor
<1>1. Coverage => ViewCoversCursor
  BY DEF Coverage, HonestOK, Honest, ViewCoversCursor
<1> QED  BY <1>1, CoverageAlways, PTL

\* SnapshotCoversCursor: so does the snapshot on disk, wherever a crash falls, and
\* a restart that replays from its cursor misses nothing.
THEOREM SnapshotNeverOverclaims == Spec => []SnapshotCoversCursor
<1>1. Coverage => SnapshotCoversCursor
  BY DEF Coverage, HonestOK, Honest, Fresh, Covered, SnapshotCoversCursor
<1> QED  BY <1>1, CoverageAlways, PTL

\* NothingDropped: a change the watcher has passed is shown, queued, in the batch or
\* owed to a rebuild: try_send, take_overflow and the drain loop lose none.
THEOREM NothingIsDropped == Spec => []NothingDropped
<1>1. Coverage => NothingDropped
  BY DEF Coverage, QueueOK, Certain, Watched, NothingDropped
<1> QED  BY <1>1, CoverageAlways, PTL

-----------------------------------------------------------------------------
(***************************************************************************)
(* VolumeFeed implements VisibleIndex: what is once shown stays shown, for *)
(* every channel capacity, number of records, journals and starts.         *)
(*                                                                         *)
(* The step in question is a restart: what the last view showed must be in *)
(* the snapshot that is resumed, or be replayed. A change that neither     *)
(* does is missed; the invariant says that nothing missed was shown, or is *)
(* still on its way to be shown, whatever known leaks have happened.       *)
(***************************************************************************)

\* What a resume of a snapshot would neither find in it nor replay.
Missed(d) == Before(d.id, d.next) \ d.covered

\* The snapshot on disk, and those that the views would be written as.
Snapshots == {disk, SnapshotOf(view), SnapshotOf(next)}

\* The position from which the watcher has yet to hand records over.
Position == IF watching = "start" THEN cursor.next ELSE startUsn

\* The changes that may still come to the worker.
InQueue == {<<cursor.id, chan[i].usn>> : i \in {j \in 1 .. Len(chan) : chan[j].kind = "change"}}
Unread == IF watching \in {"start", "read", "send"}
          THEN {c \in changes : c[1] = cursor.id /\ c[2] >= Position} ELSE {}
Pending == InQueue \cup Unread

\* A snapshot with a cursor has all changes of earlier journals, which are closed;
\* its journal is the watched one, which has reached its position, or a later
\* one; and it misses nothing that is on its way.
Resumable(d) ==
  /\ d.id <= journal.id
  /\ \A c \in changes : c[1] < d.id => c \in d.covered
  /\ watching # "off" =>
       /\ d.id = NoId \/ cursor.id <= d.id
       /\ d.id = cursor.id => NotAhead(d.id, d.next)
       /\ watching = "start" => d.id \in {NoId, cursor.id}
  /\ Pending \cap Missed(d) = {}

ResumableOK == \A d \in Snapshots : Resumable(d)

\* A build's journal is not older than the watched one, and nothing is left in
\* hand of a compaction that is over.
BuiltOK ==
  /\ pc \in {"enumerate", "buildSidecar"} => built.id = NoId \/ cursor.id <= built.id
  /\ pc \notin {"compact", "sidecar"} => next = EmptyView

\* Messages are in the journal's order, after the position that was received.
OrderOK ==
  /\ replayNext <= startUsn
  /\ \A i \in 1 .. Len(chan) :
       /\ replayNext <= chan[i].usn /\ chan[i].usn <= startUsn
       /\ \A j \in 1 .. i : chan[j].usn <= chan[i].usn

\* Nothing that is shown or about to be is missed.
ShownOK == (Covered(view) \cup Covered(next) \cup batch) \cap Missed(disk) = {}

\* The inductive invariant behind the refinement.
Replayable == ResumableOK /\ BuiltOK /\ OrderOK /\ ShownOK

-----------------------------------------------------------------------------
\* The numbers and sets in snapshots, changes and messages.
LEMMA SnapshotFields ==
  ASSUME Shape
  PROVE  /\ \A d \in Snapshots : d.id \in Nat /\ d.next \in Nat /\ d.covered \subseteq changes
         /\ InQueue \subseteq changes
         /\ \A c \in changes : c = <<c[1], c[2]>> /\ c[1] <= journal.id
                               /\ (c[1] = journal.id => c[2] < journal.next)
<1>1. disk \in Base /\ SnapshotOf(view) \in Base /\ SnapshotOf(next) \in Base
  BY ViewFields, SnapshotTypes
<1>2. \A d \in Snapshots : d.id \in Nat /\ d.next \in Nat /\ d.covered \subseteq changes
  BY <1>1 DEF Snapshots, Base
<1>3. InQueue \subseteq changes
  BY DEF InQueue, Shape, ChanOK
<1>4. \A c \in changes : c = <<c[1], c[2]>>
  BY DEF Shape, TypeOK, NtfsTypes
<1>5. \A c \in changes : c[1] <= journal.id /\ (c[1] = journal.id => c[2] < journal.next)
  BY Fields DEF Shape, JournalOK, Made
<1> QED  BY <1>2, <1>3, <1>4, <1>5

\* A view and what it would be written as.
LEMMA SnapshotOfFields ==
  ASSUME NEW v
  PROVE  /\ SnapshotOf(v).covered = Covered(v) /\ SnapshotOf(v).id = v.base.id
         /\ SnapshotOf(v).next = v.next
BY DEF SnapshotOf

\* An empty view misses nothing.
LEMMA EmptyFields ==
  /\ SnapshotOf(EmptyView).id = NoId /\ Covered(EmptyView) = {}
BY DEF SnapshotOf, Covered, EmptyView, NoSnapshot

\* A snapshot without a cursor claims nothing, and so misses nothing.
LEMMA NothingBefore ==
  ASSUME Shape, NEW usn PROVE Before(NoId, usn) = {}
<1>1. \A c \in changes : c[1] \in Nat /\ 1 <= c[1]
  BY Fields
<1> QED  BY <1>1 DEF Before, NoId

-----------------------------------------------------------------------------
\* The volume's own steps: a new change lies at or after every position that
\* its journal's snapshots have.
LEMMA NtfsKeeps ==
  ASSUME Shape, Coverage, Replayable, Ntfs
  PROVE  Replayable'
<1>1. /\ UNCHANGED <<watching, cursor, startUsn, readUsn, chan, pc, batch, replayNext, built, next, view, disk>>
      /\ changes \subseteq changes'
      /\ \A id \in Nat, usn \in Int : NotAhead(id, usn) => NotAhead(id, usn)'
  BY JournalMoves DEF daemonVars, watcherVars
<1>2. journal.id \in Nat /\ journal.next \in Nat /\ 1 <= journal.id /\ cursor.id \in Nat
  BY Fields
<1> DEFINE n == <<journal.id, journal.next>>
<1>3. /\ journal'.id \in Nat /\ journal.id <= journal'.id
      /\ changes' \subseteq changes \cup {n} /\ n \notin changes
      /\ n[1] = journal.id /\ n[2] = journal.next
  <2>1. CASE FsChange
    BY <2>1, <1>2, SnapshotFields DEF FsChange, Shape, TypeOK, NtfsTypes
  <2>2. CASE JournalAges
    BY <2>2, <1>2, SnapshotFields DEF JournalAges, Shape, TypeOK, NtfsTypes
  <2>3. CASE JournalReplaced
    BY <2>3, <1>2, SnapshotFields DEF JournalReplaced, Shape, TypeOK, NtfsTypes
  <2> QED  BY <2>1, <2>2, <2>3 DEF Ntfs
<1> HIDE DEF n
<1>4. Snapshots' = Snapshots
  BY <1>1 DEF Snapshots, SnapshotOf, Covered
<1>5. ResumableOK'
  <2> SUFFICES ASSUME NEW d \in Snapshots' PROVE Resumable(d)'
    BY DEF ResumableOK
  <2>1. Resumable(d) /\ d.id \in Nat /\ d.next \in Nat
    BY <1>4, SnapshotFields DEF Replayable, ResumableOK
  <2>2. d.id <= journal'.id
    BY <2>1, <1>2, <1>3 DEF Resumable
  <2>3. \A c \in changes' : c[1] < d.id => c \in d.covered
    BY <2>1, <1>2, <1>3 DEF Resumable
  <2>4. watching # "off" =>
          /\ d.id = NoId \/ cursor.id <= d.id
          /\ d.id = cursor.id => NotAhead(d.id, d.next)'
          /\ watching = "start" => d.id \in {NoId, cursor.id}
    BY <2>1, <1>1 DEF Resumable
  <2>5. ASSUME NEW c \in Pending', c \in Missed(d)' PROVE FALSE
    <3>1. CASE c \in changes
      <4>1. c \in Missed(d)
        BY <2>5, <3>1 DEF Missed, Before
      <4>2. c \in Pending
        BY <2>5, <3>1, <1>1 DEF Pending, InQueue, Unread, Position
      <4> QED  BY <4>1, <4>2, <2>1 DEF Resumable
    <3>2. CASE c = n
      <4>1. c \notin InQueue'
        BY <3>2, <1>1, <1>3, SnapshotFields DEF InQueue
      <4>2. watching # "off" /\ journal.id = cursor.id
        BY <4>1, <2>5, <3>2, <1>1, <1>3 DEF Pending, Unread
      <4>3. d.id = NoId \/ (d.id = journal.id /\ d.next <= journal.next)
        BY <4>2, <2>1, <1>2 DEF Resumable, NotAhead
      <4>4. ~(n[1] < d.id) /\ ~(n[1] = d.id /\ n[2] < d.next)
        BY <4>3, <2>1, <1>2, <1>3 DEF NoId
      <4> QED  BY <4>4, <2>5, <3>2 DEF Missed, Before
    <3>3. c \in changes'
      BY <2>5 DEF Missed, Before
    <3> QED  BY <3>1, <3>2, <3>3, <1>3
  <2> QED  BY <2>2, <2>3, <2>4, <2>5, <1>1 DEF Resumable
<1>6. BuiltOK' /\ OrderOK'
  BY <1>1 DEF Replayable, BuiltOK, OrderOK
<1>7. ShownOK'
  <2>1. Covered(view) \cup Covered(next) \cup batch \subseteq changes
    BY ViewFields DEF Shape, TypeOK, WorkerTypes, View, Base, Covered
  <2>2. changes \cap Missed(disk)' \subseteq Missed(disk)
    BY <1>1 DEF Missed, Before
  <2> QED  BY <2>1, <2>2, <1>1 DEF Replayable, ShownOK, Covered
<1> QED  BY <1>5, <1>6, <1>7 DEF Replayable

-----------------------------------------------------------------------------
\* A step of the watcher or a message received: what is on its way gets no more,
\* and no snapshot changes.
LEMMA SnapshotsWait ==
  ASSUME Shape, ResumableOK, UNCHANGED <<journal, changes, next, view, disk>>, Pending' \subseteq Pending,
         watching' # "off" /\ watching' # "start",
         \/ UNCHANGED cursor /\ watching # "off"
         \/ watching = "start" /\ cursor.id = NoId /\ cursor'.id = journal.id
  PROVE  ResumableOK'
<1>1. Snapshots' = Snapshots
  BY DEF Snapshots, SnapshotOf, Covered
<1> SUFFICES ASSUME NEW d \in Snapshots' PROVE Resumable(d)'
  BY DEF ResumableOK
<1>2. Resumable(d)
  BY <1>1 DEF ResumableOK
<1>3. Pending' \cap Missed(d)' = {}
  BY <1>2 DEF Resumable, Missed, Before
<1>4. 1 <= journal.id
  BY Fields
<1> QED  BY <1>2, <1>3, <1>4 DEF Resumable, NotAhead, NoId

\* What the watcher hands over moves from the journal to the channel, behind the
\* messages that are there.
LEMMA WatcherKeeps ==
  ASSUME Shape, Coverage, Replayable, Watcher \/ WatchFails
  PROVE  Replayable'
<1>0. /\ cursor.id \in Nat /\ cursor.next \in Nat /\ startUsn \in Nat /\ readUsn \in Nat
      /\ journal.id \in Nat /\ journal.next \in Nat /\ 1 <= journal.id
      /\ replayNext \in Int /\ Len(chan) \in Nat
      /\ \A i \in 1 .. Len(chan) : chan[i].usn \in Nat
      /\ \A c \in changes : c = <<c[1], c[2]>> /\ c[1] \in Nat /\ c[2] \in Nat
  BY Fields, SnapshotFields
<1>1. UNCHANGED <<journal, changes, pc, batch, replayNext, built, next, view, disk>>
  BY DEF Watcher, WatchStart, WatchRead, WatchSend, WatchAdvance, WatchFails, ntfsVars, workerVars
<1>2. ShownOK'
  BY <1>1 DEF Replayable, ShownOK, Covered, Missed, Before
<1>3. ResumableOK /\ OrderOK /\ BuiltOK
  BY DEF Replayable
<1>4. CASE WatchStart
  <2>1. /\ watching = "start" /\ watching' = "read" /\ UNCHANGED chan
        /\ chan = <<>> /\ Len(chan) = 0
        /\ pc \in {"idle", "compact", "sidecar"} /\ replayNext = NoUsn
    BY <1>4, EmptySeq DEF WatchStart, Shape, StartOK, BatchOK
  <2>2. OrderOK'
    <3>1. startUsn' \in Nat
      BY <1>0, <1>4 DEF WatchStart
    <3> QED  BY <2>1, <3>1, <1>1 DEF OrderOK, NoUsn
  <2>3. BuiltOK'
    BY <2>1, <1>1, <1>3 DEF BuiltOK
  <2>4. InQueue' = {}
    BY <2>1 DEF InQueue
  <2>5. CASE cursor.id = NoId /\ cursor' = [id |-> journal.id, next |-> journal.next] /\ startUsn' = journal.next
    <3>1. Unread' = {}
      BY <2>1, <2>5, <1>0, <1>1, SnapshotFields DEF Unread, Position
    <3>2. ResumableOK'
      BY <3>1, <2>1, <2>4, <2>5, <1>1, <1>3, SnapshotsWait DEF Pending
    <3> QED  BY <3>2, <2>2, <2>3, <1>2 DEF Replayable
  <2>6. CASE UNCHANGED cursor /\ startUsn' = cursor.next
    <3>1. Unread' = Unread
      BY <2>1, <2>6, <1>1 DEF Unread, Position
    <3>2. ResumableOK'
      BY <3>1, <2>1, <2>4, <2>6, <1>1, <1>3, SnapshotsWait DEF Pending
    <3> QED  BY <3>2, <2>2, <2>3, <1>2 DEF Replayable
  <2> QED  BY <1>4, <2>5, <2>6 DEF WatchStart
<1>5. CASE WatchRead \/ WatchFails
  <2>1. /\ UNCHANGED <<cursor, startUsn, chan>> /\ watching \in {"start", "read"}
        /\ \/ watching = "read" /\ watching' = "send"
           \/ watching' = "dead"
    BY <1>5 DEF WatchRead, WatchFails
  <2>2. Pending' \subseteq Pending
    BY <2>1, <1>1 DEF Pending, InQueue, Unread, Position
  <2>3. ResumableOK'
    BY <2>1, <2>2, <1>1, <1>3, SnapshotsWait
  <2>4. OrderOK' /\ BuiltOK'
    BY <2>1, <1>1, <1>3 DEF OrderOK, BuiltOK
  <2> QED  BY <2>3, <2>4, <1>2 DEF Replayable
<1>6. CASE WatchSend \/ WatchAdvance
  <2> DEFINE kind == IF <<cursor.id, startUsn>> \in changes THEN "change" ELSE "ignored"
  <2>1. /\ UNCHANGED cursor /\ watching = "send" /\ watching' \in {"read", "send"}
        /\ \/ startUsn' = startUsn + 1 /\ TrySend(Message(kind, startUsn))
           \/ startUsn' = startUsn /\ TrySend(Message("advanced", startUsn))
    BY <1>6 DEF WatchSend, WatchAdvance
  <2>2. PICK m \in Messages :
          /\ TrySend(m) /\ m.usn = startUsn
          /\ m.kind = "change" => startUsn' = startUsn + 1 /\ <<cursor.id, startUsn>> \in changes
    <3>1. CASE startUsn' = startUsn + 1 /\ TrySend(Message(kind, startUsn))
      <4>1. /\ Message(kind, startUsn) \in Messages /\ Message(kind, startUsn).usn = startUsn
            /\ Message(kind, startUsn).kind = kind
        BY <1>0 DEF Message, Messages
      <4>2. kind = "change" => <<cursor.id, startUsn>> \in changes
        OBVIOUS
      <4> HIDE DEF kind
      <4> QED  BY <3>1, <4>1, <4>2
    <3>2. CASE TrySend(Message("advanced", startUsn))
      <4>1. /\ Message("advanced", startUsn) \in Messages
            /\ Message("advanced", startUsn).usn = startUsn
            /\ Message("advanced", startUsn).kind = "advanced"
        BY <1>0 DEF Message, Messages
      <4> QED  BY <3>2, <4>1
    <3> QED  BY <2>1, <3>1, <3>2
  <2>3. /\ Len(chan') \in Nat
        /\ \A i \in 1 .. Len(chan') :
             \/ i \in 1 .. Len(chan) /\ chan'[i] = chan[i]
             \/ i = Len(chan') /\ chan'[i] = m
    <3>1. chan' \in Seq(Messages)
      BY <2>2, TrySendStep DEF Shape, TypeOK
    <3> QED  BY <3>1, <2>2, TrySendStep, LenProperties DEF Shape, TypeOK
  <2>4. startUsn' \in Nat /\ startUsn <= startUsn'
    BY <2>1, <1>0
  <2>5. OrderOK'
    <3>1. replayNext' <= startUsn'
      BY <2>4, <1>0, <1>1, <1>3 DEF OrderOK
    <3>2. ASSUME NEW i \in 1 .. Len(chan')
          PROVE  replayNext' <= chan'[i].usn /\ chan'[i].usn <= startUsn /\ chan'[i].usn \in Nat
      <4>1. CASE i \in 1 .. Len(chan) /\ chan'[i] = chan[i]
        BY <4>1, <1>0, <1>1, <1>3 DEF OrderOK
      <4>2. CASE chan'[i] = m
        BY <4>2, <2>2, <1>0, <1>1, <1>3 DEF OrderOK
      <4> QED  BY <4>1, <4>2, <2>3
    <3>3. ASSUME NEW i \in 1 .. Len(chan'), NEW j \in 1 .. i PROVE chan'[j].usn <= chan'[i].usn
      <4>1. j \in 1 .. Len(chan')
        BY <2>3
      <4>2. CASE i \in 1 .. Len(chan) /\ chan'[i] = chan[i]
        <5>1. CASE j = Len(chan')
          <6>1. j = i
            BY <5>1, <2>3
          <6> QED  BY <6>1, <3>2, <1>0
        <5>2. CASE j \in 1 .. Len(chan) /\ chan'[j] = chan[j]
          BY <4>2, <5>2, <1>3 DEF OrderOK
        <5> QED  BY <5>1, <5>2, <4>1, <2>3
      <4>3. CASE chan'[i] = m
        BY <4>1, <4>3, <3>2, <2>2
      <4> QED  BY <4>2, <4>3, <2>3
    <3> QED  BY <3>1, <3>2, <3>3, <2>4, <1>0 DEF OrderOK
  <2>6. Pending' \subseteq Pending
    <3>1. ASSUME NEW c \in InQueue' PROVE c \in Pending
      <4>1. PICK i \in 1 .. Len(chan') : chan'[i].kind = "change" /\ c = <<cursor.id, chan'[i].usn>>
        BY <3>1, <2>1 DEF InQueue
      <4>2. CASE i \in 1 .. Len(chan) /\ chan'[i] = chan[i]
        BY <4>1, <4>2 DEF Pending, InQueue
      <4>3. CASE chan'[i] = m
        <5>1. c = <<cursor.id, startUsn>> /\ c \in changes
          BY <4>1, <4>3, <2>2
        <5> QED  BY <5>1, <2>1, <1>0 DEF Pending, Unread, Position
      <4> QED  BY <4>2, <4>3, <2>3
    <3>2. Unread' \subseteq Unread
      BY <2>1, <2>4, <1>0, <1>1 DEF Unread, Position
    <3> QED  BY <3>1, <3>2 DEF Pending
  <2>7. ResumableOK'
    BY <2>1, <2>6, <1>1, <1>3, SnapshotsWait
  <2>8. BuiltOK'
    BY <2>1, <1>1, <1>3 DEF BuiltOK
  <2> QED  BY <2>5, <2>7, <2>8, <1>2 DEF Replayable
<1> QED  BY <1>4, <1>5, <1>6 DEF Watcher

\* What is received was queued; the position received is before all that is left.
LEMMA ReceiveKeeps ==
  ASSUME Shape, Coverage, Replayable, Receive
  PROVE  Replayable'
<1>0. /\ cursor.id \in Nat /\ replayNext \in Int /\ Len(chan) \in Nat /\ startUsn \in Nat
      /\ chan \in Seq(Messages) /\ \A i \in 1 .. Len(chan) : chan[i].usn \in Nat
  BY Fields DEF Shape, TypeOK, WatcherTypes
<1>1. /\ UNCHANGED <<journal, changes, watching, cursor, startUsn, built, next, view, disk>>
      /\ chan # <<>> /\ chan' = Tail(chan) /\ pc \in {"idle", "drain"} /\ pc' = "drain"
      /\ batch' = IF Head(chan).kind = "change" THEN batch \cup {<<cursor.id, Head(chan).usn>>} ELSE batch
      /\ replayNext' = IF Head(chan).kind = "advanced" THEN Head(chan).usn ELSE replayNext
      /\ watching \notin {"off", "start"}
  BY DEF Receive, ntfsVars, watcherVars, Shape, StartOK
<1>2. /\ Len(chan') = Len(chan) - 1 /\ Head(chan) = chan[1] /\ 1 \in 1 .. Len(chan)
      /\ \A i \in 1 .. Len(chan') : chan'[i] = chan[i + 1] /\ i + 1 \in 1 .. Len(chan)
  <2>1. /\ Len(Tail(chan)) = Len(chan) - 1 /\ Head(chan) = chan[1] /\ 1 \in 1 .. Len(chan)
        /\ \A i \in 1 .. Len(Tail(chan)) : Tail(chan)[i] = chan[i + 1]
    BY <1>0, <1>1, HeadTailProperties, EmptySeq
  <2> QED  BY <2>1, <1>0, <1>1
<1>3. ResumableOK /\ OrderOK /\ BuiltOK /\ ShownOK
  BY DEF Replayable
<1>4. Pending' \subseteq Pending
  <2>1. InQueue' \subseteq InQueue
    BY <1>1, <1>2 DEF InQueue
  <2>2. Unread' = Unread
    BY <1>1 DEF Unread, Position
  <2> QED  BY <2>1, <2>2 DEF Pending
<1>5. ResumableOK'
  BY <1>1, <1>3, <1>4, SnapshotsWait
<1>6. BuiltOK'
  BY <1>1, <1>3 DEF BuiltOK
<1>7. OrderOK'
  <2>1. replayNext' \in {replayNext, chan[1].usn}
    BY <1>1, <1>2
  <2>2. \A i \in 1 .. Len(chan) : replayNext' <= chan[i].usn /\ chan[i].usn <= startUsn
    <3>1. \A i \in 1 .. Len(chan) : 1 \in 1 .. i
      BY <1>0
    <3> QED  BY <2>1, <3>1, <1>0, <1>3 DEF OrderOK
  <2>3. replayNext' <= startUsn
    BY <2>2, <1>2, <1>0, <2>1
  <2>4. ASSUME NEW i \in 1 .. Len(chan'), NEW j \in 1 .. i PROVE chan'[j].usn <= chan'[i].usn
    <3>1. j \in 1 .. Len(chan') /\ j + 1 \in 1 .. i + 1
      BY <1>0, <1>2
    <3> QED  BY <3>1, <1>2, <1>3 DEF OrderOK
  <2> QED  BY <2>2, <2>3, <2>4, <1>1, <1>2 DEF OrderOK
<1>8. ShownOK'
  <2>1. disk \in Snapshots
    BY DEF Snapshots
  <2>2. Pending \cap Missed(disk) = {}
    BY <2>1, <1>3 DEF ResumableOK, Resumable
  <2>3. batch' \subseteq batch \cup InQueue
    BY <1>1, <1>2 DEF InQueue
  <2>4. Missed(disk)' = Missed(disk)
    BY <1>1 DEF Missed, Before
  <2> QED  BY <2>2, <2>3, <2>4, <1>1, <1>3 DEF ShownOK, Pending, Covered
<1> QED  BY <1>5, <1>6, <1>7, <1>8 DEF Replayable

-----------------------------------------------------------------------------
\* A snapshot that claims no more than one that could be resumed, and covers no less.
Like(d, e) == d.id = e.id /\ d.next = e.next /\ e.covered \subseteq d.covered

\* While nothing more comes on its way, snapshots like those of before, or without a
\* cursor, can be resumed.
LEMMA LikeSnapshots ==
  ASSUME Shape, ResumableOK, UNCHANGED <<journal, changes, watching, cursor>>,
         Pending' \subseteq Pending,
         \A d \in Snapshots' : d.id = NoId \/ \E e \in Snapshots : Like(d, e)
  PROVE  ResumableOK'
<1> SUFFICES ASSUME NEW d \in Snapshots' PROVE Resumable(d)'
  BY DEF ResumableOK
<1>1. CASE d.id = NoId
  <2>1. journal.id \in Nat /\ 1 <= journal.id /\ cursor.id \in Nat
        /\ \A c \in changes : c[1] \in Nat /\ 1 <= c[1]
    BY Fields
  <2>2. Missed(d)' = {}
    BY <1>1, <2>1 DEF Missed, Before, NoId
  <2> QED  BY <1>1, <2>1, <2>2 DEF Resumable, NotAhead, NoId
<1>2. CASE \E e \in Snapshots : Like(d, e)
  <2>1. PICK e : Resumable(e) /\ Like(d, e)
    BY <1>2 DEF ResumableOK
  <2>2. Missed(d)' \subseteq Missed(e)
    BY <2>1 DEF Missed, Before, Like
  <2> QED  BY <2>1, <2>2 DEF Resumable, NotAhead, Like
<1> QED  BY <1>1, <1>2

\* The steps of the worker that leave the watcher and the channel alone.
Alone == UNCHANGED <<journal, changes, watching, cursor, startUsn, chan>>

\* They leave what is on its way there.
LEMMA AlonePending == Alone => Pending' = Pending
BY DEF Alone, Pending, InQueue, Unread, Position

\* The messages' order is kept when no position, or the same, is in hand.
LEMMA OrderKept ==
  ASSUME Shape, OrderOK, UNCHANGED <<startUsn, chan>>, replayNext' \in {replayNext, NoUsn}
  PROVE  OrderOK'
<1>1. startUsn \in Nat /\ \A i \in 1 .. Len(chan) : chan[i].usn \in Nat
  BY Fields
<1> QED  BY <1>1 DEF OrderOK, NoUsn

\* The steps that change neither a view nor the snapshot.
LEMMA ViewsWait ==
  ASSUME Shape, Coverage, Replayable,
         \/ DrainTimeout \/ TakeOverflow \/ NeedsFullReindex \/ BuildCursor
         \/ BuildFails \/ Start \/ ResumeRefused
  PROVE  Replayable'
<1>1. Alone /\ UNCHANGED <<next, view, disk>> /\ batch' \in {batch, {}}
      /\ replayNext' \in {replayNext, NoUsn}
      /\ pc \notin {"compact", "sidecar"}
  BY DEF DrainTimeout, TakeOverflow, NeedsFullReindex, BatchDone, BuildCursor, BuildFails,
         Start, ResumeRefused, ntfsVars, watcherVars, Alone
<1>2. ResumableOK /\ BuiltOK /\ OrderOK /\ ShownOK
  BY DEF Replayable
<1>3. ResumableOK'
  <2>1. Snapshots' = Snapshots
    BY <1>1 DEF Snapshots, SnapshotOf, Covered
  <2> QED  BY <1>1, <1>2, <2>1, AlonePending, LikeSnapshots DEF Alone, Like
<1>4. OrderOK'
  BY <1>1, <1>2, OrderKept DEF Alone
<1>5. ShownOK'
  BY <1>1, <1>2 DEF Alone, ShownOK, Covered, Missed, Before
<1>6. BuiltOK'
  <2>1. CASE BuildCursor
    <3>1. built'.id \in {NoId, journal.id} /\ UNCHANGED cursor
      BY <2>1 DEF BuildCursor, watcherVars
    <3> QED  BY <3>1, <1>1, <1>2 DEF Coverage, PositionsOK, BuiltOK
  <2>2. CASE pc' \notin {"enumerate", "buildSidecar"}
    BY <2>2, <1>1, <1>2 DEF BuiltOK
  <2> QED
    BY <2>1, <2>2 DEF DrainTimeout, TakeOverflow, NeedsFullReindex, BuildFails, Start,
                      ResumeRefused
<1> QED  BY <1>3, <1>4, <1>5, <1>6 DEF Replayable

\* A compaction writes what it publishes, and at least what the view showed.
LEMMA CompactionKeeps ==
  ASSUME Shape, Coverage, Replayable,
         IdlePersist \/ CompactSnapshot \/ CompactSidecar \/ CompactFails
  PROVE  Replayable'
<1>1. /\ Alone /\ UNCHANGED <<batch, replayNext>> /\ pc' \in {"compact", "sidecar", "idle"}
      /\ pc' = "idle" => next' = EmptyView
  BY DEF IdlePersist, CompactSnapshot, CompactSidecar, CompactFails, ntfsVars, watcherVars, Alone
<1>2. ResumableOK /\ BuiltOK /\ OrderOK /\ ShownOK
  BY DEF Replayable
<1>3. OrderOK'
  BY <1>1, <1>2, OrderKept DEF Alone
<1>4. BuiltOK'
  BY <1>1 DEF BuiltOK
<1>5. SnapshotOf(EmptyView).id = NoId /\ Covered(EmptyView) = {}
  BY EmptyFields
<1>6. \A v : SnapshotOf(v).covered = Covered(v) /\ SnapshotOf(v).id = v.base.id
             /\ SnapshotOf(v).next = v.next
  BY SnapshotOfFields
<1>7. pc \in {"compact", "sidecar"} => Covered(view) \subseteq Covered(next) /\ batch = {}
  BY DEF Coverage, CompactOK, Shape, BatchOK
<1>8. pc = "sidecar" =>
        disk.covered = Covered(next) /\ disk.id = next.base.id /\ disk.next = next.next
  BY DEF Coverage, CompactOK
<1> SUFFICES /\ \A d \in Snapshots' : d.id = NoId \/ \E e \in Snapshots : Like(d, e)
             /\ ShownOK'
  BY <1>1, <1>2, <1>3, <1>4, AlonePending, LikeSnapshots DEF Alone, Replayable
<1>9. disk \in Snapshots /\ SnapshotOf(view) \in Snapshots /\ SnapshotOf(next) \in Snapshots
  BY DEF Snapshots
<1>10. CASE IdlePersist
  <2>1. next' = view /\ UNCHANGED <<view, disk>>
    BY <1>10 DEF IdlePersist
  <2>2. \A d \in Snapshots' : d \in Snapshots
    BY <2>1 DEF Snapshots, SnapshotOf, Covered
  <2>3. ShownOK'
    BY <2>1, <1>1, <1>2 DEF ShownOK, Covered, Missed, Before, Alone
  <2> QED  BY <2>2, <2>3 DEF Like
<1>11. CASE CompactSnapshot
  <2>1. disk' = SnapshotOf(next) /\ UNCHANGED <<view, next>> /\ pc = "compact"
    BY <1>11 DEF CompactSnapshot
  <2>2. \A d \in Snapshots' : d \in Snapshots
    BY <2>1 DEF Snapshots, SnapshotOf, Covered
  <2>3. disk'.covered = Covered(next)
    BY <2>1, <1>6
  <2>4. ShownOK'
    BY <2>1, <2>3, <1>1, <1>7 DEF ShownOK, Covered, Missed
  <2> QED  BY <2>2, <2>4 DEF Like
<1>12. CASE CompactSidecar
  <2>1. /\ pc = "sidecar" /\ disk' = [disk EXCEPT !.frns = MergedFrns(next)]
        /\ view' \in {Fresh(disk'), next} /\ next' = EmptyView
    BY <1>12 DEF CompactSidecar
  <2>2. disk'.covered = disk.covered /\ disk'.id = disk.id /\ disk'.next = disk.next
    BY <2>1, ViewFields DEF Base
  <2>3. view'.base.id = disk.id /\ view'.next = disk.next /\ Covered(view)' = disk.covered
    <3>1. CASE view' = Fresh(disk')
      BY <3>1, <2>2 DEF Fresh, Covered
    <3>2. CASE view' = next
      BY <3>2, <2>1, <1>8 DEF Covered
    <3> QED  BY <3>1, <3>2, <2>1
  <2>4. \A d \in Snapshots' : d.id = NoId \/ Like(d, disk)
    <3>1. ASSUME NEW d \in Snapshots' PROVE d = disk' \/ d = SnapshotOf(view') \/ d = SnapshotOf(EmptyView)
      BY <2>1 DEF Snapshots, SnapshotOf, Covered
    <3>2. Like(disk', disk)
      BY <2>2 DEF Like
    <3>3. Like(SnapshotOf(view'), disk)
      BY <2>3 DEF Like, SnapshotOf, Covered
    <3> QED  BY <3>1, <3>2, <3>3, <1>5
  <2>5. ShownOK'
    BY <2>1, <2>2, <2>3, <1>1, <1>5, <1>7 DEF ShownOK, Missed, Covered
  <2> QED  BY <2>4, <2>5, <1>9
<1>13. CASE CompactFails
  <2>1. /\ pc \in {"compact", "sidecar"} /\ view' = next /\ next' = EmptyView
        /\ UNCHANGED disk
    BY <1>13 DEF CompactFails
  <2>2. \A d \in Snapshots' : d \in Snapshots \/ d = SnapshotOf(EmptyView)
    BY <2>1 DEF Snapshots, SnapshotOf, Covered
  <2>3. Covered(view)' = Covered(next) /\ Covered(next)' = {} /\ Missed(disk)' = Missed(disk)
    BY <2>1, <1>1, <1>5 DEF Covered, Missed, Before, Alone
  <2>4. ShownOK'
    BY <2>3, <1>1, <1>2 DEF ShownOK
  <2> QED  BY <2>2, <2>4, <1>5 DEF Like
<1> QED  BY <1>10, <1>11, <1>12, <1>13

\* What is left behind a batch, in the channel or the journal, is after the position
\* that the batch brought.
LEMMA PendingAfterBatch ==
  ASSUME Shape, OrderOK, watching # "start", NEW c \in Pending
  PROVE  c[1] = cursor.id /\ replayNext <= c[2]
<1>1. /\ cursor.id \in Nat /\ replayNext \in Int /\ startUsn \in Nat
      /\ \A d \in changes : d[2] \in Nat
  BY Fields
<1>2. CASE c \in InQueue
  BY <1>2 DEF InQueue, OrderOK
<1>3. CASE c \in Unread
  BY <1>1, <1>3 DEF Unread, Position, OrderOK
<1> QED  BY <1>2, <1>3 DEF Pending

\* A batch that is applied in whole or in part misses nothing that is still to come.
LEMMA ApplyKeeps ==
  ASSUME Shape, Coverage, Replayable, ApplyBatch
  PROVE  Replayable'
<1>1. /\ Alone /\ pc = "apply" /\ batch' = {} /\ replayNext' = NoUsn /\ UNCHANGED disk
      /\ pc' \in {"idle", "compact"}
      /\ pc' = "idle" => UNCHANGED next
      /\ watching \notin {"off", "start"}
  BY DEF ApplyBatch, BatchDone, ntfsVars, watcherVars, Alone, Shape, StartOK
<1>2. ResumableOK /\ BuiltOK /\ OrderOK /\ ShownOK
  BY DEF Replayable
<1>3. OrderOK'
  BY <1>1, <1>2, OrderKept DEF Alone
<1>4. BuiltOK'
  BY <1>1, <1>2 DEF BuiltOK
<1>5. batch \subseteq changes /\ view \in View
  BY ViewFields DEF Shape, TypeOK, WorkerTypes
<1>6. PICK delta \in Applied(view, batch) :
        LET v == [view EXCEPT !.delta = delta,
                              !.next = IF replayNext = NoUsn THEN @ ELSE replayNext]
        IN \/ view' = v /\ UNCHANGED next
           \/ next' = v /\ UNCHANGED view
  BY DEF ApplyBatch
<1>7. view.delta \subseteq delta /\ delta \subseteq view.delta \cup batch
  BY <1>5, <1>6, AppliedBounds
<1>8. PICK v : /\ v.base = view.base /\ v.delta = delta
               /\ v.next = IF replayNext = NoUsn THEN view.next ELSE replayNext
               /\ \/ view' = v /\ UNCHANGED next
                  \/ next' = v /\ UNCHANGED view
  <2> DEFINE v == [view EXCEPT !.delta = delta,
                               !.next = IF replayNext = NoUsn THEN @ ELSE replayNext]
  <2>1. /\ v.base = view.base /\ v.delta = delta
        /\ v.next = IF replayNext = NoUsn THEN view.next ELSE replayNext
    BY <1>5 DEF View
  <2> QED  BY <2>1, <1>6
<1>9. Covered(view) \subseteq Covered(v) /\ Covered(v) \subseteq Covered(view) \cup batch
  BY <1>7, <1>8 DEF Covered
<1>10. SnapshotOf(v).covered = Covered(v) /\ SnapshotOf(v).id = view.base.id
       /\ SnapshotOf(v).next = v.next
  BY <1>8, SnapshotOfFields
<1>11. Resumable(SnapshotOf(view)) /\ SnapshotOf(view).covered = Covered(view)
       /\ SnapshotOf(view).id = view.base.id /\ SnapshotOf(view).next = view.next
  BY <1>2, SnapshotOfFields DEF ResumableOK, Snapshots
<1>12. Resumable(SnapshotOf(v))'
  <2>1. PICK d : d = SnapshotOf(v)
    OBVIOUS
  <2>2. d.covered = Covered(v) /\ d.id = view.base.id /\ d.next = v.next
    BY <2>1, <1>10
  <2>3. /\ d.id <= journal.id
        /\ \A c \in changes : c[1] < d.id => c \in d.covered
        /\ d.id = NoId \/ cursor.id <= d.id
    BY <2>2, <1>1, <1>9, <1>11 DEF Resumable
  <2>4. d.id = cursor.id => NotAhead(d.id, d.next)
    BY <2>2, <1>1, <1>8, <1>11 DEF Resumable, Coverage, PositionsOK
  <2>5. ASSUME NEW c \in Pending, c \in Missed(d) PROVE FALSE
    <3>1. CASE replayNext = NoUsn
      <4>1. c \in Missed(SnapshotOf(view))
        BY <2>2, <2>5, <3>1, <1>8, <1>9, <1>11 DEF Missed, Before
      <4> QED  BY <4>1, <2>5, <1>11 DEF Resumable
    <3>2. CASE replayNext # NoUsn
      <4>1. c[1] = d.id /\ c[2] < replayNext
        BY <2>2, <2>3, <2>5, <3>2, <1>8 DEF Missed, Before
      <4>2. replayNext <= c[2]
        BY <2>5, <1>1, <1>2, PendingAfterBatch
      <4>3. c[2] \in Nat /\ replayNext \in Int
        BY <2>5, Fields DEF Missed, Before
      <4> QED  BY <4>1, <4>2, <4>3
    <3> QED  BY <3>1, <3>2
  <2>6. Resumable(d)'
    BY <2>3, <2>4, <2>5, <1>1, AlonePending DEF Alone, Resumable, NotAhead, Missed, Before
  <2> QED  BY <2>6, <2>1
<1>13. ResumableOK'
  <2> SUFFICES ASSUME NEW d \in Snapshots' PROVE Resumable(d)'
    BY DEF ResumableOK
  <2>1. d \in Snapshots \/ d = SnapshotOf(v)
    BY <1>1, <1>8 DEF Snapshots, SnapshotOf, Covered
  <2>2. CASE d \in Snapshots
    <3>1. Resumable(d)
      BY <2>2, <1>2 DEF ResumableOK
    <3> QED  BY <3>1, <1>1, AlonePending DEF Alone, Resumable, NotAhead, Missed, Before
  <2> QED  BY <2>1, <2>2, <1>12
<1>14. ShownOK'
  <2>1. Missed(disk)' = Missed(disk)
    BY <1>1 DEF Missed, Before, Alone
  <2>2. Covered(view)' \cup Covered(next)' \subseteq Covered(view) \cup Covered(next) \cup batch
    BY <1>8, <1>9 DEF Covered
  <2> QED  BY <2>1, <2>2, <1>1, <1>2 DEF ShownOK
<1> QED  BY <1>3, <1>4, <1>13, <1>14 DEF Replayable

-----------------------------------------------------------------------------
\* What a build saves claims only what its enumeration saw.
LEMMA BuiltMissesNothing ==
  ASSUME Shape, Coverage, BuiltOK, pc \in {"enumerate", "buildSidecar"}, NEW d,
         d.id = built.id, d.next = built.next, built.seen \subseteq d.covered
  PROVE  /\ d.id <= journal.id /\ NotAhead(d.id, d.next) /\ Missed(d) = {}
         /\ \A c \in changes : c[1] < d.id => c \in d.covered
         /\ d.id = NoId \/ cursor.id <= d.id
<1>1. NotAhead(built.id, built.next) /\ Before(built.id, built.next) \subseteq built.seen
  BY DEF Coverage, PositionsOK, BuildOK
<1>2. built.id <= journal.id
  BY <1>1, Fields DEF NotAhead
<1> QED  BY <1>1, <1>2 DEF Missed, Before, BuiltOK

\* A build's snapshot and the view it publishes can be resumed whatever is to come.
LEMMA BuildKeeps ==
  ASSUME Shape, Coverage, Replayable, BuildSnapshot \/ BuildPublish
  PROVE  Replayable'
<1>1. /\ UNCHANGED <<journal, changes, startUsn, chan, batch, replayNext, next>>
      /\ next = EmptyView /\ batch = {} /\ watching # "start"
  BY DEF BuildSnapshot, BuildPublish, ntfsVars, watcherVars, Shape, BatchOK, StartOK,
         Replayable, BuiltOK
<1>2. ResumableOK /\ BuiltOK /\ OrderOK /\ ShownOK
  BY DEF Replayable
<1>3. OrderOK'
  BY <1>1, <1>2, OrderKept
<1>4. /\ SnapshotOf(EmptyView).id = NoId /\ Covered(EmptyView) = {}
      /\ \A v : SnapshotOf(v).covered = Covered(v) /\ SnapshotOf(v).id = v.base.id
               /\ SnapshotOf(v).next = v.next
  BY EmptyFields, SnapshotOfFields
<1>5. /\ journal.id \in Nat /\ 1 <= journal.id /\ cursor.id \in Nat /\ built.id \in Nat
      /\ disk \in Base
      /\ \A c \in changes : c[1] \in Nat /\ 1 <= c[1]
  BY Fields, ViewFields
<1>6. CASE BuildSnapshot
  <2>1. /\ pc = "enumerate" /\ pc' = "buildSidecar" /\ UNCHANGED <<watching, cursor, built, view>>
        /\ disk'.id = built.id /\ disk'.next = built.next /\ built.seen \subseteq disk'.covered
    BY <1>6 DEF BuildSnapshot, watcherVars
  <2>2. PICK e : e = disk'
    OBVIOUS
  <2>3. /\ e.id <= journal.id /\ NotAhead(e.id, e.next) /\ Missed(e) = {}
        /\ \A c \in changes : c[1] < e.id => c \in e.covered
        /\ e.id = NoId \/ cursor.id <= e.id
    BY <2>1, <2>2, <1>2, BuiltMissesNothing
  <2>4. Missed(e)' = {}
    BY <2>3, <1>1 DEF Missed, Before
  <2>5. ResumableOK'
    <3> SUFFICES ASSUME NEW d \in Snapshots' PROVE Resumable(d)'
      BY DEF ResumableOK
    <3>1. d = e \/ d \in Snapshots
      BY <2>1, <2>2, <1>1 DEF Snapshots, SnapshotOf, Covered
    <3>2. CASE d = e
      BY <3>2, <2>1, <2>3, <2>4, <1>1 DEF Resumable, NotAhead
    <3>3. CASE d \in Snapshots
      <4>1. Resumable(d) /\ Pending' = Pending
        BY <3>3, <2>1, <1>1, <1>2, AlonePending DEF ResumableOK, Alone
      <4> QED  BY <4>1, <2>1, <1>1 DEF Resumable, NotAhead, Missed, Before
    <3> QED  BY <3>1, <3>2, <3>3
  <2>6. BuiltOK'
    BY <2>1, <1>1, <1>2 DEF BuiltOK
  <2>7. ShownOK'
    BY <2>2, <2>4 DEF ShownOK
  <2> QED  BY <2>5, <2>6, <2>7, <1>3 DEF Replayable
<1>7. CASE BuildPublish
  <2>1. /\ pc = "buildSidecar" /\ pc' = "idle"
        /\ disk' = [disk EXCEPT !.frns = "whole"] /\ view' = Fresh(disk')
        /\ \/ watching = "off" /\ watching' = "start" /\ cursor' = [id |-> built.id, next |-> built.next]
           \/ watching # "off" /\ UNCHANGED <<watching, cursor>>
    BY <1>7 DEF BuildPublish
  <2>2. disk'.covered = disk.covered /\ disk'.id = disk.id /\ disk'.next = disk.next
    BY <2>1, <1>5 DEF Base
  <2>3. built.seen \subseteq disk.covered /\ disk.id = built.id /\ disk.next = built.next
    BY <2>1 DEF Coverage, BuildOK
  <2>4. ASSUME NEW d \in Snapshots'
        PROVE  d.id = NoId \/ (d.id = built.id /\ d.next = built.next /\ built.seen \subseteq d.covered)
    <3>1. d = disk' \/ d = SnapshotOf(view') \/ d = SnapshotOf(EmptyView)
      BY <1>1 DEF Snapshots, SnapshotOf, Covered
    <3>2. CASE d = disk'
      BY <3>2, <2>2, <2>3
    <3>3. CASE d = SnapshotOf(view')
      <4>1. d.covered = disk.covered /\ d.id = disk.id /\ d.next = disk.next
        BY <3>3, <2>1, <2>2 DEF SnapshotOf, Fresh, Covered
      <4> QED  BY <4>1, <2>3
    <3> QED  BY <3>1, <3>2, <3>3, <1>4
  <2>5. ASSUME NEW d \in Snapshots'
        PROVE  /\ d.id <= journal.id /\ Missed(d)' = {} /\ d.id \in {NoId, built.id}
               /\ d.id # NoId => NotAhead(d.id, d.next)
               /\ \A c \in changes : c[1] < d.id => c \in d.covered
               /\ d.id = NoId \/ cursor.id <= d.id
    <3>1. CASE d.id = NoId
      BY <3>1, <1>1, <1>5 DEF Missed, Before, NoId
    <3>2. CASE d.id = built.id /\ d.next = built.next /\ built.seen \subseteq d.covered
      <4>1. /\ d.id <= journal.id /\ NotAhead(d.id, d.next) /\ Missed(d) = {}
            /\ \A c \in changes : c[1] < d.id => c \in d.covered
            /\ d.id = NoId \/ cursor.id <= d.id
        BY <3>2, <2>1, <1>2, BuiltMissesNothing
      <4>2. Missed(d)' = Missed(d)
        BY <1>1 DEF Missed, Before
      <4> QED  BY <3>2, <4>1, <4>2
    <3> QED  BY <3>1, <3>2, <2>4
  <2>6. ResumableOK'
    <3> SUFFICES ASSUME NEW d \in Snapshots' PROVE Resumable(d)'
      BY DEF ResumableOK
    <3>1. /\ d.id = NoId \/ cursor'.id <= d.id
          /\ watching' = "start" => d.id \in {NoId, cursor'.id}
      BY <2>1, <2>5, <1>1, <1>5
    <3>2. NotAhead(d.id, d.next)'
      BY <2>5, <1>1, <1>5 DEF NotAhead, NoId
    <3> QED  BY <3>1, <3>2, <2>5, <1>1 DEF Resumable
  <2>7. BuiltOK'
    BY <2>1, <1>1 DEF BuiltOK
  <2>8. ShownOK'
    <3>1. disk' \in Snapshots' /\ Missed(disk)' = {}
      <4>1. PICK d : d = disk'
        OBVIOUS
      <4>2. d \in Snapshots'
        BY <4>1 DEF Snapshots
      <4> QED  BY <4>1, <4>2, <2>5
    <3> QED  BY <3>1 DEF ShownOK
  <2> QED  BY <2>6, <2>7, <2>8, <1>3 DEF Replayable
<1> QED  BY <1>6, <1>7

-----------------------------------------------------------------------------
\* A resume replays nothing that the snapshot does not claim: what it shows is not
\* missed, and after it everything made so far is claimed by the new view.
LEMMA ResumeKeeps ==
  ASSUME Shape, Coverage, Replayable, Resume
  PROVE  Replayable'
<1>1. /\ UNCHANGED <<journal, changes, startUsn, chan, batch, replayNext, next, disk>>
      /\ next = EmptyView /\ batch = {} /\ chan = <<>> /\ Len(chan) = 0
      /\ watching' = "start" /\ cursor' = [id |-> journal.id, next |-> journal.next]
      /\ pc' = "idle" /\ disk.id = journal.id /\ disk.next <= journal.next
  BY EmptySeq DEF Resume, ReplayCursorValid, ntfsVars, Shape, BatchOK, StartOK, Replayable, BuiltOK
<1>2. ResumableOK /\ OrderOK /\ Resumable(disk)
  BY DEF Replayable, ResumableOK, Snapshots
<1>3. /\ journal.id \in Nat /\ journal.next \in Nat /\ 1 <= journal.id
      /\ \A c \in changes : c[1] \in Nat /\ c[2] \in Nat /\ 1 <= c[1]
      /\ \A c \in changes : c[1] = journal.id => c[2] < journal.next
      /\ disk \in Base /\ disk.next \in Nat
  BY Fields, ViewFields, SnapshotFields
<1>4. Pending' = {}
  <2>1. InQueue' = {}
    BY <1>1 DEF InQueue
  <2>2. Unread' = {}
    BY <1>1, <1>3 DEF Unread, Position
  <2> QED  BY <2>1, <2>2 DEF Pending
<1>5. PICK delta \in Applied(Fresh(disk), Replayed) :
        view' = [base |-> disk, delta |-> delta, next |-> journal.next]
  BY DEF Resume
<1>6. delta \subseteq Replayed
  <2>1. Replayed \in SUBSET changes /\ Fresh(disk) \in View /\ Fresh(disk).delta = {}
    BY <1>3, FreshTypes DEF Replayed, Fresh
  <2> QED  BY <2>1, <1>5, AppliedBounds
<1>7. ResumableOK'
  <2> SUFFICES ASSUME NEW d \in Snapshots' PROVE Resumable(d)'
    BY DEF ResumableOK
  <2>1. \/ d.id = NoId
        \/ d.id = journal.id /\ d.next <= journal.next /\ disk.covered \subseteq d.covered
    <3>1. d = disk \/ d = SnapshotOf(view') \/ d = SnapshotOf(EmptyView)
      BY <1>1 DEF Snapshots, SnapshotOf, Covered
    <3>2. CASE d = disk
      BY <3>2, <1>1
    <3>3. CASE d = SnapshotOf(view')
      BY <3>3, <1>1, <1>3, <1>5 DEF SnapshotOf, Covered
    <3> QED  BY <3>1, <3>2, <3>3, EmptyFields
  <2>2. d.id <= journal.id /\ \A c \in changes : c[1] < d.id => c \in d.covered
    BY <2>1, <1>1, <1>2, <1>3 DEF Resumable, NoId
  <2>3. d.id \in {NoId, cursor'.id} /\ (d.id = cursor'.id => NotAhead(d.id, d.next))
    BY <2>1, <1>1, <1>3 DEF NotAhead, NoId
  <2>4. d.id = NoId \/ cursor'.id <= d.id
    BY <2>1, <1>1, <1>3
  <2> QED  BY <2>2, <2>3, <2>4, <1>1, <1>4 DEF Resumable, NotAhead
<1>8. BuiltOK'
  BY <1>1 DEF BuiltOK
<1>9. OrderOK'
  BY <1>1, <1>2, OrderKept
<1>10. ShownOK'
  <2>1. Covered(view)' \subseteq disk.covered \cup Replayed /\ Covered(next)' = {}
    BY <1>1, <1>5, <1>6, EmptyFields DEF Covered
  <2>2. Replayed \cap Missed(disk) = {}
    BY <1>1, <1>3 DEF Replayed, Missed, Before
  <2>3. Missed(disk)' = Missed(disk) /\ disk.covered \cap Missed(disk) = {}
    BY <1>1 DEF Missed, Before
  <2> QED  BY <2>1, <2>2, <2>3, <1>1 DEF ShownOK
<1> QED  BY <1>7, <1>8, <1>9, <1>10 DEF Replayable

\* While the daemon is down nothing is on its way, and a snapshot saved on shutdown
\* covers what was shown.
LEMMA DownKeeps ==
  ASSUME Shape, Coverage, Replayable, Crash \/ Shutdown
  PROVE  Replayable'
<1>1. /\ UNCHANGED <<journal, changes, view>> /\ chan' = <<>> /\ Len(chan') = 0
      /\ watching' = "off" /\ pc' = "down" /\ next' = EmptyView /\ batch' = {}
      /\ replayNext' = NoUsn /\ startUsn' = 0
  BY EmptySeq DEF Crash, Shutdown, Down, BatchDone, ntfsVars
<1>2. \/ disk' = disk
      \/ disk'.covered = Covered(view) /\ disk'.id = view.base.id /\ disk'.next = view.next
  <2>1. \/ disk' = disk
        \/ \E frns : disk' = [SnapshotOf(view) EXCEPT !.frns = frns]
    BY DEF Crash, Shutdown
  <2> QED  BY <2>1 DEF SnapshotOf
<1>3. Pending' = {}
  BY <1>1 DEF Pending, InQueue, Unread
<1>4. ResumableOK /\ ShownOK
  BY DEF Replayable
<1>5. ResumableOK'
  <2> SUFFICES ASSUME NEW d \in Snapshots' PROVE Resumable(d)'
    BY DEF ResumableOK
  <2>1. d.id = NoId \/ \E e \in Snapshots : d.id = e.id /\ d.covered = e.covered
    <3>1. d = disk' \/ d = SnapshotOf(view) \/ d = SnapshotOf(EmptyView)
      BY <1>1 DEF Snapshots, SnapshotOf, Covered
    <3>2. SnapshotOf(view).covered = Covered(view) /\ SnapshotOf(view).id = view.base.id
      BY SnapshotOfFields
    <3> QED  BY <3>1, <3>2, <1>2, EmptyFields DEF Snapshots
  <2>2. d.id <= journal.id /\ \A c \in changes : c[1] < d.id => c \in d.covered
    <3>1. 1 <= journal.id /\ journal.id \in Nat /\ \A c \in changes : c[1] \in Nat
      BY Fields
    <3> QED  BY <2>1, <3>1, <1>4 DEF ResumableOK, Resumable, NoId
  <2> QED  BY <2>2, <1>1, <1>3 DEF Resumable
<1>6. BuiltOK' /\ OrderOK'
  BY <1>1 DEF BuiltOK, OrderOK, NoUsn
<1>7. ShownOK'
  <2>1. Covered(view)' = Covered(view) /\ Covered(next)' = {}
    BY <1>1, EmptyFields DEF Covered
  <2>2. CASE disk' = disk
    <3>1. Missed(disk)' = Missed(disk)
      BY <2>2, <1>1 DEF Missed, Before
    <3> QED  BY <3>1, <2>1, <1>1, <1>4 DEF ShownOK
  <2>3. CASE disk'.covered = Covered(view)
    BY <2>1, <2>3, <1>1 DEF ShownOK, Missed
  <2> QED  BY <2>2, <2>3, <1>2
<1> QED  BY <1>5, <1>6, <1>7 DEF Replayable

-----------------------------------------------------------------------------
\* Every step keeps the invariant.
LEMMA ReplayableStep == Shape /\ Coverage /\ Replayable /\ [Next]_vars => Replayable'
<1> SUFFICES ASSUME Shape, Coverage, Replayable, [Next]_vars PROVE Replayable'
  OBVIOUS
<1>1. CASE Ntfs
  BY <1>1, NtfsKeeps
<1>2. CASE Watcher \/ WatchFails
  BY <1>2, WatcherKeeps
<1>3. CASE Receive
  BY <1>3, ReceiveKeeps
<1>4. CASE \/ DrainTimeout \/ TakeOverflow \/ NeedsFullReindex \/ BuildCursor
           \/ BuildFails \/ Start \/ ResumeRefused
  BY <1>4, ViewsWait
<1>5. CASE IdlePersist \/ CompactSnapshot \/ CompactSidecar \/ CompactFails
  BY <1>5, CompactionKeeps
<1>6. CASE ApplyBatch
  BY <1>6, ApplyKeeps
<1>7. CASE BuildSnapshot \/ BuildPublish
  BY <1>7, BuildKeeps
<1>8. CASE Resume
  BY <1>8, ResumeKeeps
<1>9. CASE Crash \/ Shutdown
  BY <1>9, DownKeeps
<1>10. CASE UNCHANGED vars
  BY <1>10 DEF vars, Replayable, ResumableOK, Resumable, NotAhead, Snapshots, SnapshotOf, Covered, Pending,
     InQueue, Unread, Position, Missed, Before, BuiltOK, OrderOK, ShownOK
<1> QED
  BY <1>1, <1>2, <1>3, <1>4, <1>5, <1>6, <1>7, <1>8, <1>9, <1>10 DEF Next, Worker, Failures

\* The daemon starts with it.
LEMMA InitReplayable == Init => Replayable
<1> SUFFICES ASSUME Init PROVE Replayable
  OBVIOUS
<1>1. /\ chan = <<>> /\ Len(chan) = 0 /\ journal.id = 1 /\ changes = {} /\ watching = "off"
      /\ pc = "down" /\ replayNext = NoUsn /\ startUsn = 0
      /\ next = EmptyView /\ view = EmptyView /\ disk = NoSnapshot
  BY EmptySeq DEF Init
<1>2. \A d \in Snapshots : d.id = NoId
  BY <1>1 DEF Snapshots, SnapshotOf, EmptyView, NoSnapshot
<1>3. \A d : Missed(d) = {}
  BY <1>1 DEF Missed, Before
<1> QED  BY <1>1, <1>2, <1>3 DEF Replayable, ResumableOK, Resumable, BuiltOK, OrderOK, ShownOK, NoId, NoUsn

\* The invariant holds throughout: nothing that was shown, or is on its way to be
\* shown, is missed by a restart.
THEOREM ReplayableAlways == Spec => []Replayable
BY InitReplayable, ReplayableStep, ShapeAlways, CoverageAlways, PTL DEF Spec

-----------------------------------------------------------------------------
\* What a snapshot of the current journal does not claim is replayed.
LEMMA RestIsReplayed ==
  ASSUME Shape, disk.id = journal.id, journal.first <= disk.next
  PROVE  changes \ Before(disk.id, disk.next) \subseteq Replayed
<1>1. /\ disk.next \in Nat /\ journal.first \in Nat /\ journal.id \in Nat
      /\ \A c \in changes : c[1] \in Nat /\ c[2] \in Nat /\ c[1] <= journal.id
  BY Fields, ViewFields, SnapshotFields
<1>2. \A c \in changes \ Before(disk.id, disk.next) : c[1] = journal.id /\ disk.next <= c[2]
  BY <1>1 DEF Before
<1> QED  BY <1>1, <1>2 DEF Replayed

\* A resumed view shows what was shown, unless the sidecar was partial: what the
\* snapshot does not cover it does not claim, and is replayed.
LEMMA ResumeShows ==
  ASSUME Shape, Coverage, Replayable, Resume, "partial sidecar" \notin gap
  PROVE  Covered(view) \subseteq Covered(view)'
<1>1. disk \in Base /\ Covered(view) \subseteq changes
  BY ViewFields
<1>2. disk.id = journal.id /\ journal.first <= disk.next /\ disk.frns # "partial"
  BY DEF Resume, ReplayCursorValid, Coverage, FrnsOK
<1>3. PICK delta \in Applied(Fresh(disk), Replayed) :
        view' = [base |-> disk, delta |-> delta, next |-> journal.next]
  BY DEF Resume
<1>4. delta = Replayed
  <2>1. /\ Replayed \in SUBSET changes /\ Fresh(disk) \in View /\ Fresh(disk).delta = {}
        /\ Fresh(disk).base.frns # "partial"
    BY <1>1, <1>2, FreshTypes DEF Replayed, Fresh
  <2>2. delta = Fresh(disk).delta \cup Replayed
    BY <2>1, <1>3, AppliedBounds
  <2> QED  BY <2>1, <2>2
<1>5. Covered(view)' = disk.covered \cup Replayed
  BY <1>3, <1>4 DEF Covered
<1>6. Covered(view) \ disk.covered \subseteq changes \ Before(disk.id, disk.next)
  BY <1>1 DEF Replayable, ShownOK, Missed
<1>7. changes \ Before(disk.id, disk.next) \subseteq Replayed
  BY <1>2, RestIsReplayed
<1> QED  BY <1>5, <1>6, <1>7

\* What a step of the daemon publishes shows what was shown, unless a partial
\* sidecar is about.
LEMMA ShownStays ==
  ASSUME Shape, Coverage, Replayable, [Next]_vars, "partial sidecar" \notin gap'
  PROVE  Covered(view) \subseteq Covered(view)'
<1>1. CASE BuildPublish
  <2>1. pc = "buildSidecar" /\ disk' = [disk EXCEPT !.frns = "whole"] /\ view' = Fresh(disk')
    BY <1>1 DEF BuildPublish
  <2>2. Covered(view) \subseteq disk.covered
    BY <2>1 DEF Coverage, BuildOK
  <2>3. disk'.covered = disk.covered
    BY <2>1, ViewFields DEF Base
  <2> QED  BY <2>1, <2>2, <2>3 DEF Fresh, Covered
<1>2. CASE Resume
  <2>1. "partial sidecar" \notin gap
    BY <1>2 DEF Resume
  <2> QED  BY <1>2, <2>1, ResumeShows
<1>3. CASE ApplyBatch
  <2>1. PICK delta \in Applied(view, batch) :
          LET v == [view EXCEPT !.delta = delta,
                                !.next = IF replayNext = NoUsn THEN @ ELSE replayNext]
          IN view' = v \/ UNCHANGED view
    BY <1>3 DEF ApplyBatch
  <2>2. view \in View /\ view.delta \subseteq delta
    <3>1. batch \in SUBSET changes /\ view \in View
      BY ViewFields DEF Shape, TypeOK, WorkerTypes
    <3> QED  BY <3>1, <2>1, AppliedBounds
  <2> QED  BY <2>1, <2>2 DEF View, Covered
<1>4. CASE CompactSidecar
  <2>1. /\ pc = "sidecar" /\ disk' = [disk EXCEPT !.frns = MergedFrns(next)]
        /\ view' \in {Fresh(disk'), next}
    BY <1>4 DEF CompactSidecar
  <2>2. Covered(view) \subseteq Covered(next) /\ disk.covered = Covered(next)
    BY <2>1 DEF Coverage, CompactOK
  <2>3. disk'.covered = disk.covered
    BY <2>1, ViewFields DEF Base
  <2>4. CASE view' = Fresh(disk')
    BY <2>2, <2>3, <2>4 DEF Fresh, Covered
  <2>5. CASE view' = next
    BY <2>2, <2>5 DEF Covered
  <2> QED  BY <2>1, <2>4, <2>5
<1>5. CASE CompactFails
  <2>1. pc \in {"compact", "sidecar"} /\ view' = next
    BY <1>5 DEF CompactFails
  <2> QED  BY <2>1 DEF Coverage, CompactOK, Covered
<1>6. CASE UNCHANGED view
  BY <1>6 DEF Covered
<1>7. Ntfs \/ Watcher \/ WatchFails \/ Start \/ ResumeRefused \/ Receive \/ DrainTimeout
      \/ TakeOverflow \/ NeedsFullReindex \/ UNCHANGED vars => UNCHANGED view
  BY ViewFrame
<1>8. IdlePersist \/ CompactSnapshot \/ BuildCursor \/ BuildSnapshot \/ BuildFails \/ Crash \/ Shutdown
      => UNCHANGED view
  BY DEF IdlePersist, CompactSnapshot, BuildCursor, BuildSnapshot, BuildFails, Crash, Shutdown, Down
<1> QED
  BY <1>1, <1>2, <1>3, <1>4, <1>5, <1>6, <1>7, <1>8 DEF Next, Worker, Failures

\* ImplementsIndex: every step of the feed is a change of the volume, or publishes an
\* index that shows what the last one did and nothing that did not happen, whatever
\* crashes, restarts, rebuilds, overflows or failures there are (updates.rs,
\* persistence.rs, journal.rs).
THEOREM Implements == Spec => ImplementsIndex
<1>1. Init => Index!Init
  BY DEF Init, Index!Init, Covered, EmptyView, NoSnapshot
<1>2. ASSUME Shape, Shape', Coverage, Replayable, [Next]_vars
      PROVE  [Index!Change \/ Index!Publish]_(Index!vars)
  <2>1. CASE Ntfs
    <3>1. changes \subseteq changes' /\ UNCHANGED <<view, gap>>
      BY <2>1, <1>2, JournalMoves DEF daemonVars
    <3> QED  BY <3>1 DEF Index!Change, Covered
  <2>2. CASE UNCHANGED <<journal, changes>>
    <3>1. Covered(view)' \subseteq changes
      BY <2>2, <1>2, ViewFields DEF Shape, TypeOK, ViewTypes, View, Base, Covered
    <3>2. Covered(view) \subseteq Covered(view)' \/ "partial sidecar" \in gap'
      BY <1>2, ShownStays
    <3>3. ("partial sidecar" \in gap') \in BOOLEAN
      OBVIOUS
    <3> QED  BY <3>1, <3>2, <3>3, <2>2 DEF Index!Publish
  <2>3. \/ Ntfs
        \/ UNCHANGED <<journal, changes>>
    <3>1. UNCHANGED vars => UNCHANGED <<journal, changes>>
      BY DEF vars
    <3> QED  BY <3>1, <1>2, NtfsFrame DEF Next, ntfsVars
  <2> QED  BY <2>1, <2>2, <2>3
<1> QED
  BY <1>1, <1>2, ShapeAlways, CoverageAlways, ReplayableAlways, PTL DEF Spec, ImplementsIndex, Index!Spec
=============================================================================
