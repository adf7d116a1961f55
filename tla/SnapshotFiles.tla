--------------------------- MODULE SnapshotFiles ---------------------------
(***************************************************************************)
(* The files of one volume and the two threads that write them: the        *)
(* volume's worker, which builds and compacts, and the shutdown handler,   *)
(* which compacts on a thread of its own and then ends the process.        *)
(* Snapshot and sidecar are written under a temporary name and renamed. A  *)
(* file is a header with a tag and a body; a body is an image: the changes *)
(* its records hold and the journal position they claim. The body of a     *)
(* sidecar is the image whose records it numbers. A compaction gathers its *)
(* image in spools, files of fixed names that both threads use. Nothing     *)
(* keeps the two threads apart.                                             *)
(***************************************************************************)
EXTENDS Integers

CONSTANTS
  MaxChanges,  \* bound: changes to the volume
  MaxStarts    \* bound: starts of the daemon

ASSUME SnapshotFilesAssumption == MaxChanges \in Nat /\ MaxStarts \in Nat \ {0}

VARIABLES
  files,     \* what has been written under each name
  scratch,   \* each thread's hold on the spools
  view,      \* the published view
  writer,    \* what each thread is writing, and how far it got
  handler,   \* the shutdown handler, and the position of the view it found
  received,  \* changes the worker has taken from the journal
  starts,    \* starts so far
  lost,      \* history: a rebuild failed, or a view was published that lacks
             \* changes of the one before
  clash      \* history: the two threads wrote one temporary file, or one spool

vars == <<files, scratch, view, writer, handler, received, starts, lost, clash>>

Threads == {"worker", "handler"}
Names == {"tmp", "path", "frn.tmp", "frn"}
None == 0
Tags == 1 .. 5     \* a tag of each name and a fresh one

Images == [tag : Tags \cup {None}, covers : SUBSET (1 .. MaxChanges), cursor : 0 .. MaxChanges]
NoImage == [tag |-> None, covers |-> {}, cursor |-> 0]
Missing == [tag |-> None, body |-> NoImage]

\* After a clash it is followed which files there are and whether they can be
\* opened, and no longer what they hold: every image is this one.
Unknown == [tag |-> 1, covers |-> {}, cursor |-> 0]

\* A view: the file its base is a mapping of, by its name now ("gone" when it
\* has been replaced), what open found in it, and what it shows.
Views == [base : Names \cup {"none", "gone"}, image : Images,
          covers : SUBSET (1 .. MaxChanges), cursor : 0 .. MaxChanges]
NoView == [base |-> "none", image |-> NoImage, covers |-> {}, cursor |-> 0]
Up == view # NoView

\* The spool of the names, which comes first and can grow, and the columns' six,
\* which go the same way and stand here as one. A spool is "apart" when its file
\* has lost its name to the other thread's clean-up: nobody else can open it.
Spools == {"names", "columns"}
Holds == {"none", "open", "mapped", "apart"}
NoSpools == [s \in Spools |-> "none"]

Steps == Spools \cup {"none", "merge", "grow", "create", "body", "rename",
                      "frn_create", "frn_body", "frn_rename", "open", "publish"}
Resting == [step |-> "none", job |-> "none", image |-> NoImage, file |-> "none", next |-> NoView]

TypeOK ==
  /\ files \in [Names -> [tag : Tags \cup {None}, body : Images]]
  /\ scratch \in [Threads -> [Spools -> Holds]]
  /\ view \in Views
  /\ writer \in [Threads -> [step : Steps, job : {"none", "start", "build", "batch", "idle"},
                             image : Images, file : Names \cup {"none", "gone"}, next : Views]]
  /\ handler \in [state : {"absent", "called", "busy", "failed", "after"}, cursor : 0 .. MaxChanges]
  /\ received \in 0 .. MaxChanges /\ starts \in 0 .. MaxStarts
  /\ lost \in BOOLEAN /\ clash \in BOOLEAN

-----------------------------------------------------------------------------
(* Files. *)

\* Mutant: a tag is the process's, not the snapshot's.
FreshTag_PerStart == starts

\* fresh_snapshot_tag: a tag no file carries.
FreshTag ==
  IF clash THEN Unknown.tag
  ELSE CHOOSE n \in Tags :
         /\ \A f \in Names : files[f].tag # n /\ files[f].body.tag # n
         /\ \A t \in Threads : writer[t].image.tag # n

readable == files["path"].body # NoImage

\* FrnMap::open accepts a sidecar by its tag.
paired == files["frn"].tag # None /\ files["frn"].tag = files["path"].tag

\* ArenaStore::open.
opened ==
  LET image == files["path"].body IN
  [base |-> "path", image |-> [image EXCEPT !.tag = None], covers |-> image.covers, cursor |-> image.cursor]

\* view_needs_persist: something in the delta, or another position.
needs_persist(v) == v.covers # v.image.covers \/ v.cursor # v.image.cursor

ImageOf(v) == [tag |-> None, covers |-> v.covers, cursor |-> v.cursor]

\* An open file or a mapping keeps its file when names move.
Follow(name, from, to) == IF name = to THEN "gone" ELSE IF name = from THEN to ELSE name

-----------------------------------------------------------------------------
(* Writing a snapshot: save_with_sidecar and compact_to_snapshot. A thread  *)
(* does one step after the other; any of them may fail.                    *)

At(t, step) == writer[t].step = step

HasOpen(p, name) == writer[p].file = name

\* Who else has the file of a spool, by its name, that t has or would open.
Sharers(t, s) == {p \in Threads \ {t} : scratch[p][s] \in {"open", "mapped"} /\ scratch[t][s] # "apart"}

\* Dropping the spools removes them by name, whoever else has them by then. That
\* of the names may stay, as one not mapped yet does; a column's would only make
\* the other's open fail, as any open may.
Dropped(t, removed) ==
  [p \in Threads |-> [s \in Spools |->
     IF p = t THEN "none"
     ELSE IF s \in removed /\ scratch[p][s] # "none" THEN "apart"
     ELSE scratch[p][s]]]

Drops(t) ==
  LET held == {s \in Spools : scratch[t][s] # "none"} IN
  \E removed \in {held, held \ {"names"}} : scratch' = Dropped(t, removed)

\* What is still followed of an image, the writers and the files, once the two
\* threads have clashed.
Image(clashed, image) == IF clashed /\ image # NoImage THEN Unknown ELSE image
Writers(clashed, w) == [t \in Threads |-> [w[t] EXCEPT !.image = Image(clashed, @)]]
Files(clashed, fs) ==
  [f \in Names |-> [tag |-> IF clashed /\ fs[f].tag # None THEN Unknown.tag ELSE fs[f].tag,
                    body |-> Image(clashed, fs[f].body)]]

\* What a failure leaves: the handler goes on to the next volume, a failed
\* compaction of a batch publishes the view it was to compact, a failed first
\* build ends the daemon, and anything else leaves the old view. A temporary
\* file left behind is truncated by the next create: it is not told from none.
Abandon(t) ==
  /\ writer' = [writer EXCEPT ![t] =
       IF writer[t].job = "batch"
       THEN [Resting EXCEPT !.step = "publish", !.job = "batch", !.next = writer[t].next]
       ELSE Resting]
  /\ files' = [f \in Names |->
       IF f \in {"tmp", "frn.tmp"} /\ HasOpen(t, f) /\ \A p \in Threads \ {t} : ~HasOpen(p, f)
       THEN Missing ELSE files[f]]
  /\ handler' = IF t = "handler" THEN [handler EXCEPT !.state = "failed"] ELSE handler
  /\ Drops(t)
  /\ lost' = (lost \/ writer[t].job = "build")
  /\ UNCHANGED <<view, received, starts, clash>>

Fail(t) ==
  /\ writer[t].step \notin {"none", "publish"}
  /\ Abandon(t)

\* The process is gone: what has a name for good stays.
Gone ==
  /\ view' = NoView
  /\ writer' = [t \in Threads |-> Resting]
  /\ handler' = [state |-> "absent", cursor |-> 0]
  /\ scratch' = [t \in Threads |-> NoSpools]
  /\ files' = [files EXCEPT !["tmp"] = Missing, !["frn.tmp"] = Missing]
  /\ UNCHANGED <<received, starts, lost, clash>>

-----------------------------------------------------------------------------
(* The spools: SpooledArenaBuilder::new and the merge into them.           *)

\* A write that meets the other thread's or not, and leaves these files and
\* writers.
Leaves(meets, fs, w) ==
  /\ clash' = (clash \/ meets)
  /\ files' = Files(clash', fs) /\ writer' = Writers(clash', w)
  /\ UNCHANGED <<view, handler, received, starts, lost>>

\* The image of a compaction is in its spools, and nowhere else.
Spooled(p) == writer[p].job \in {"batch", "idle"} /\ writer[p].step \in {"grow", "create", "body"}

\* A spool is opened or given its length: one the other has unmapped to let it
\* grow loses what it held.
Resized(t, s, hold, next_step) ==
  /\ scratch' = [scratch EXCEPT ![t][s] = hold]
  /\ Leaves(s = "names" /\ \E p \in Sharers(t, s) : At(p, "grow"),
            files, [writer EXCEPT ![t].step = next_step])

\* Mutant: a compaction waits for the other's spools.
OpenSpool_Waits(t, s) ==
  /\ At(t, s) /\ scratch[t][s] = "none"
  /\ \A p \in Sharers(t, s) : scratch[p][s] # "mapped"
  /\ Resized(t, s, "open", s)

\* The open truncates, which a file that is mapped does not allow; one that
\* is only open can be shared.
OpenSpool(t, s) ==
  /\ At(t, s) /\ scratch[t][s] = "none"
  /\ IF \E p \in Sharers(t, s) : scratch[p][s] = "mapped"
     THEN Abandon(t)
     ELSE Resized(t, s, "open", s)

MapSpool(t, s) ==
  /\ At(t, s) /\ scratch[t][s] # "none"
  /\ Resized(t, s, IF scratch[t][s] = "apart" THEN "apart" ELSE "mapped",
             IF s = "names" THEN "columns" ELSE "merge")

\* The image is put into the spools, and the names may have to grow meanwhile.
\* Two compactions that get as far as this are taken to have met: if not in
\* these spools, it may be in those of the layout, which come next.
Merge(t) ==
  /\ At(t, "merge")
  /\ \E grows \in BOOLEAN :
       /\ scratch' = [scratch EXCEPT ![t]["names"] = IF grows /\ @ = "mapped" THEN "open" ELSE @]
       /\ Leaves(\E p \in Threads \ {t} : Spooled(p),
                 files, [writer EXCEPT ![t].step = IF grows THEN "grow" ELSE "create"])

\* reserve: a file that is mapped elsewhere cannot grow, and a panic aborts.
Regrow(t) ==
  /\ At(t, "grow")
  /\ IF \E p \in Sharers(t, "names") : scratch[p]["names"] = "mapped"
     THEN Gone
     ELSE /\ scratch' = [scratch EXCEPT ![t]["names"] = IF @ = "open" THEN "mapped" ELSE @]
          /\ writer' = [writer EXCEPT ![t].step = "create"]
          /\ UNCHANGED <<files, view, handler, received, starts, lost, clash>>

-----------------------------------------------------------------------------
(* The snapshot and its sidecar.                                            *)

\* File::create, which truncates the file if there is one, and the header.
Create(t, name, tag, next_step) ==
  /\ Leaves(\E p \in Threads \ {t} : HasOpen(p, name),
            [files EXCEPT ![name] = [tag |-> tag, body |-> NoImage]],
            [writer EXCEPT ![t].step = next_step, ![t].file = name, ![t].image.tag = tag])
  /\ UNCHANGED scratch

\* Mutant: the snapshot is written in place.
CreateSnapshot_InPlace(t) == At(t, "create") /\ Create(t, "path", FreshTag, "body")

CreateSnapshot(t) == At(t, "create") /\ Create(t, "tmp", FreshTag, "body")
CreateSidecar(t) == At(t, "frn_create") /\ Create(t, "frn.tmp", writer[t].image.tag, "frn_body")

\* A thread alone leaves its file whole. Where two have written one file, each
\* at its own offset, it may not be readable, or be a mixture that open accepts
\* all the same, as it validates bounds and lengths only.
Bodies(t) == IF clash THEN {Unknown, NoImage} ELSE {writer[t].image}

WriteBody(t) ==
  /\ \/ At(t, "body") /\ writer' = [writer EXCEPT ![t].step = "rename"]
     \/ At(t, "frn_body") /\ writer' = [writer EXCEPT ![t].step = "frn_rename"]
  /\ \E body \in Bodies(t) :
       files' = [f \in Names |-> IF HasOpen(t, f) THEN [files[f] EXCEPT !.body = body] ELSE files[f]]
  /\ UNCHANGED <<scratch, view, handler, received, starts, lost, clash>>

\* rename takes whatever file has the temporary name by now.
Rename(t, from, to, next_step) ==
  /\ \/ /\ files[from] # Missing
        /\ files' = [files EXCEPT ![to] = files[from], ![from] = Missing]
        /\ writer' = [p \in Threads |->
             [writer[p] EXCEPT
                !.step = IF p = t THEN next_step ELSE @,
                !.file = IF p = t THEN "none" ELSE Follow(@, from, to),
                !.next.base = Follow(@, from, to)]]
        /\ view' = [view EXCEPT !.base = Follow(@, from, to)]
        /\ IF next_step = "open" THEN Drops(t) ELSE UNCHANGED scratch
        /\ UNCHANGED <<handler, received, starts, lost, clash>>
     \/ files[from] = Missing /\ Abandon(t)

RenameSnapshot(t) == At(t, "rename") /\ Rename(t, "tmp", "path", "frn_create")
RenameSidecar(t) == At(t, "frn_rename") /\ Rename(t, "frn.tmp", "frn", "open")

Open(t) ==
  /\ At(t, "open")
  /\ \/ /\ readable
        /\ writer' = [writer EXCEPT ![t].step = "publish", ![t].next = opened]
        /\ UNCHANGED <<files, scratch, view, handler, received, starts, lost, clash>>
     \/ ~readable /\ Abandon(t)

\* store.store: whatever is published by now is replaced.
Publish(t) ==
  /\ At(t, "publish")
  /\ view' = writer[t].next
  /\ lost' = (lost \/ ~(view.covers \cup writer[t].image.covers \subseteq view'.covers))
  /\ writer' = [writer EXCEPT ![t] = Resting]
  /\ handler' = IF t = "handler" THEN [handler EXCEPT !.state = "after"] ELSE handler
  /\ UNCHANGED <<files, scratch, received, starts, clash>>

-----------------------------------------------------------------------------
(* The worker: reindex_on_changes. *)

Free == Up /\ At("worker", "none")

Begin(t, job, step, image, next) ==
  writer' = [writer EXCEPT ![t] =
    [step |-> step, job |-> job, image |-> Image(clash, image), file |-> "none", next |-> next]]

\* Mutant: the position is read after the enumeration, and a change later.
Enumerated_Ahead == [tag |-> None, covers |-> 1 .. received', cursor |-> received' + 1]

Enumerated == [tag |-> None, covers |-> 1 .. received', cursor |-> received']

\* A batch is applied to the view loaded now; the result is published as it
\* is, or compacted first, or the batch asks for a rebuild, whatever the
\* shutdown handler does meanwhile.
Take ==
  /\ Free /\ received < MaxChanges
  /\ received' = received + 1
  /\ LET next == [view EXCEPT !.covers = @ \cup {received'}, !.cursor = received'] IN
       \/ Begin("worker", "batch", "publish", ImageOf(next), next)
       \/ Begin("worker", "batch", "names", ImageOf(next), next)
       \/ Begin("worker", "build", "create", Enumerated, NoView)
  /\ UNCHANGED <<files, scratch, view, handler, starts, lost, clash>>

IdlePersist ==
  /\ Free /\ needs_persist(view)
  /\ Begin("worker", "idle", "names", ImageOf(view), NoView)
  /\ UNCHANGED <<files, scratch, view, handler, received, starts, lost, clash>>

-----------------------------------------------------------------------------
(* The shutdown handler: handle_console_ctrl. *)

\* Called on a thread of its own; other volumes may come before this one.
Call ==
  /\ Up /\ handler.state = "absent"
  /\ handler' = [handler EXCEPT !.state = "called"]
  /\ UNCHANGED <<files, scratch, view, writer, received, starts, lost, clash>>

\* persist_idle_view loads the view and has nothing to do, or compacts it.
Load ==
  /\ Up /\ handler.state = "called"
  /\ \/ /\ needs_persist(view)
        /\ handler' = [state |-> "busy", cursor |-> view.cursor]
        /\ Begin("handler", "idle", "names", ImageOf(view), NoView)
     \/ /\ ~needs_persist(view)
        /\ handler' = [state |-> "after", cursor |-> view.cursor]
        /\ UNCHANGED writer
  /\ UNCHANGED <<files, scratch, view, received, starts, lost, clash>>

\* Other volumes may come after this one.
Exit == handler.state \in {"failed", "after"} /\ Gone

Crash == (Up \/ ~At("worker", "none")) /\ Gone

-----------------------------------------------------------------------------
(* A start: build_or_resume_view. *)

\* Mutant: a start goes on from the journal's end.
Resume_AtEnd ==
  /\ ~Up /\ At("worker", "none") /\ starts < MaxStarts
  /\ readable
  /\ received' \in received .. MaxChanges
  /\ view' = [opened EXCEPT !.cursor = received']
  /\ starts' = starts + 1
  /\ UNCHANGED <<files, scratch, writer, handler, lost, clash>>

\* The journal's records after the snapshot's position are replayed.
Resume ==
  /\ ~Up /\ At("worker", "none") /\ starts < MaxStarts
  /\ readable
  /\ received' \in received .. MaxChanges
  /\ view' = [opened EXCEPT !.covers = @ \cup (opened.cursor + 1 .. received'), !.cursor = received']
  /\ starts' = starts + 1
  /\ UNCHANGED <<files, scratch, writer, handler, lost, clash>>

FirstBuild ==
  /\ ~Up /\ At("worker", "none") /\ starts < MaxStarts
  /\ received' \in received .. MaxChanges
  /\ Begin("worker", "start", "create", Enumerated, NoView)
  /\ starts' = starts + 1
  /\ UNCHANGED <<files, scratch, view, handler, lost, clash>>

-----------------------------------------------------------------------------

Init ==
  /\ files = [f \in Names |-> Missing] /\ view = NoView
  /\ scratch = [t \in Threads |-> NoSpools]
  /\ writer = [t \in Threads |-> Resting]
  /\ handler = [state |-> "absent", cursor |-> 0]
  /\ received = 0 /\ starts = 0 /\ lost = FALSE /\ clash = FALSE

Write(t) ==
  \/ \E s \in Spools : OpenSpool(t, s) \/ MapSpool(t, s)
  \/ Merge(t) \/ Regrow(t)
  \/ CreateSnapshot(t) \/ WriteBody(t) \/ RenameSnapshot(t)
  \/ CreateSidecar(t) \/ RenameSidecar(t) \/ Open(t) \/ Publish(t)

Next ==
  \/ \E t \in Threads : Write(t) \/ Fail(t)
  \/ Take \/ IdlePersist \/ Call \/ Load \/ Exit \/ Crash \/ Resume \/ FirstBuild

Spec == Init /\ [][Next]_vars

\* The handler's thread is scheduled. Nothing is asked of the worker, and no
\* step need fail.
LiveSpec == Spec /\ WF_vars(Load \/ Write("handler") \/ Exit)

-----------------------------------------------------------------------------
(* Properties. *)

\* A mapping never changes under those who search it: no write reaches the
\* file that is the view's base (ArenaStore::archived relies on what open found).
MappingUnchanged == view.base = "path" => [files["path"].body EXCEPT !.tag = None] = view.image

\* As long as the two threads have not written one file at once, mappings do
\* not change and what is under the snapshot's name is whole: once there is
\* one, a start finds one.
SnapshotIntact ==
  ~clash => MappingUnchanged /\ (files["path"] # Missing => readable)

\* A sidecar that would be taken for a snapshot's numbers that snapshot's
\* records, between any two steps of two threads that have not written one
\* file, and at any crash: a tag is one image's.
SidecarMatchesSnapshot ==
  ~clash /\ readable /\ paired => files["frn"].body = files["path"].body

\* Neither the snapshot nor the view claims a change it does not hold, unless a
\* view was lost or two threads wrote one file.
NothingOverclaimed ==
  ~lost /\ ~clash => /\ readable => 1 .. opened.cursor \subseteq opened.covers
                     /\ 1 .. view.cursor \subseteq view.covers

\* When the handler has persisted the volume, what is on disk claims no less
\* than the view it found, whatever the worker has been writing at the time,
\* a rebuild included, if it was not in the same file.
ShutdownSaves ==
  ~clash /\ handler.state = "after" => readable /\ opened.cursor >= handler.cursor

\* A shutdown ends, also when the worker is stuck halfway through a compaction
\* or a rebuild, and whatever they have written over each other.
ShutdownEnds == []<>(handler.state = "absent")
=============================================================================
