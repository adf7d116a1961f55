------------------------- MODULE SnapshotFilesProofs -------------------------
(***************************************************************************)
(* For any number of changes and starts: what the worker and the shutdown  *)
(* handler leave under the names of a volume's files, as long as they have *)
(* not written one file at once.                                           *)
(***************************************************************************)
EXTENDS SnapshotFiles, TLAPS

-----------------------------------------------------------------------------
(* The inductive invariant. *)

Spooling(t) == writer[t].step \in {"names", "columns", "merge", "grow"}
BeforeRename(t) == Spooling(t) \/ writer[t].step \in {"create", "body", "rename"}
AfterRename(t) == writer[t].step \in {"frn_create", "frn_body", "frn_rename", "open"}

\* A view is of the snapshot's file, or of one that has been replaced.
BaseOK(v) ==
  \/ v = NoView
  \/ v.base = "gone"
  \/ v.base = "path" /\ [files["path"].body EXCEPT !.tag = None] = v.image

\* What a thread has in hand at each step.
WriterOK(t) ==
  /\ writer[t].step = "none" => writer[t] = Resting
  /\ writer[t].job = "none" => writer[t].step = "none"
  /\ Spooling(t) => writer[t].job \in {"batch", "idle"}
  /\ writer[t].file = IF writer[t].step \in {"body", "rename"} THEN "tmp"
                      ELSE IF writer[t].step \in {"frn_body", "frn_rename"} THEN "frn.tmp" ELSE "none"
  /\ writer[t].step \in {"body", "rename", "frn_create", "frn_body", "frn_rename"} => writer[t].image.tag # None
  /\ BaseOK(writer[t].next)
  /\ writer[t].step = "publish" \/ writer[t].job = "batch" => writer[t].next # NoView

\* Who is at work on what, and no temporary file has two writers.
TurnsOK ==
  /\ \A f \in {"tmp", "frn.tmp"} : ~(HasOpen("worker", f) /\ HasOpen("handler", f))
  /\ writer["handler"].step # "none" <=> handler.state = "busy"
  /\ writer["handler"].job \in {"none", "idle"}
  /\ ~Up => handler.state = "absent" /\ writer["worker"].job \in {"none", "start"}
  /\ writer["worker"].job = "start" => ~Up

\* What is in the files: under a name for good a file is whole, and the
\* temporary ones are as far as their writer is.
FilesOK ==
  /\ \A f \in {"path", "frn"} :
       files[f] = Missing \/ (files[f].tag # None /\ files[f].body.tag = files[f].tag)
  /\ files["tmp"] # Missing => \E t \in Threads : writer[t].step \in {"body", "rename"}
  /\ files["frn.tmp"] # Missing => \E t \in Threads : writer[t].step \in {"frn_body", "frn_rename"}
  /\ \A t \in Threads :
       /\ At(t, "body") => files["tmp"] = [tag |-> writer[t].image.tag, body |-> NoImage]
       /\ At(t, "rename") => files["tmp"] = [tag |-> writer[t].image.tag, body |-> writer[t].image]
       /\ At(t, "frn_body") => files["frn.tmp"] = [tag |-> writer[t].image.tag, body |-> NoImage]
       /\ At(t, "frn_rename") => files["frn.tmp"] = [tag |-> writer[t].image.tag, body |-> writer[t].image]

\* A tag is one image's.
Written == {files[f].body : f \in Names} \cup {writer[t].image : t \in Threads}
TagsOK == \A x, y \in Written : x.tag = y.tag /\ x.tag # None => x = y

\* Positions: nothing claims more than the worker has taken, and a view no
\* less than its file.
Cursors(v) == v.image.cursor <= v.cursor /\ v.cursor <= received
CursorsOK ==
  /\ \A x \in Written : x.cursor <= received
  /\ Cursors(view)
  /\ \A t \in Threads : Cursors(writer[t].next)
  /\ writer["worker"].job = "batch" /\ BeforeRename("worker")
       => writer["worker"].next.cursor <= writer["worker"].image.cursor

\* The position that is to be saved: the handler's, once it has loaded a view,
\* and the published one before that. What the worker is at will not undo it.
Due == IF handler.state \in {"absent", "called"} THEN view.cursor ELSE handler.cursor
Kept == readable /\ Due <= files["path"].body.cursor

PositionKept ==
  /\ Due <= view.cursor
  /\ BeforeRename("worker") => Due <= writer["worker"].image.cursor
  /\ AfterRename("worker") => Kept
  /\ writer["worker"].step = "publish" \/ writer["worker"].job = "batch" => Due <= writer["worker"].next.cursor
  /\ BeforeRename("handler") => Due <= writer["handler"].image.cursor
  /\ AfterRename("handler") => Kept
  /\ writer["handler"].step = "publish" => Kept /\ Due <= writer["handler"].next.cursor
  /\ handler.state = "after" => Kept

\* Until the handler writes, the file is no older than what its views are of.
FileAhead ==
  handler.state \in {"absent", "called"} =>
    /\ Up => readable /\ view.image.cursor <= files["path"].body.cursor
    /\ writer["worker"].step = "publish" \/ writer["worker"].job = "batch" =>
         readable /\ writer["worker"].next.image.cursor <= files["path"].body.cursor

\* What is claimed is held, unless changes have been lost.
Claims(x) == 1 .. x.cursor \subseteq x.covers
Shows(S) == 1 .. received \subseteq S

ClaimsOK ==
  ~lost =>
    /\ \A x \in Written : Claims(x)
    /\ Claims(view)
    /\ \A t \in Threads : Claims(writer[t].next)
    /\ Up /\ writer["worker"].job \in {"none", "idle"} => Shows(view.covers)
    /\ writer["worker"].job \in {"start", "build"} => Shows(writer["worker"].image.covers)
    /\ writer["worker"].job = "batch" =>
         \/ Shows(writer["worker"].image.covers) /\ writer["worker"].step = "publish"
         \/ Shows(writer["worker"].next.covers) /\ writer["worker"].step = "publish"
         \/ Shows(writer["worker"].image.covers) /\ Shows(writer["worker"].next.covers)

\* All of it, while there has been no clash.
Whole ==
  /\ \A t \in Threads : WriterOK(t)
  /\ BaseOK(view) /\ TurnsOK /\ FilesOK /\ TagsOK
  /\ CursorsOK /\ PositionKept /\ FileAhead /\ ClaimsOK

Sound == TypeOK /\ ~clash /\ Whole

FilesInv == TypeOK /\ (~clash => Whole)

-----------------------------------------------------------------------------
(* Types, and what excludes what. *)

WriterSet == [step : Steps, job : {"none", "start", "build", "batch", "idle"},
            image : Images, file : Names \cup {"none", "gone"}, next : Views]
FileSet == [tag : Tags \cup {None}, body : Images]
Handlers == [state : {"absent", "called", "busy", "failed", "after"}, cursor : 0 .. MaxChanges]

LEMMA NothingTypes ==
  /\ NoImage \in Images /\ Missing \in FileSet /\ NoView \in Views /\ Resting \in WriterSet
  /\ MaxChanges \in Nat /\ MaxStarts \in Nat
<1>1. MaxChanges \in Nat /\ MaxStarts \in Nat
  BY SnapshotFilesAssumption
<1>2. NoImage \in Images
  BY <1>1 DEF NoImage, Images, None, Tags
<1>3. NoView \in Views
  BY <1>1, <1>2 DEF NoView, Views, Names
<1> QED  BY <1>1, <1>2, <1>3 DEF Missing, FileSet, None, Tags, Resting, WriterSet, Steps, Names

\* The parts of the state a step may leave alone.
LEMMA Types ==
  TypeOK <=>
    /\ files \in [Names -> FileSet] /\ scratch \in [Threads -> [Spools -> Holds]] /\ view \in Views
    /\ writer \in [Threads -> WriterSet] /\ handler \in Handlers
    /\ received \in 0 .. MaxChanges /\ starts \in 0 .. MaxStarts
    /\ lost \in BOOLEAN /\ clash \in BOOLEAN
BY DEF TypeOK, FileSet, WriterSet, Handlers

LEMMA RestingFields ==
  /\ Resting.step = "none" /\ Resting.job = "none" /\ Resting.image = NoImage
  /\ Resting.file = "none" /\ Resting.next = NoView
BY DEF Resting

\* A temporary file has one writer.
LEMMA Alone ==
  ASSUME TurnsOK, NEW s \in Threads, NEW t \in Threads, s # t, WriterOK(s), WriterOK(t)
  PROVE  /\ writer[t].step \in {"body", "rename"} => writer[s].step \notin {"body", "rename"}
         /\ writer[t].step \in {"frn_body", "frn_rename"} => writer[s].step \notin {"frn_body", "frn_rename"}
BY DEF TurnsOK, HasOpen, WriterOK, Threads

\* There is a fresh tag for a snapshot: five are enough.
LEMMA FreshTagExists ==
  ASSUME Sound
  PROVE  /\ FreshTag \in Tags
         /\ \A f \in Names : files[f].tag # FreshTag /\ files[f].body.tag # FreshTag
         /\ \A s \in Threads : writer[s].image.tag # FreshTag
<1>1. files \in [Names -> FileSet] /\ FilesOK /\ ~clash
  BY Types DEF Sound, Whole
<1> DEFINE w == writer["worker"].image.tag
           h == writer["handler"].image.tag
<1>2. \A f \in {"tmp", "frn.tmp"} : files[f].tag \in {w, h, None} /\ files[f].body.tag \in {w, h, None}
  <2>1. \A s \in Threads : writer[s].image.tag \in {w, h}
    BY DEF Threads
  <2>2. Missing.tag = None /\ Missing.body.tag = None /\ NoImage.tag = None
    BY DEF Missing, NoImage
  <2>3. \A f \in {"tmp", "frn.tmp"} : files[f] # Missing =>
          \E s \in Threads : \/ files[f] = [tag |-> writer[s].image.tag, body |-> NoImage]
                            \/ files[f] = [tag |-> writer[s].image.tag, body |-> writer[s].image]
    BY <1>1 DEF FilesOK, At
  <2>4. \A f \in {"tmp", "frn.tmp"} : files[f] # Missing =>
          \E s \in Threads : /\ files[f].tag = writer[s].image.tag
                           /\ files[f].body.tag \in {writer[s].image.tag, None}
    <3> SUFFICES ASSUME NEW f \in {"tmp", "frn.tmp"}, files[f] # Missing
                 PROVE  \E s \in Threads : /\ files[f].tag = writer[s].image.tag
                                          /\ files[f].body.tag \in {writer[s].image.tag, None}
      OBVIOUS
    <3>1. PICK s \in Threads : \/ files[f] = [tag |-> writer[s].image.tag, body |-> NoImage]
                              \/ files[f] = [tag |-> writer[s].image.tag, body |-> writer[s].image]
      BY <2>3
    <3>2. files[f].tag = writer[s].image.tag /\ files[f].body \in {NoImage, writer[s].image}
      BY <3>1
    <3> QED  BY <3>2, <2>2
  <2> HIDE DEF w, h
  <2> QED  BY <2>1, <2>2, <2>4
<1>3. PICK a, b \in Tags \cup {None} :
        /\ files["path"].tag \in {a, None} /\ files["path"].body.tag \in {a, None}
        /\ files["frn"].tag \in {b, None} /\ files["frn"].body.tag \in {b, None}
  BY <1>1 DEF FilesOK, Missing, NoImage, FileSet, Names
<1>4. \A n \in Tags : n \notin {a, b, w, h}
        => /\ \A f \in Names : files[f].tag # n /\ files[f].body.tag # n
           /\ \A s \in Threads : writer[s].image.tag # n
  <2>1. \A s \in Threads : writer[s].image.tag \in {w, h}
    BY DEF Threads
  <2>2. \A n \in Tags : n # None
    BY DEF Tags, None
  <2> HIDE DEF w, h
  <2>3. \A f \in Names : files[f].tag \in {a, b, w, h, None} /\ files[f].body.tag \in {a, b, w, h, None}
    BY <1>2, <1>3 DEF Names
  <2> QED  BY <2>1, <2>2, <2>3
<1>5. \A p, q, x, y : \E n \in Tags : n \notin {p, q, x, y}
  BY DEF Tags
<1> HIDE DEF w, h
<1>6. \E n \in Tags : /\ \A f \in Names : files[f].tag # n /\ files[f].body.tag # n
                     /\ \A s \in Threads : writer[s].image.tag # n
  BY <1>4, <1>5
<1> QED  BY <1>1, <1>6 DEF FreshTag

\* Without a clash, files and writers are what was written.
LEMMA Unclashed ==
  ASSUME NEW meets, NEW fs \in [Names -> FileSet], NEW w \in [Threads -> WriterSet],
         Leaves(meets, fs, w), ~clash'
  PROVE  /\ ~clash /\ ~meets /\ files' = fs /\ writer' = w
         /\ UNCHANGED <<view, handler, received, starts, lost>>
<1>1. ~clash /\ ~meets /\ UNCHANGED <<view, handler, received, starts, lost>>
  BY DEF Leaves
<1>2. files' = Files(FALSE, fs) /\ writer' = Writers(FALSE, w)
  BY DEF Leaves
<1>3. Files(FALSE, fs) = fs
  BY DEF Files, Image, FileSet
<1>4. Writers(FALSE, w) = w
  <2>1. \A x : Image(FALSE, x) = x
    BY DEF Image
  <2>2. \A x \in WriterSet : [x EXCEPT !.image = x.image] = x
    BY DEF WriterSet
  <2>3. Writers(FALSE, w) = [s \in Threads |-> [w[s] EXCEPT !.image = w[s].image]]
    BY <2>1 DEF Writers
  <2> QED  BY <2>2, <2>3
<1> QED  BY <1>1, <1>2, <1>3, <1>4

\* What create makes of files and writers, before a clash is taken into account.
CreatedFile(name, tag) == [files EXCEPT ![name] = [tag |-> tag, body |-> NoImage]]
Creating(t, name, tag, n) == [writer EXCEPT ![t].step = n, ![t].file = name, ![t].image.tag = tag]

LEMMA Created ==
  ASSUME TypeOK, NEW t \in Threads, NEW name \in Names, NEW tag \in Tags \cup {None}, NEW n \in Steps,
         NEW fs, fs = CreatedFile(name, tag), NEW w, w = Creating(t, name, tag, n)
  PROVE  /\ fs \in [Names -> FileSet] /\ fs[name] = [tag |-> tag, body |-> NoImage]
         /\ \A f \in Names : f # name => fs[f] = files[f]
         /\ w \in [Threads -> WriterSet] /\ \A s \in Threads : s # t => w[s] = writer[s]
         /\ w[t].step = n /\ w[t].job = writer[t].job /\ w[t].file = name /\ w[t].next = writer[t].next
         /\ w[t].image.tag = tag /\ w[t].image.covers = writer[t].image.covers
         /\ w[t].image.cursor = writer[t].image.cursor
<1> DEFINE image == [writer[t].image EXCEPT !.tag = tag]
           r == [[[writer[t] EXCEPT !.step = n] EXCEPT !.file = name] EXCEPT !.image = image]
<1>1. files \in [Names -> FileSet] /\ writer \in [Threads -> WriterSet] /\ [tag |-> tag, body |-> NoImage] \in FileSet
  BY Types, NothingTypes DEF FileSet
<1>f. /\ fs \in [Names -> FileSet] /\ fs[name] = [tag |-> tag, body |-> NoImage]
      /\ \A f \in Names : f # name => fs[f] = files[f]
  BY <1>1 DEF CreatedFile
<1>2. /\ image \in Images /\ image.tag = tag /\ image.covers = writer[t].image.covers
      /\ image.cursor = writer[t].image.cursor
  BY <1>1 DEF WriterSet, Images
<1>3. w = [writer EXCEPT ![t] = [[[writer[t] EXCEPT !.step = n] EXCEPT !.file = name] EXCEPT !.image.tag = tag]]
  BY <1>1 DEF Creating
<1>6. \A x \in WriterSet : [x EXCEPT !.image.tag = tag] = [x EXCEPT !.image = [x.image EXCEPT !.tag = tag]]
  BY DEF WriterSet
<1>7. [[writer[t] EXCEPT !.step = n] EXCEPT !.file = name] \in WriterSet
  BY <1>1 DEF WriterSet
<1>8. [[writer[t] EXCEPT !.step = n] EXCEPT !.file = name].image = writer[t].image
  BY <1>1 DEF WriterSet
<1>9. w = [writer EXCEPT ![t] = r]
  BY <1>3, <1>6, <1>7, <1>8
<1> HIDE DEF image
<1>4. /\ r \in WriterSet /\ r.step = n /\ r.job = writer[t].job /\ r.file = name
      /\ r.next = writer[t].next /\ r.image = image
  BY <1>1, <1>2 DEF WriterSet
<1> HIDE DEF r
<1>5. /\ w \in [Threads -> WriterSet] /\ (\A s \in Threads : s # t => w[s] = writer[s])
      /\ w[t] = r
  BY <1>1, <1>4, <1>9
<1> QED  BY <1>f, <1>2, <1>4, <1>5

LEMMA CreatedTypes ==
  ASSUME TypeOK, NEW t \in Threads, NEW name \in Names, NEW tag \in Tags \cup {None}, NEW n \in Steps
  PROVE  CreatedFile(name, tag) \in [Names -> FileSet] /\ Creating(t, name, tag, n) \in [Threads -> WriterSet]
<1> DEFINE fs == CreatedFile(name, tag)
           w == Creating(t, name, tag, n)
<1>1. fs = CreatedFile(name, tag) /\ w = Creating(t, name, tag, n)
  OBVIOUS
<1> HIDE DEF fs, w
<1>2. /\ fs \in [Names -> FileSet] /\ fs[name] = [tag |-> tag, body |-> NoImage]
      /\ \A f \in Names : f # name => fs[f] = files[f]
      /\ w \in [Threads -> WriterSet] /\ \A s \in Threads : s # t => w[s] = writer[s]
      /\ w[t].step = n /\ w[t].job = writer[t].job /\ w[t].file = name /\ w[t].next = writer[t].next
      /\ w[t].image.tag = tag /\ w[t].image.covers = writer[t].image.covers
      /\ w[t].image.cursor = writer[t].image.cursor
  BY <1>1, Created
<1> QED  BY <1>1, <1>2

-----------------------------------------------------------------------------
(* Init. *)

LEMMA InitInv == Init => FilesInv
<1> SUFFICES ASSUME Init PROVE TypeOK /\ Whole
  BY DEF FilesInv
<1>1. TypeOK
  <2>1. files \in [Names -> FileSet] /\ writer \in [Threads -> WriterSet] /\ view \in Views
    BY NothingTypes DEF Init
  <2>2. /\ handler \in Handlers /\ scratch \in [Threads -> [Spools -> Holds]]
        /\ lost \in BOOLEAN /\ clash \in BOOLEAN
        /\ received \in 0 .. MaxChanges /\ starts \in 0 .. MaxStarts
    <3>1. 0 \in 0 .. MaxChanges /\ 0 \in 0 .. MaxStarts
      BY NothingTypes
    <3> QED  BY <3>1 DEF Init, Handlers, NoSpools, Holds
  <2> QED  BY <2>1, <2>2, Types
<1>2. (\A t \in Threads : WriterOK(t)) /\ BaseOK(view) /\ TurnsOK
  BY DEF Init, WriterOK, Spooling, BaseOK, TurnsOK, HasOpen, Resting, Threads, Up
<1>3. FilesOK /\ TagsOK
  BY DEF Init, FilesOK, TagsOK, Written, Resting, At, Names, Missing
<1>4. CursorsOK /\ PositionKept /\ FileAhead /\ ClaimsOK
  BY DEF Init, CursorsOK, Cursors, PositionKept, Due, FileAhead, ClaimsOK, Claims, Shows, Written,
     Resting, BeforeRename, Spooling, AfterRename, NoView, NoImage, Missing, Names, Threads, Up
<1> QED  BY <1>1, <1>2, <1>3, <1>4 DEF Whole

-----------------------------------------------------------------------------
(* Giving up. *)

LEMMA AbandonStep ==
  ASSUME Sound, NEW t \in Threads, writer[t].step \notin {"none", "publish"}, Abandon(t)
  PROVE  Whole'
<1>0. /\ TypeOK /\ (\A s \in Threads : WriterOK(s)) /\ BaseOK(view) /\ TurnsOK /\ FilesOK /\ TagsOK
      /\ CursorsOK /\ PositionKept /\ FileAhead /\ ClaimsOK
  BY DEF Sound, Whole
<1>1. /\ files \in [Names -> FileSet] /\ view \in Views
      /\ writer \in [Threads -> WriterSet] /\ handler \in Handlers
      /\ received \in 0 .. MaxChanges /\ starts \in 0 .. MaxStarts /\ lost \in BOOLEAN
  BY <1>0, Types
<1>2. /\ view' = view /\ received' = received /\ starts' = starts
      /\ lost' = (lost \/ writer[t].job = "build")
      /\ \A s \in Threads : s # t => writer'[s] = writer[s]
      /\ writer'[t] =
           IF writer[t].job = "batch"
           THEN [step |-> "publish", job |-> "batch", image |-> NoImage, file |-> "none", next |-> writer[t].next]
           ELSE Resting
      /\ files'["path"] = files["path"] /\ files'["frn"] = files["frn"]
      /\ files'["tmp"] = IF writer[t].file = "tmp" THEN Missing ELSE files["tmp"]
      /\ files'["frn.tmp"] = IF writer[t].file = "frn.tmp" THEN Missing ELSE files["frn.tmp"]
      /\ handler' = IF t = "handler" THEN [state |-> "failed", cursor |-> handler.cursor] ELSE handler
  <2>1. /\ view' = view /\ received' = received /\ starts' = starts
        /\ lost' = (lost \/ writer[t].job = "build")
    BY DEF Abandon
  <2>2. /\ \A s \in Threads : s # t => writer'[s] = writer[s]
        /\ writer'[t] =
             IF writer[t].job = "batch"
             THEN [step |-> "publish", job |-> "batch", image |-> NoImage, file |-> "none", next |-> writer[t].next]
             ELSE Resting
    <3>1. [Resting EXCEPT !.step = "publish", !.job = "batch", !.next = writer[t].next]
            = [step |-> "publish", job |-> "batch", image |-> NoImage, file |-> "none", next |-> writer[t].next]
      <4> DEFINE r == [Resting EXCEPT !.step = "publish", !.job = "batch", !.next = writer[t].next]
      <4>1. Resting.image = NoImage /\ Resting.file = "none" /\ Resting \in WriterSet
        BY NothingTypes DEF Resting
      <4>2. r \in WriterSet
        BY <4>1, <1>1 DEF WriterSet, Steps
      <4>3. r.step = "publish" /\ r.job = "batch" /\ r.image = NoImage /\ r.file = "none" /\ r.next = writer[t].next
        BY <4>1 DEF WriterSet
      <4> HIDE DEF r
      <4>4. r = [step |-> r.step, job |-> r.job, image |-> r.image, file |-> r.file, next |-> r.next]
        BY <4>2 DEF WriterSet
      <4> QED  BY <4>3, <4>4 DEF r
    <3> QED  BY <1>1, <3>1 DEF Abandon
  <2>3. \A f \in Names : files'[f] = IF f = writer[t].file /\ f \in {"tmp", "frn.tmp"} THEN Missing ELSE files[f]
    <3>1. \A f \in {"tmp", "frn.tmp"}, s \in Threads : s # t /\ HasOpen(t, f) => ~HasOpen(s, f)
      BY <1>0 DEF TurnsOK, Threads
    <3> QED  BY <3>1 DEF Abandon, HasOpen
  <2>4. handler' = IF t = "handler" THEN [state |-> "failed", cursor |-> handler.cursor] ELSE handler
    BY <1>1 DEF Abandon, Handlers
  <2> QED  BY <2>1, <2>2, <2>3, <2>4 DEF Names
<1>3. writer'[t].step \in {"none", "publish"} /\ writer'[t].file = "none" /\ writer'[t].image = NoImage
  BY <1>2, RestingFields
<1>4. \A s \in Threads : WriterOK(s)'
  BY <1>0, <1>2 DEF WriterOK, Spooling, BaseOK, Resting
<1>5. BaseOK(view)'
  BY <1>0, <1>2 DEF BaseOK
<1>6. TurnsOK'
  BY <1>0, <1>1, <1>2 DEF TurnsOK, HasOpen, WriterOK, Spooling, Resting, Up, Threads
<1>7. FilesOK'
  <2>1. \A f \in {"path", "frn"} :
          files'[f] = Missing \/ (files'[f].tag # None /\ files'[f].body.tag = files'[f].tag)
    BY <1>0, <1>2 DEF FilesOK
  <2>2. ASSUME NEW s \in Threads, s # t
        PROVE  /\ writer'[s].step \in {"body", "rename"} => files'["tmp"] = files["tmp"]
               /\ writer'[s].step \in {"frn_body", "frn_rename"} => files'["frn.tmp"] = files["frn.tmp"]
    BY <2>2, <1>0, <1>2 DEF WriterOK, TurnsOK, HasOpen, Threads
  <2>3. files'["tmp"] # Missing => \E s \in Threads : writer'[s].step \in {"body", "rename"}
    BY <1>0, <1>2 DEF FilesOK, WriterOK
  <2>4. files'["frn.tmp"] # Missing => \E s \in Threads : writer'[s].step \in {"frn_body", "frn_rename"}
    BY <1>0, <1>2 DEF FilesOK, WriterOK
  <2> QED  BY <2>1, <2>2, <2>3, <2>4, <1>0, <1>2, <1>3 DEF FilesOK, At
<1>w. Written' \subseteq Written \cup {NoImage}
  BY <1>2 DEF Written, Names, Resting, Missing
<1>n. \A s \in Threads : writer'[s].next \in {writer[s].next, NoView}
  BY <1>2 DEF Resting
<1>8. TagsOK'
  BY <1>w, <1>0 DEF TagsOK, NoImage
<1>9. CursorsOK'
  BY <1>0, <1>1, <1>2, <1>w, <1>n DEF CursorsOK, Cursors, NoImage, NoView, BeforeRename, Spooling,
     Threads, Resting
<1>10. PositionKept' /\ FileAhead'
  BY <1>0, <1>2 DEF PositionKept, Due, FileAhead, BeforeRename, Spooling, AfterRename, Kept,
     readable, Resting, TurnsOK, HasOpen, Threads, Up
<1>11. ClaimsOK'
  <2>1. SUFFICES ASSUME ~lost' PROVE ClaimsOK'
    BY DEF ClaimsOK
  <2>2. ~lost /\ writer[t].job # "build"
    BY <2>1, <1>2
  <2>3. Claims(NoImage) /\ Claims(NoView)
    BY DEF Claims, NoImage, NoView
  <2>4. (\A x \in Written' : Claims(x)) /\ Claims(view') /\ (\A s \in Threads : Claims(writer'[s].next))
    BY <2>2, <2>3, <1>0, <1>2, <1>w, <1>n DEF ClaimsOK
  <2>5. \A S : Shows(S) => Shows(S)'
    BY <1>2 DEF Shows
  <2>6. /\ Up' /\ writer'["worker"].job \in {"none", "idle"} => Shows(view'.covers)
        /\ writer'["worker"].job \in {"start", "build"} => Shows(writer'["worker"].image.covers)
        /\ writer'["worker"].job = "batch" =>
             Shows(writer'["worker"].next.covers) \/ writer'["worker"] = writer["worker"]
    BY <2>2, <1>0, <1>1, <1>2 DEF ClaimsOK, Resting, Up, TurnsOK, HasOpen, Threads, WriterSet
  <2> QED  BY <2>4, <2>6, <1>0, <1>2, <2>2 DEF ClaimsOK, Claims, Shows, Resting, Threads
<1> QED  BY <1>4, <1>5, <1>6, <1>7, <1>8, <1>9, <1>10, <1>11 DEF Whole

-----------------------------------------------------------------------------
(* Writing. *)

\* What a step of one thread leaves alone when the files' names stay.
LEMMA OthersKept ==
  ASSUME NEW s \in Threads, WriterOK(s), writer'[s] = writer[s],
         files'["path"] = files["path"]
  PROVE  WriterOK(s)'
BY DEF WriterOK, Spooling, BaseOK

\* No step among the spools touches the snapshot's files.
LEMMA SpoolStep ==
  ASSUME Sound, NEW t \in Threads, Spooling(t), NEW n \in {"names", "columns", "merge", "grow", "create"},
         writer' = [writer EXCEPT ![t].step = n], UNCHANGED <<files, handler, lost, view, received, starts>>
  PROVE  Whole'
<1>0. /\ TypeOK /\ (\A s \in Threads : WriterOK(s)) /\ BaseOK(view) /\ TurnsOK /\ FilesOK /\ TagsOK
      /\ CursorsOK /\ PositionKept /\ FileAhead /\ ClaimsOK
  BY DEF Sound, Whole
<1>1. /\ files \in [Names -> FileSet] /\ view \in Views
      /\ writer \in [Threads -> WriterSet] /\ handler \in Handlers
      /\ received \in 0 .. MaxChanges /\ starts \in 0 .. MaxStarts /\ lost \in BOOLEAN
  BY <1>0, Types
<1>2. /\ \A s \in Threads : s # t => writer'[s] = writer[s]
      /\ writer'[t].step = n /\ writer'[t].job = writer[t].job /\ writer'[t].image = writer[t].image
      /\ writer'[t].file = writer[t].file /\ writer'[t].next = writer[t].next
      /\ writer' \in [Threads -> WriterSet]
  <2>1. n \in Steps
    BY DEF Steps, Spools
  <2> QED  BY <2>1, <1>1 DEF WriterSet
<1>3. /\ writer[t].step \in {"names", "columns", "merge", "grow"}
      /\ writer'[t].step \in {"names", "columns", "merge", "grow", "create"}
  BY <1>2 DEF Spooling
<1>4. \A s \in Threads : WriterOK(s)'
  <2>1. WriterOK(t)'
    BY <1>0, <1>2, <1>3 DEF WriterOK, Spooling, BaseOK
  <2> QED  BY <2>1, <1>0, <1>2, OthersKept
<1>5. BaseOK(view)' /\ TagsOK'
  BY <1>0, <1>2 DEF BaseOK, TagsOK, Written
<1>6. TurnsOK'
  <2>1. writer[t].job \in {"batch", "idle"}
    BY <1>0, <1>1 DEF TurnsOK, HasOpen, WriterOK, Spooling, At, WriterSet, Threads
  <2> QED  BY <2>1, <1>0, <1>1, <1>2 DEF TurnsOK, HasOpen, Spooling, Up, Threads, At
<1>7. FilesOK'
  BY <1>0, <1>2, <1>3 DEF FilesOK, At
<1>8. CursorsOK' /\ PositionKept' /\ FileAhead'
  BY <1>0, <1>2, <1>3 DEF CursorsOK, Cursors, Written, PositionKept, FileAhead, Due, Kept,
     readable, Up, At, BeforeRename, Spooling, AfterRename, Threads
<1>9. ClaimsOK'
  <2>1. Written' = Written
    BY <1>2 DEF Written
  <2>2. writer'["worker"].step = "publish" <=> writer["worker"].step = "publish"
    BY <1>2, <1>3 DEF Threads
  <2> QED  BY <2>1, <2>2, <1>0, <1>2 DEF ClaimsOK, Claims, Shows, Up, Threads
<1> QED  BY <1>4, <1>5, <1>6, <1>7, <1>8, <1>9 DEF Whole

LEMMA CreateSnapshotStep ==
  ASSUME Sound, NEW t \in Threads, CreateSnapshot(t), ~clash'
  PROVE  Whole'
<1>0. /\ TypeOK /\ (\A s \in Threads : WriterOK(s)) /\ BaseOK(view) /\ TurnsOK /\ FilesOK /\ TagsOK
      /\ CursorsOK /\ PositionKept /\ FileAhead /\ ClaimsOK
  BY DEF Sound, Whole
<1>1. /\ files \in [Names -> FileSet] /\ writer \in [Threads -> WriterSet]
      /\ received \in 0 .. MaxChanges
  BY <1>0, Types
<1> DEFINE tag == FreshTag
           fs == CreatedFile("tmp", tag)
           w == Creating(t, "tmp", tag, "body")
           meets == \E p \in Threads \ {t} : HasOpen(p, "tmp")
<1>2. /\ tag \in Tags /\ tag # None
      /\ \A f \in Names : files[f].body.tag # tag
      /\ \A s \in Threads : writer[s].image.tag # tag
  BY FreshTagExists DEF Tags, None
<1>l. Leaves(meets, fs, w)
  BY DEF CreateSnapshot, Create, CreatedFile, Creating
<1> HIDE DEF tag, meets
<1>a. /\ fs \in [Names -> FileSet] /\ fs["tmp"] = [tag |-> tag, body |-> NoImage]
      /\ \A f \in Names : f # "tmp" => fs[f] = files[f]
      /\ w \in [Threads -> WriterSet] /\ \A s \in Threads : s # t => w[s] = writer[s]
      /\ w[t].step = "body" /\ w[t].job = writer[t].job /\ w[t].file = "tmp" /\ w[t].next = writer[t].next
      /\ w[t].image.tag = tag /\ w[t].image.covers = writer[t].image.covers
      /\ w[t].image.cursor = writer[t].image.cursor
  <2>1. "tmp" \in Names /\ "body" \in Steps
    BY DEF Names, Steps
  <2> QED  BY <2>1, <1>0, <1>2, Created
<1> HIDE DEF fs, w
<1>b. /\ ~meets /\ files' = fs /\ writer' = w
      /\ UNCHANGED <<view, handler, received, starts, lost>>
  BY <1>a, <1>l, Unclashed
<1>c. \A s \in Threads : s # t => ~HasOpen(s, "tmp")
  BY <1>b DEF meets
<1>4. /\ \A s \in Threads : s # t => writer'[s] = writer[s]
      /\ writer'[t].step = "body" /\ writer'[t].job = writer[t].job /\ writer'[t].file = "tmp"
      /\ writer'[t].next = writer[t].next
      /\ writer'[t].image.tag = tag /\ writer'[t].image.covers = writer[t].image.covers
      /\ writer'[t].image.cursor = writer[t].image.cursor
      /\ writer' \in [Threads -> WriterSet]
  BY <1>a, <1>b
<1>5. /\ \A f \in Names : f # "tmp" => files'[f] = files[f]
      /\ files'["tmp"] = [tag |-> tag, body |-> NoImage] /\ files' \in [Names -> FileSet]
  BY <1>a, <1>b
<1>3. At(t, "create") /\ UNCHANGED <<view, handler, received, starts, lost>>
  BY <1>b DEF CreateSnapshot
<1>7. \A s \in Threads : WriterOK(s)'
  <2>1. WriterOK(t)'
    BY <1>0, <1>2, <1>3, <1>4, <1>5 DEF WriterOK, Spooling, BaseOK, At, Names
  <2> QED  BY <2>1, <1>0, <1>4, <1>5, OthersKept DEF Names
<1>8. BaseOK(view)' /\ TurnsOK'
  BY <1>0, <1>c, <1>3, <1>4, <1>5 DEF BaseOK, TurnsOK, HasOpen, Up, At, Names, Threads, WriterOK
<1>9. FilesOK'
  <2>1. \A s \in Threads : s # t => writer[s].step \notin {"body", "rename"}
    BY <1>0, <1>c DEF WriterOK, HasOpen
  <2>2. writer[t].step = "create" /\ writer'[t].step = "body"
    BY <1>3, <1>4 DEF At
  <2>3. \A f \in {"path", "frn", "frn.tmp"} : files'[f] = files[f]
    BY <1>5 DEF Names
  <2>4. files'["frn.tmp"] # Missing => \E s \in Threads : writer'[s].step \in {"frn_body", "frn_rename"}
    BY <2>2, <2>3, <1>0, <1>4 DEF FilesOK
  <2> QED  BY <2>1, <2>2, <2>3, <2>4, <1>0, <1>4, <1>5 DEF FilesOK, At
<1>w. Written' \subseteq Written \cup {NoImage, writer'[t].image}
  BY <1>4, <1>5 DEF Written, Names
<1>10. TagsOK'
  BY <1>w, <1>0, <1>2, <1>4 DEF TagsOK, Written, NoImage
<1>11. CursorsOK'
  <2>1. \A x \in Written' : x.cursor <= received
    <3>1. writer[t].image \in Written
      BY DEF Written
    <3>2. writer'[t].image.cursor <= received /\ NoImage.cursor <= received
      BY <3>1, <1>0, <1>1, <1>4 DEF CursorsOK, NoImage
    <3> QED  BY <3>2, <1>w, <1>0 DEF CursorsOK
  <2>2. /\ \A s \in Threads : Cursors(writer'[s].next)
        /\ writer'["worker"].job = "batch" /\ BeforeRename("worker")'
             => writer'["worker"].next.cursor <= writer'["worker"].image.cursor
    BY <1>0, <1>3, <1>4 DEF CursorsOK, BeforeRename, Spooling, Threads, At
  <2> QED  BY <2>1, <2>2, <1>0, <1>3 DEF CursorsOK, Cursors
<1>12. PositionKept' /\ FileAhead'
  BY <1>0, <1>3, <1>4, <1>5 DEF PositionKept, FileAhead, Due, Kept, readable, Up, At,
     BeforeRename, Spooling, AfterRename, Threads, Names
<1>13. ClaimsOK'
  <2>1. SUFFICES ASSUME ~lost PROVE ClaimsOK'
    BY <1>3 DEF ClaimsOK
  <2>2. \A x \in Written' : Claims(x)
    <3>1. writer[t].image \in Written
      BY DEF Written
    <3>2. Claims(writer'[t].image) /\ Claims(NoImage)
      BY <3>1, <2>1, <1>0, <1>4 DEF ClaimsOK, Claims, NoImage
    <3> QED  BY <3>2, <2>1, <1>w, <1>0 DEF ClaimsOK
  <2>3. (\A s \in Threads : Claims(writer'[s].next)) /\ Claims(view')
    BY <2>1, <1>0, <1>3, <1>4 DEF ClaimsOK
  <2>4. \A s \in Threads : /\ writer'[s].job = writer[s].job /\ writer'[s].next = writer[s].next
                           /\ writer'[s].image.covers = writer[s].image.covers
    BY <1>4
  <2>5. writer["worker"].step = "publish" => writer'["worker"].step = "publish"
    BY <1>3, <1>4 DEF At, Threads
  <2> QED  BY <2>1, <2>2, <2>3, <2>4, <2>5, <1>0, <1>3 DEF ClaimsOK, Shows, Up, Threads
<1> QED  BY <1>7, <1>8, <1>9, <1>10, <1>11, <1>12, <1>13 DEF Whole

LEMMA CreateSidecarStep ==
  ASSUME Sound, NEW t \in Threads, CreateSidecar(t), ~clash'
  PROVE  Whole'
<1>0. /\ TypeOK /\ (\A s \in Threads : WriterOK(s)) /\ BaseOK(view) /\ TurnsOK /\ FilesOK /\ TagsOK
      /\ CursorsOK /\ PositionKept /\ FileAhead /\ ClaimsOK
  BY DEF Sound, Whole
<1>1. /\ files \in [Names -> FileSet] /\ writer \in [Threads -> WriterSet]
      /\ received \in 0 .. MaxChanges
  BY <1>0, Types
<1> DEFINE tag == writer[t].image.tag
           fs == CreatedFile("frn.tmp", tag)
           w == Creating(t, "frn.tmp", tag, "frn_body")
           meets == \E p \in Threads \ {t} : HasOpen(p, "frn.tmp")
<1>2. tag \in Tags /\ tag # None
  BY <1>0, <1>1 DEF CreateSidecar, At, WriterOK, WriterSet, Images
<1>l. Leaves(meets, fs, w)
  BY DEF CreateSidecar, Create, CreatedFile, Creating
<1> HIDE DEF tag, meets
<1>a. /\ fs \in [Names -> FileSet] /\ fs["frn.tmp"] = [tag |-> tag, body |-> NoImage]
      /\ \A f \in Names : f # "frn.tmp" => fs[f] = files[f]
      /\ w \in [Threads -> WriterSet] /\ \A s \in Threads : s # t => w[s] = writer[s]
      /\ w[t].step = "frn_body" /\ w[t].job = writer[t].job /\ w[t].file = "frn.tmp" /\ w[t].next = writer[t].next
      /\ w[t].image.tag = tag /\ w[t].image.covers = writer[t].image.covers
      /\ w[t].image.cursor = writer[t].image.cursor
  <2>1. "frn.tmp" \in Names /\ "frn_body" \in Steps
    BY DEF Names, Steps
  <2> QED  BY <2>1, <1>0, <1>2, Created
<1> HIDE DEF fs, w
<1>b. /\ ~meets /\ files' = fs /\ writer' = w
      /\ UNCHANGED <<view, handler, received, starts, lost>>
  BY <1>a, <1>l, Unclashed
<1>c. \A s \in Threads : s # t => ~HasOpen(s, "frn.tmp")
  BY <1>b DEF meets
<1>3. At(t, "frn_create") /\ UNCHANGED <<view, handler, received, starts, lost>>
  BY <1>b DEF CreateSidecar
<1>4. /\ \A s \in Threads : s # t => writer'[s] = writer[s]
      /\ writer'[t].step = "frn_body" /\ writer'[t].job = writer[t].job /\ writer'[t].file = "frn.tmp"
      /\ writer'[t].next = writer[t].next /\ writer'[t].image = writer[t].image
      /\ writer' \in [Threads -> WriterSet]
  <2>1. writer'[t].image \in Images /\ writer[t].image \in Images
    BY <1>1, <1>a, <1>b DEF WriterSet
  <2>2. \A x, y \in Images : x.tag = y.tag /\ x.covers = y.covers /\ x.cursor = y.cursor => x = y
    BY DEF Images
  <2>3. writer'[t].image = writer[t].image
    BY <2>1, <2>2, <1>a, <1>b DEF tag
  <2> QED  BY <2>3, <1>a, <1>b
<1>5. /\ \A f \in Names : f # "frn.tmp" => files'[f] = files[f]
      /\ files'["frn.tmp"] = [tag |-> tag, body |-> NoImage] /\ files' \in [Names -> FileSet]
  BY <1>a, <1>b
<1>7. \A s \in Threads : WriterOK(s)'
  <2>1. WriterOK(t)'
    BY <1>0, <1>2, <1>3, <1>4, <1>5 DEF WriterOK, Spooling, BaseOK, At, Names
  <2> QED  BY <2>1, <1>0, <1>4, <1>5, OthersKept DEF Names
<1>8. BaseOK(view)' /\ TurnsOK'
  BY <1>0, <1>c, <1>3, <1>4, <1>5 DEF BaseOK, TurnsOK, HasOpen, Up, At, Names, Threads, WriterOK
<1>9. FilesOK'
  <2>1. \A s \in Threads : s # t => writer[s].step \notin {"frn_body", "frn_rename"}
    BY <1>0, <1>c DEF WriterOK, HasOpen
  <2>t. writer[t].step = "frn_create" /\ writer'[t].step = "frn_body"
    BY <1>3, <1>4 DEF At
  <2>2. \A f \in {"path", "frn"} :
          files'[f] = Missing \/ (files'[f].tag # None /\ files'[f].body.tag = files'[f].tag)
    BY <1>0, <1>5 DEF FilesOK, Names
  <2>3. files'["tmp"] = files["tmp"]
    BY <1>5 DEF Names
  <2>4. files'["tmp"] # Missing => \E s \in Threads : writer'[s].step \in {"body", "rename"}
    BY <2>t, <2>3, <1>0, <1>4 DEF FilesOK
  <2> QED  BY <2>1, <2>t, <2>2, <2>3, <2>4, <1>0, <1>4, <1>5 DEF FilesOK, At, tag
<1>w. Written' \subseteq Written \cup {NoImage}
  BY <1>4, <1>5 DEF Written, Names
<1>10. TagsOK'
  BY <1>w, <1>0 DEF TagsOK, NoImage
<1>11. CursorsOK' /\ ClaimsOK'
  <2>1. NoImage.cursor <= received /\ Claims(NoImage)
    BY <1>1 DEF NoImage, Claims
  <2>2. CursorsOK'
    BY <2>1, <1>w, <1>0, <1>3, <1>4 DEF CursorsOK, Cursors, BeforeRename, Spooling, Threads, At
  <2>3. ClaimsOK'
    <3>1. SUFFICES ASSUME ~lost PROVE ClaimsOK'
      BY <1>3 DEF ClaimsOK
    <3>2. \A x \in Written' : Claims(x)
      BY <3>1, <2>1, <1>w, <1>0 DEF ClaimsOK
    <3>3. \A s \in Threads : /\ writer'[s].job = writer[s].job /\ writer'[s].image = writer[s].image
                             /\ writer'[s].next = writer[s].next
      BY <1>4
    <3>4. writer["worker"].step = "publish" => writer'["worker"].step = "publish"
      BY <1>3, <1>4 DEF At, Threads
    <3> QED  BY <3>1, <3>2, <3>3, <3>4, <1>0, <1>3 DEF ClaimsOK, Claims, Shows, Up, Threads
  <2> QED  BY <2>2, <2>3
<1>12. PositionKept' /\ FileAhead'
  <2>1. /\ readable' = readable /\ files'["path"] = files["path"]
        /\ view' = view /\ handler' = handler
    BY <1>3, <1>5 DEF readable, Names
  <2>2. /\ writer[t].step = "frn_create" /\ writer'[t].step = "frn_body"
        /\ \A s \in Threads : /\ s # t => writer'[s].step = writer[s].step
                           /\ writer'[s].job = writer[s].job /\ writer'[s].image = writer[s].image
                           /\ writer'[s].next = writer[s].next
    BY <1>3, <1>4 DEF At
  <2>3. PositionKept'
    BY <2>1, <2>2, <1>0 DEF PositionKept, Due, Kept, BeforeRename, Spooling, AfterRename, Threads
  <2>4. FileAhead'
    BY <2>1, <2>2, <1>0 DEF FileAhead, Up, Threads
  <2> QED  BY <2>3, <2>4
<1> QED  BY <1>7, <1>8, <1>9, <1>10, <1>11, <1>12 DEF Whole

LEMMA WriteBodyStep ==
  ASSUME Sound, NEW t \in Threads, WriteBody(t)
  PROVE  Whole'
<1>0. /\ TypeOK /\ (\A s \in Threads : WriterOK(s)) /\ BaseOK(view) /\ TurnsOK /\ FilesOK /\ TagsOK
      /\ CursorsOK /\ PositionKept /\ FileAhead /\ ClaimsOK
  BY DEF Sound, Whole
<1>1. /\ files \in [Names -> FileSet] /\ writer \in [Threads -> WriterSet]
  BY <1>0, Types
<1> DEFINE file == writer[t].file
           image == writer[t].image
<1>2. /\ \/ At(t, "body") /\ file = "tmp" /\ writer' = [writer EXCEPT ![t].step = "rename"]
         \/ At(t, "frn_body") /\ file = "frn.tmp" /\ writer' = [writer EXCEPT ![t].step = "frn_rename"]
      /\ files' = [f \in Names |-> IF f = file THEN [files[f] EXCEPT !.body = image] ELSE files[f]]
      /\ files[file] = [tag |-> image.tag, body |-> NoImage]
      /\ image \in Images
      /\ UNCHANGED <<view, handler, received, starts, lost>>
  <2>1. image \in Images
    BY <1>1 DEF WriterSet
  <2>2. /\ \/ At(t, "body") /\ writer' = [writer EXCEPT ![t].step = "rename"]
           \/ At(t, "frn_body") /\ writer' = [writer EXCEPT ![t].step = "frn_rename"]
        /\ files' = [f \in Names |-> IF f = file THEN [files[f] EXCEPT !.body = image] ELSE files[f]]
        /\ UNCHANGED <<view, handler, received, starts, lost>>
    <3>1. Bodies(t) = {image}
      BY DEF Bodies, Sound
    <3> QED  BY <3>1 DEF WriteBody, HasOpen
  <2>3. CASE At(t, "body")
    <3>1. file = "tmp" /\ files["tmp"] = [tag |-> image.tag, body |-> NoImage]
      BY <2>3, <1>0 DEF WriterOK, Spooling, FilesOK, At
    <3> QED  BY <2>1, <2>2, <2>3, <3>1 DEF At
  <2>4. CASE At(t, "frn_body")
    <3>1. file = "frn.tmp" /\ files["frn.tmp"] = [tag |-> image.tag, body |-> NoImage]
      BY <2>4, <1>0 DEF WriterOK, Spooling, FilesOK, At
    <3> QED  BY <2>1, <2>2, <2>4, <3>1 DEF At
  <2> QED  BY <2>2, <2>3, <2>4
<1>3. /\ \A s \in Threads : s # t => writer'[s] = writer[s]
      /\ \/ At(t, "body") /\ file = "tmp" /\ writer'[t].step = "rename"
         \/ At(t, "frn_body") /\ file = "frn.tmp" /\ writer'[t].step = "frn_rename"
      /\ writer'[t].job = writer[t].job /\ writer'[t].file = writer[t].file
      /\ writer'[t].next = writer[t].next /\ writer'[t].image = image
      /\ writer' \in [Threads -> WriterSet]
  BY <1>1, <1>2 DEF WriterSet, Steps
<1>4. /\ \A f \in Names : f # file => files'[f] = files[f]
      /\ files'[file] = [tag |-> image.tag, body |-> image] /\ files' \in [Names -> FileSet]
  <2>1. [files[file] EXCEPT !.body = image] = [tag |-> image.tag, body |-> image]
    BY <1>2
  <2>2. [tag |-> image.tag, body |-> image] \in FileSet
    BY <1>2 DEF FileSet, Images
  <2> QED  BY <1>1, <1>2, <2>1, <2>2 DEF Names
<1> HIDE DEF file, image
<1>6. \A s \in Threads : WriterOK(s)'
  <2>1. WriterOK(t)'
    BY <1>0, <1>2, <1>3, <1>4 DEF WriterOK, Spooling, BaseOK, At, Names, image
  <2> QED  BY <2>1, <1>0, <1>3, <1>4, OthersKept DEF Names
<1>7. BaseOK(view)' /\ TurnsOK'
  BY <1>0, <1>2, <1>3, <1>4 DEF BaseOK, TurnsOK, HasOpen, Spooling, Up, At, Names, Threads
<1>8. FilesOK'
  <2>1. \A f \in {"path", "frn"} :
          files'[f] = Missing \/ (files'[f].tag # None /\ files'[f].body.tag = files'[f].tag)
    BY <1>0, <1>3, <1>4 DEF FilesOK, Names
  <2>2. ASSUME NEW s \in Threads, s # t
        PROVE  /\ writer[s].step \in {"body", "rename"} => files'["tmp"] = files["tmp"]
               /\ writer[s].step \in {"frn_body", "frn_rename"} => files'["frn.tmp"] = files["frn.tmp"]
    BY <2>2, <1>0, <1>3, <1>4, Alone DEF At, Names
  <2>3. files'["tmp"] # Missing => \E s \in Threads : writer'[s].step \in {"body", "rename"}
    BY <1>0, <1>3, <1>4 DEF FilesOK, At, Names
  <2>4. files'["frn.tmp"] # Missing => \E s \in Threads : writer'[s].step \in {"frn_body", "frn_rename"}
    BY <1>0, <1>3, <1>4 DEF FilesOK, At, Names
  <2> QED  BY <2>1, <2>2, <2>3, <2>4, <1>0, <1>3, <1>4 DEF FilesOK, At, image
<1>w. Written' \subseteq Written
  BY <1>3, <1>4 DEF Written, Names, image
<1>9. TagsOK' /\ CursorsOK' /\ ClaimsOK'
  BY <1>w, <1>0, <1>2, <1>3 DEF TagsOK, CursorsOK, Cursors, BeforeRename, Spooling, ClaimsOK,
     Claims, Shows, Up, Threads, At, image
<1>10. PositionKept' /\ FileAhead'
  BY <1>0, <1>2, <1>3, <1>4 DEF PositionKept, FileAhead, Due, Kept, readable, Up, At,
     BeforeRename, Spooling, AfterRename, Threads, Names, image
<1> QED  BY <1>6, <1>7, <1>8, <1>9, <1>10 DEF Whole

-----------------------------------------------------------------------------
(* Renaming. *)

\* A view follows its file: the replaced one has no name any more.
Moved(v, from, to) == [v EXCEPT !.base = Follow(@, from, to)]

LEMMA FollowBase ==
  ASSUME NEW v \in Views, BaseOK(v), NEW from \in {"tmp", "frn.tmp"}, NEW to \in {"path", "frn"}
  PROVE  /\ Moved(v, from, to) \in Views
         /\ Moved(v, from, to).image = v.image
         /\ Moved(v, from, to).covers = v.covers /\ Moved(v, from, to).cursor = v.cursor
         /\ Moved(v, from, to).base = IF v.base = "path" /\ to = "path" THEN "gone" ELSE v.base
         /\ Moved(v, from, to) = NoView <=> v = NoView
         /\ Moved(v, from, to).base = v.base => Moved(v, from, to) = v
<1> DEFINE w == Moved(v, from, to)
<1>1. v.base \in {"none", "path", "gone"} /\ (v.base = "none" <=> v = NoView)
  BY DEF BaseOK, NoView
<1>2. /\ w.image = v.image /\ w.covers = v.covers /\ w.cursor = v.cursor
      /\ w.base = IF v.base = "path" /\ to = "path" THEN "gone" ELSE v.base
      /\ w \in Views
  BY <1>1 DEF Follow, Views, Moved
<1>3. \A x, y \in Views : x.base = y.base /\ x.image = y.image
         /\ x.covers = y.covers /\ x.cursor = y.cursor => x = y
  BY DEF Views
<1> HIDE DEF w
<1>5. w.base = v.base => w = v
  BY <1>2, <1>3
<1>6. v = NoView => w = NoView
  BY <1>1, <1>2, <1>5
<1>7. w = NoView => v = NoView
  BY <1>1, <1>2 DEF NoView
<1> QED  BY <1>2, <1>5, <1>6, <1>7 DEF w

LEMMA OpenedTypes ==
  ASSUME files \in [Names -> FileSet]
  PROVE  /\ opened \in Views /\ opened # NoView /\ BaseOK(opened) /\ opened.base = "path"
         /\ opened.image = [files["path"].body EXCEPT !.tag = None]
         /\ opened.covers = files["path"].body.covers /\ opened.cursor = files["path"].body.cursor
         /\ opened.image.cursor = files["path"].body.cursor /\ opened.image.covers = files["path"].body.covers
<1> DEFINE image == files["path"].body
           bare == [image EXCEPT !.tag = None]
<1>1. image \in Images
  BY DEF Names, FileSet
<1>2. bare \in Images /\ bare.cursor = image.cursor /\ bare.covers = image.covers
  BY <1>1 DEF Images
<1>3. /\ opened.base = "path" /\ opened.image = bare /\ opened.covers = image.covers
      /\ opened.cursor = image.cursor
  BY DEF opened
<1>4. image.covers \in SUBSET (1 .. MaxChanges) /\ image.cursor \in 0 .. MaxChanges
  BY <1>1 DEF Images
<1> HIDE DEF image, bare
<1>5. opened \in Views
  BY <1>2, <1>4 DEF opened, Views, Names, image, bare
<1>6. opened # NoView /\ BaseOK(opened)
  BY <1>3 DEF NoView, BaseOK, image, bare
<1> QED  BY <1>2, <1>3, <1>5, <1>6 DEF image, bare

LEMMA SameWriter ==
  ASSUME NEW x \in WriterSet, NEW y \in WriterSet,
         x.step = y.step, x.job = y.job, x.image = y.image, x.file = y.file, x.next = y.next
  PROVE  x = y
<1>1. x = [step |-> x.step, job |-> x.job, image |-> x.image, file |-> x.file, next |-> x.next]
  BY DEF WriterSet
<1>2. y = [step |-> y.step, job |-> y.job, image |-> y.image, file |-> y.file, next |-> y.next]
  BY DEF WriterSet
<1> QED  BY <1>1, <1>2

LEMMA RenameEffect ==
  ASSUME Sound, NEW t \in Threads, NEW from \in {"tmp", "frn.tmp"}, NEW to \in {"path", "frn"},
         writer[t].file = from, writer[t].step \in {"rename", "frn_rename"},
         NEW next_step \in {"frn_create", "open"},
         files' = [files EXCEPT ![to] = files[from], ![from] = Missing],
         writer' = [p \in Threads |->
             [writer[p] EXCEPT
                !.step = IF p = t THEN next_step ELSE @,
                !.file = IF p = t THEN "none" ELSE Follow(@, from, to),
                !.next.base = Follow(@, from, to)]],
         view' = [view EXCEPT !.base = Follow(@, from, to)]
  PROVE  /\ files' \in [Names -> FileSet] /\ files'[to] = files[from] /\ files'[from] = Missing
         /\ \A f \in Names \ {from, to} : files'[f] = files[f]
         /\ writer' \in [Threads -> WriterSet]
         /\ \A s \in Threads :
              /\ writer'[s].step = IF s = t THEN next_step ELSE writer[s].step
              /\ writer'[s].job = writer[s].job /\ writer'[s].image = writer[s].image
              /\ writer'[s].file = IF s = t THEN "none" ELSE writer[s].file
              /\ writer'[s].next = Moved(writer[s].next, from, to)
         /\ \A s \in Threads : writer[s] = Resting => writer'[s] = Resting
         /\ view' = Moved(view, from, to) /\ view' \in Views
<1>0. /\ TypeOK /\ (\A s \in Threads : WriterOK(s)) /\ BaseOK(view) /\ TurnsOK
  BY DEF Sound, Whole
<1>1. files \in [Names -> FileSet] /\ view \in Views /\ writer \in [Threads -> WriterSet]
  BY <1>0, Types
<1>2. /\ files' \in [Names -> FileSet] /\ files'[to] = files[from] /\ files'[from] = Missing
      /\ \A f \in Names \ {from, to} : files'[f] = files[f]
  BY <1>1, NothingTypes DEF Names
<1>3. view' = Moved(view, from, to) /\ view' \in Views
  BY <1>0, <1>1, FollowBase DEF Moved
<1>4. ASSUME NEW s \in Threads
      PROVE  /\ writer'[s] \in WriterSet
             /\ writer'[s].step = IF s = t THEN next_step ELSE writer[s].step
             /\ writer'[s].job = writer[s].job /\ writer'[s].image = writer[s].image
             /\ writer'[s].file = IF s = t THEN "none" ELSE writer[s].file
             /\ writer'[s].next = Moved(writer[s].next, from, to)
  <2> DEFINE next == Moved(writer[s].next, from, to)
             step == IF s = t THEN next_step ELSE writer[s].step
             file == IF s = t THEN "none" ELSE Follow(writer[s].file, from, to)
  <2>1. /\ writer[s] \in WriterSet /\ writer[s].next \in Views /\ BaseOK(writer[s].next)
        /\ s # t => writer[s].file \in {"none", "tmp", "frn.tmp"} \ {from}
    <3>1. writer[s] \in WriterSet /\ writer[s].next \in Views /\ BaseOK(writer[s].next)
      BY <1>0, <1>1 DEF WriterSet, WriterOK
    <3>2. writer[s].file \in {"none", "tmp", "frn.tmp"} /\ (s # t => writer[s].file # from)
      BY <1>0 DEF WriterOK, TurnsOK, HasOpen, Threads
    <3> QED  BY <3>1, <3>2
  <2>2. next \in Views
    BY <2>1, FollowBase
  <2>3. step \in Steps /\ file = IF s = t THEN "none" ELSE writer[s].file
    BY <2>1 DEF Follow, Steps, WriterSet
  <2>7. file \in Names \cup {"none", "gone"}
    BY <2>1, <2>3 DEF Names
  <2>4. writer'[s] = [[[writer[s] EXCEPT !.step = step] EXCEPT !.file = file] EXCEPT !.next.base = Follow(@, from, to)]
    OBVIOUS
  <2>5. writer'[s] = [[[writer[s] EXCEPT !.step = step] EXCEPT !.file = file] EXCEPT !.next = next]
    BY <2>4, <2>1 DEF WriterSet, Moved
  <2> HIDE DEF next, step, file
  <2>6. /\ writer'[s] \in WriterSet /\ writer'[s].step = step
        /\ writer'[s].job = writer[s].job /\ writer'[s].image = writer[s].image
        /\ writer'[s].file = file /\ writer'[s].next = next
    BY <2>1, <2>2, <2>3, <2>5, <2>7 DEF WriterSet
  <2> QED  BY <2>3, <2>6 DEF next, step
<1>5. writer' \in [Threads -> WriterSet]
  BY <1>4
<1>6. ASSUME NEW s \in Threads, writer[s] = Resting PROVE writer'[s] = Resting
  <2>1. s # t
    BY <1>6, RestingFields
  <2>2. writer'[s].next = NoView
    <3>1. writer[s].next = NoView
      BY <1>6, RestingFields
    <3>2. Moved(NoView, from, to) = NoView
      BY NothingTypes, FollowBase DEF BaseOK
    <3> QED  BY <3>1, <3>2, <1>4
  <2>3. writer'[s] \in WriterSet /\ Resting \in WriterSet
    BY <1>4, NothingTypes
  <2>4. /\ writer'[s].step = Resting.step /\ writer'[s].job = Resting.job /\ writer'[s].image = Resting.image
        /\ writer'[s].file = Resting.file /\ writer'[s].next = Resting.next
    <3>1. writer'[s].step = writer[s].step /\ writer'[s].file = writer[s].file
      <4>1. writer'[s].step = IF s = t THEN next_step ELSE writer[s].step
        BY <1>4, Zenon
      <4>2. writer'[s].file = "none" /\ writer[s].file = "none"
        BY <1>4, <1>6, <2>1, RestingFields, Zenon
      <4> QED  BY <4>1, <4>2, <2>1, Zenon
    <3>2. writer'[s].job = writer[s].job /\ writer'[s].image = writer[s].image
      BY <1>4, Zenon
    <3> QED  BY <3>1, <3>2, <2>2, <1>6, RestingFields
  <2> QED  BY <2>3, <2>4, SameWriter
<1> QED  BY <1>2, <1>3, <1>4, <1>5, <1>6

LEMMA RenameSnapshotStep ==
  ASSUME Sound, NEW t \in Threads, At(t, "rename"),
         Rename(t, "tmp", "path", "frn_create"), files["tmp"] # Missing
  PROVE  Whole'
<1>0. /\ TypeOK /\ (\A s \in Threads : WriterOK(s)) /\ BaseOK(view) /\ TurnsOK /\ FilesOK /\ TagsOK
      /\ CursorsOK /\ PositionKept /\ FileAhead /\ ClaimsOK
  BY DEF Sound, Whole
<1>1. files \in [Names -> FileSet] /\ view \in Views /\ writer \in [Threads -> WriterSet] /\ received \in 0 .. MaxChanges
  BY <1>0, Types
<1> DEFINE image == writer[t].image
<1>2. image \in Images /\ image.tag # None /\ files["tmp"] = [tag |-> image.tag, body |-> image]
  BY <1>0, <1>1 DEF At, WriterOK, Spooling, FilesOK, WriterSet
<1>3. UNCHANGED <<handler, received, starts, lost>>
  BY ZenonT(60) DEF Rename
<1>4. /\ files' \in [Names -> FileSet]
      /\ files'["path"] = [tag |-> image.tag, body |-> image] /\ files'["tmp"] = Missing
      /\ files'["frn"] = files["frn"] /\ files'["frn.tmp"] = files["frn.tmp"]
      /\ writer' \in [Threads -> WriterSet]
      /\ \A s \in Threads :
           /\ writer'[s].step = IF s = t THEN "frn_create" ELSE writer[s].step
           /\ writer'[s].job = writer[s].job /\ writer'[s].image = writer[s].image
           /\ writer'[s].file = IF s = t THEN "none" ELSE writer[s].file
           /\ writer'[s].next = Moved(writer[s].next, "tmp", "path")
      /\ \A s \in Threads : writer[s] = Resting => writer'[s] = Resting
      /\ view' = Moved(view, "tmp", "path") /\ view' \in Views
  <2>1. writer[t].file = "tmp" /\ writer[t].step = "rename"
    BY <1>0 DEF At, WriterOK, HasOpen
  <2>2. /\ files' = [files EXCEPT !["path"] = files["tmp"], !["tmp"] = Missing]
        /\ writer' = [p \in Threads |->
             [writer[p] EXCEPT
                !.step = IF p = t THEN "frn_create" ELSE @,
                !.file = IF p = t THEN "none" ELSE Follow(@, "tmp", "path"),
                !.next.base = Follow(@, "tmp", "path")]]
        /\ view' = [view EXCEPT !.base = Follow(@, "tmp", "path")]
    BY ZenonT(60) DEF Rename
  <2>3. /\ files' \in [Names -> FileSet] /\ files'["path"] = files["tmp"] /\ files'["tmp"] = Missing
        /\ \A f \in Names \ {"tmp", "path"} : files'[f] = files[f]
        /\ writer' \in [Threads -> WriterSet]
        /\ \A s \in Threads :
             /\ writer'[s].step = IF s = t THEN "frn_create" ELSE writer[s].step
             /\ writer'[s].job = writer[s].job /\ writer'[s].image = writer[s].image
             /\ writer'[s].file = IF s = t THEN "none" ELSE writer[s].file
             /\ writer'[s].next = Moved(writer[s].next, "tmp", "path")
        /\ \A s \in Threads : writer[s] = Resting => writer'[s] = Resting
        /\ view' = Moved(view, "tmp", "path") /\ view' \in Views
    BY <2>1, <2>2, RenameEffect
  <2> QED  BY <2>3, <1>2 DEF Names
<1>5. /\ BaseOK(view) /\ view \in Views
      /\ \A s \in Threads : BaseOK(writer[s].next) /\ writer[s].next \in Views
  BY <1>0, <1>1 DEF WriterOK, Spooling, WriterSet
<1>6. \A v \in Views : BaseOK(v) =>
        LET w == Moved(v, "tmp", "path") IN
        /\ w.image = v.image /\ w.covers = v.covers /\ w.cursor = v.cursor
        /\ w = NoView \/ w.base = "gone"
        /\ w = NoView <=> v = NoView
  BY FollowBase DEF BaseOK, NoView
<1> HIDE DEF image
<1>8. \A s \in Threads :
        /\ writer'[s].next.image = writer[s].next.image /\ writer'[s].next.covers = writer[s].next.covers
        /\ writer'[s].next.cursor = writer[s].next.cursor
        /\ writer'[s].next = NoView \/ writer'[s].next.base = "gone"
        /\ writer'[s].next = NoView <=> writer[s].next = NoView
  BY <1>4, <1>5, <1>6
<1>9. /\ view'.image = view.image /\ view'.covers = view.covers /\ view'.cursor = view.cursor
      /\ view' = NoView \/ view'.base = "gone"
      /\ view' = NoView <=> view = NoView
  BY <1>4, <1>5, <1>6
<1>10. \A s \in Threads : WriterOK(s)'
  <2>1. WriterOK(t)'
    BY <1>0, <1>2, <1>4, <1>8 DEF WriterOK, Spooling, BaseOK, At, image
  <2>2. ASSUME NEW s \in Threads, s # t PROVE WriterOK(s)'
    BY <2>2, <1>0, <1>4, <1>8 DEF WriterOK, Spooling, BaseOK
  <2> QED  BY <2>1, <2>2
<1>11. BaseOK(view)'
  BY <1>9 DEF BaseOK
<1>12. TurnsOK'
  BY <1>0, <1>3, <1>4, <1>9 DEF TurnsOK, HasOpen, Spooling, Up, At, Threads
<1>13. FilesOK'
  <2>1. writer[t].step = "rename" /\ writer'[t].step = "frn_create"
    BY <1>4 DEF At
  <2>2. \A s \in Threads : s # t => writer[s].step \notin {"body", "rename"}
    BY <2>1, <1>0, Alone
  <2>3. files'["frn.tmp"] # Missing => \E s \in Threads : writer'[s].step \in {"frn_body", "frn_rename"}
    BY <2>1, <1>0, <1>4 DEF FilesOK
  <2>4. \A f \in {"path", "frn"} :
          files'[f] = Missing \/ (files'[f].tag # None /\ files'[f].body.tag = files'[f].tag)
    BY <1>0, <1>2, <1>4 DEF FilesOK
  <2> QED  BY <2>1, <2>2, <2>3, <2>4, <1>0, <1>4 DEF FilesOK, At
<1>w. Written' \subseteq Written \cup {NoImage}
  BY <1>2, <1>4 DEF Written, Names, Missing, image
<1>14. TagsOK'
  BY <1>w, <1>0 DEF TagsOK, NoImage
<1>n. NoImage.cursor <= received /\ Claims(NoImage)
  BY <1>1 DEF NoImage, Claims
<1>15. CursorsOK'
  BY <1>n, <1>w, <1>0, <1>3, <1>4, <1>8, <1>9 DEF CursorsOK, Cursors, BeforeRename, Spooling, Threads, At
<1>16. PositionKept' /\ FileAhead'
  <2>1. readable' /\ files'["path"].body = image
    BY <1>2, <1>4 DEF readable, NoImage
  <2>2. Due <= image.cursor
    BY <1>0 DEF PositionKept, BeforeRename, Spooling, At, Threads, image
  <2>3. Due' = Due /\ Kept'
    BY <2>1, <2>2, <1>3, <1>9 DEF Due, Kept
  <2>4. PositionKept'
    BY <2>3, <1>0, <1>3, <1>4, <1>8, <1>9 DEF PositionKept, BeforeRename, Spooling, AfterRename,
       At, Threads
  <2>5. FileAhead'
    <3>1. SUFFICES ASSUME handler.state \in {"absent", "called"} PROVE FileAhead'
      BY <1>3 DEF FileAhead
    <3>2. t = "worker"
      BY <3>1, <1>0 DEF TurnsOK, HasOpen, At, Threads
    <3>3. view.cursor <= image.cursor /\ view.image.cursor <= view.cursor
      BY <2>2, <3>1, <1>0 DEF Due, CursorsOK, Cursors
    <3>4. writer["worker"].job = "batch" => writer["worker"].next.image.cursor <= image.cursor
      <4>1. writer["worker"].job = "batch" =>
              /\ writer["worker"].next.cursor <= image.cursor
              /\ writer["worker"].next.image.cursor <= writer["worker"].next.cursor
        BY <3>2, <1>0 DEF CursorsOK, Cursors, BeforeRename, Spooling, At, Threads, image
      <4>2. image.cursor \in Int /\ writer["worker"].next.cursor \in Int /\ writer["worker"].next.image.cursor \in Int
        BY <1>1, <1>2 DEF WriterSet, Views, Images, Threads
      <4> QED  BY <4>1, <4>2
    <3>5. image.cursor \in Int /\ view.cursor \in Int /\ view.image.cursor \in Int
      BY <1>1, <1>2 DEF Views, Images
    <3>6. view.image.cursor <= image.cursor
      BY <3>3, <3>5
    <3> QED  BY <3>2, <3>4, <3>6, <2>1, <1>4, <1>8, <1>9 DEF FileAhead, Threads
  <2> QED  BY <2>4, <2>5
<1>17. ClaimsOK'
  <2>1. SUFFICES ASSUME ~lost PROVE ClaimsOK'
    BY <1>3 DEF ClaimsOK
  <2>2. \A x \in Written' : Claims(x)
    BY <2>1, <1>0, <1>w, <1>n DEF ClaimsOK
  <2>3. (\A s \in Threads : Claims(writer'[s].next)) /\ Claims(view')
    BY <2>1, <1>0, <1>8, <1>9 DEF ClaimsOK, Claims
  <2> QED  BY <2>1, <2>2, <2>3, <1>0, <1>3, <1>4, <1>8, <1>9 DEF ClaimsOK, Claims, Shows, Up, At, Threads
<1> QED  BY <1>10, <1>11, <1>12, <1>13, <1>14, <1>15, <1>16, <1>17 DEF Whole

LEMMA RenameSidecarStep ==
  ASSUME Sound, NEW t \in Threads, At(t, "frn_rename"),
         Rename(t, "frn.tmp", "frn", "open"), files["frn.tmp"] # Missing
  PROVE  Whole'
<1>0. /\ TypeOK /\ (\A s \in Threads : WriterOK(s)) /\ BaseOK(view) /\ TurnsOK /\ FilesOK /\ TagsOK
      /\ CursorsOK /\ PositionKept /\ FileAhead /\ ClaimsOK
  BY DEF Sound, Whole
<1>1. files \in [Names -> FileSet] /\ view \in Views /\ writer \in [Threads -> WriterSet] /\ received \in 0 .. MaxChanges
  BY <1>0, Types
<1> DEFINE image == writer[t].image
<1>2. image \in Images /\ image.tag # None /\ files["frn.tmp"] = [tag |-> image.tag, body |-> image]
  <2>1. image \in Images
    BY <1>1 DEF WriterSet
  <2>2. image.tag # None
    BY <1>0 DEF At, WriterOK, Spooling
  <2>3. files["frn.tmp"] = [tag |-> image.tag, body |-> image]
    BY <1>0 DEF FilesOK
  <2> QED  BY <2>1, <2>2, <2>3
<1>3. UNCHANGED <<handler, received, starts, lost>>
  BY ZenonT(60) DEF Rename
<1>4. /\ files' \in [Names -> FileSet]
      /\ files'["frn"] = [tag |-> image.tag, body |-> image] /\ files'["frn.tmp"] = Missing
      /\ files'["path"] = files["path"] /\ files'["tmp"] = files["tmp"]
      /\ writer' \in [Threads -> WriterSet]
      /\ \A s \in Threads :
           /\ writer'[s].step = IF s = t THEN "open" ELSE writer[s].step
           /\ writer'[s].job = writer[s].job /\ writer'[s].image = writer[s].image
           /\ writer'[s].file = IF s = t THEN "none" ELSE writer[s].file
           /\ writer'[s].next = Moved(writer[s].next, "frn.tmp", "frn")
      /\ \A s \in Threads : writer[s] = Resting => writer'[s] = Resting
      /\ view' = Moved(view, "frn.tmp", "frn") /\ view' \in Views
  <2>1. writer[t].file = "frn.tmp" /\ writer[t].step = "frn_rename"
    BY <1>0 DEF At, WriterOK, HasOpen
  <2>2. /\ files' = [files EXCEPT !["frn"] = files["frn.tmp"], !["frn.tmp"] = Missing]
        /\ writer' = [p \in Threads |->
             [writer[p] EXCEPT
                !.step = IF p = t THEN "open" ELSE @,
                !.file = IF p = t THEN "none" ELSE Follow(@, "frn.tmp", "frn"),
                !.next.base = Follow(@, "frn.tmp", "frn")]]
        /\ view' = [view EXCEPT !.base = Follow(@, "frn.tmp", "frn")]
    BY ZenonT(60) DEF Rename
  <2>3. /\ files' \in [Names -> FileSet] /\ files'["frn"] = files["frn.tmp"] /\ files'["frn.tmp"] = Missing
        /\ \A f \in Names \ {"frn.tmp", "frn"} : files'[f] = files[f]
        /\ writer' \in [Threads -> WriterSet]
        /\ \A s \in Threads :
             /\ writer'[s].step = IF s = t THEN "open" ELSE writer[s].step
             /\ writer'[s].job = writer[s].job /\ writer'[s].image = writer[s].image
             /\ writer'[s].file = IF s = t THEN "none" ELSE writer[s].file
             /\ writer'[s].next = Moved(writer[s].next, "frn.tmp", "frn")
        /\ \A s \in Threads : writer[s] = Resting => writer'[s] = Resting
        /\ view' = Moved(view, "frn.tmp", "frn") /\ view' \in Views
    BY <2>1, <2>2, RenameEffect, ZenonT(60)
  <2> QED  BY <2>3, <1>2 DEF Names
<1>5. /\ view' = view
      /\ \A s \in Threads : writer'[s].next = writer[s].next
  <2>1. /\ BaseOK(view) /\ view \in Views
        /\ \A s \in Threads : BaseOK(writer[s].next) /\ writer[s].next \in Views
    BY <1>0, <1>1 DEF WriterOK, Spooling, WriterSet
  <2>2. \A v \in Views : BaseOK(v) => Moved(v, "frn.tmp", "frn") = v
    BY FollowBase
  <2> QED  BY <2>1, <2>2, <1>4
<1> HIDE DEF image
<1>6. /\ writer[t].step = "frn_rename" /\ writer'[t].step = "open"
      /\ \A s \in Threads : s # t => /\ writer'[s].step = writer[s].step
                                    /\ writer[s].step \notin {"frn_body", "frn_rename"}
  <2>1. writer[t].step = "frn_rename" /\ writer'[t].step = "open"
    BY <1>4 DEF At
  <2> QED  BY <2>1, <1>0, <1>4, Alone
<1>8. \A s \in Threads : WriterOK(s)'
  <2>1. WriterOK(t)'
    BY <1>0, <1>4, <1>5 DEF WriterOK, Spooling, BaseOK, At
  <2>2. ASSUME NEW s \in Threads, s # t PROVE WriterOK(s)'
    BY <1>6, <2>2, <1>0, <1>4, <1>5 DEF WriterOK, Spooling, BaseOK
  <2> QED  BY <2>1, <2>2
<1>9. BaseOK(view)' /\ TurnsOK'
  BY <1>0, <1>3, <1>4, <1>5, <1>6 DEF BaseOK, TurnsOK, HasOpen, Spooling, Up, At, Threads
<1>10. FilesOK'
  <2>1. files'["tmp"] # Missing => \E s \in Threads : writer'[s].step \in {"body", "rename"}
    BY <1>0, <1>4, <1>6 DEF FilesOK
  <2>2. \A f \in {"path", "frn"} :
          files'[f] = Missing \/ (files'[f].tag # None /\ files'[f].body.tag = files'[f].tag)
    BY <1>0, <1>2, <1>4 DEF FilesOK
  <2> QED  BY <2>1, <2>2, <1>0, <1>4, <1>6 DEF FilesOK, At
<1>w. Written' \subseteq Written \cup {NoImage}
  BY <1>2, <1>4 DEF Written, Names, Missing, image
<1>11. TagsOK'
  BY <1>w, <1>0 DEF TagsOK, NoImage
<1>n. NoImage.cursor <= received /\ Claims(NoImage)
  BY <1>1 DEF NoImage, Claims
<1>12. CursorsOK'
  BY <1>n, <1>w, <1>0, <1>3, <1>4, <1>5 DEF CursorsOK, Cursors, BeforeRename, Spooling, Threads, At
<1>13. PositionKept' /\ FileAhead'
  BY <1>0, <1>3, <1>4, <1>5 DEF PositionKept, FileAhead, Due, Kept, readable, Up, At,
     BeforeRename, Spooling, AfterRename, Threads
<1>14. ClaimsOK'
  <2>1. SUFFICES ASSUME ~lost PROVE ClaimsOK'
    BY <1>3 DEF ClaimsOK
  <2>2. \A x \in Written' : Claims(x)
    BY <2>1, <1>0, <1>w, <1>n DEF ClaimsOK
  <2> QED  BY <2>1, <2>2, <1>0, <1>3, <1>4, <1>5 DEF ClaimsOK, Claims, Shows, Up, At, Threads
<1> QED  BY <1>8, <1>9, <1>10, <1>11, <1>12, <1>13, <1>14 DEF Whole

-----------------------------------------------------------------------------
(* The rest of a thread's steps. *)

LEMMA OpenStep ==
  ASSUME Sound, NEW t \in Threads, Open(t), readable
  PROVE  Whole'
<1>0. /\ TypeOK /\ (\A s \in Threads : WriterOK(s)) /\ BaseOK(view) /\ TurnsOK /\ FilesOK /\ TagsOK
      /\ CursorsOK /\ PositionKept /\ FileAhead /\ ClaimsOK
  BY DEF Sound, Whole
<1>1. /\ files \in [Names -> FileSet] /\ writer \in [Threads -> WriterSet] /\ received \in 0 .. MaxChanges
  BY <1>0, Types
<1>2. /\ writer' = [writer EXCEPT ![t].step = "publish", ![t].next = opened]
      /\ At(t, "open") /\ readable
      /\ UNCHANGED <<files, view, handler, received, starts, lost>>
  BY DEF Open
<1>3. /\ opened \in Views /\ opened # NoView /\ BaseOK(opened) /\ opened.base = "path"
      /\ opened.covers = files["path"].body.covers /\ opened.cursor = files["path"].body.cursor
      /\ opened.image.cursor = files["path"].body.cursor
  BY <1>1, OpenedTypes
<1>4. /\ \A s \in Threads : s # t => writer'[s] = writer[s]
      /\ writer'[t].step = "publish" /\ writer'[t].next = opened
      /\ writer'[t].job = writer[t].job /\ writer'[t].image = writer[t].image /\ writer'[t].file = writer[t].file
      /\ writer' \in [Threads -> WriterSet]
  <2>1. \A s \in Threads : s # t => writer'[s] = writer[s]
    BY <1>1, <1>2
  <2>2. writer'[t] = [[writer[t] EXCEPT !.step = "publish"] EXCEPT !.next = opened]
    BY <1>1, <1>2
  <2>3. writer[t] \in WriterSet
    BY <1>1
  <2>4. [[writer[t] EXCEPT !.step = "publish"] EXCEPT !.next = opened] \in WriterSet
    BY <1>3, <2>3 DEF WriterSet, Steps
  <2>5. writer' \in [Threads -> WriterSet]
    BY <1>1, <1>2, <2>2, <2>4
  <2> QED  BY <2>1, <2>2, <2>3, <2>5 DEF WriterSet
<1> DEFINE path == files["path"].body
<1>5. path \in Written /\ path \in Images
  BY <1>1 DEF Written, FileSet, Names
<1>6. Cursors(opened) /\ (~lost => Claims(opened))
  <2>1. path.cursor <= received /\ (~lost => Claims(path))
    BY <1>0, <1>5 DEF CursorsOK, ClaimsOK
  <2>2. path.cursor \in Int
    BY <1>5 DEF Images
  <2> HIDE DEF path
  <2>3. opened.cursor = path.cursor /\ opened.covers = path.covers /\ opened.image.cursor = path.cursor
    BY <1>3 DEF path
  <2> QED  BY <2>1, <2>2, <2>3 DEF Cursors, Claims
<1> HIDE DEF path
<1>8. \A s \in Threads : WriterOK(s)'
  <2>1. WriterOK(t)'
    BY <1>0, <1>2, <1>3, <1>4 DEF WriterOK, Spooling, BaseOK, At
  <2> QED  BY <2>1, <1>0, <1>2, <1>4, OthersKept
<1>9. BaseOK(view)' /\ TurnsOK' /\ FilesOK'
  <2>1. BaseOK(view)'
    BY <1>0, <1>2 DEF BaseOK
  <2>2. TurnsOK'
    BY <1>0, <1>2, <1>4 DEF TurnsOK, HasOpen, Spooling, Up, At, Threads
  <2>3. FilesOK'
    BY <1>0, <1>2, <1>4 DEF FilesOK, Spooling, At
  <2> QED  BY <2>1, <2>2, <2>3
<1>w. Written' = Written
  BY <1>2, <1>4 DEF Written
<1>10. TagsOK' /\ CursorsOK'
  BY <1>w, <1>0, <1>2, <1>4, <1>6 DEF TagsOK, CursorsOK, Cursors, BeforeRename, Spooling, Threads, At
<1>11. PositionKept' /\ FileAhead'
  <2>1. PositionKept'
    <3>1. Due' = Due /\ Kept' = Kept
      BY <1>2 DEF Due, Kept, readable
    <3>2. Kept
      BY <1>0, <1>2 DEF PositionKept, AfterRename, At, Threads
    <3>3. Due <= opened.cursor
      BY <3>2, <1>3 DEF Kept
    <3> QED  BY <3>1, <3>2, <3>3, <1>0, <1>2, <1>4 DEF PositionKept, At, BeforeRename, Spooling,
                AfterRename, Threads
  <2>2. FileAhead'
    <3>1. opened.image.cursor <= files["path"].body.cursor
      BY <1>3, <1>5 DEF path, Images
    <3> QED  BY <3>1, <1>0, <1>2, <1>4 DEF FileAhead, readable, Up, At, Threads
  <2> QED  BY <2>1, <2>2
<1>12. ClaimsOK'
  <2>1. SUFFICES ASSUME ~lost PROVE ClaimsOK'
    BY <1>2 DEF ClaimsOK
  <2>2. (\A x \in Written' : Claims(x)) /\ Claims(view') /\ (\A s \in Threads : Claims(writer'[s].next))
    BY <2>1, <1>0, <1>w, <1>2, <1>4, <1>6 DEF ClaimsOK
  <2> QED  BY <2>1, <2>2, <1>0, <1>2, <1>4 DEF ClaimsOK, Claims, Shows, Up, At, Threads
<1> QED  BY <1>8, <1>9, <1>10, <1>11, <1>12 DEF Whole

LEMMA PublishStep ==
  ASSUME Sound, NEW t \in Threads, Publish(t)
  PROVE  Whole'
<1>0. /\ TypeOK /\ (\A s \in Threads : WriterOK(s)) /\ BaseOK(view) /\ TurnsOK /\ FilesOK /\ TagsOK
      /\ CursorsOK /\ PositionKept /\ FileAhead /\ ClaimsOK
  BY DEF Sound, Whole
<1>1. /\ files \in [Names -> FileSet] /\ writer \in [Threads -> WriterSet] /\ received \in 0 .. MaxChanges
      /\ handler \in Handlers /\ view \in Views
  BY <1>0, Types
<1>2. /\ At(t, "publish") /\ view' = writer[t].next
      /\ lost' = (lost \/ ~(view.covers \cup writer[t].image.covers \subseteq view'.covers))
      /\ UNCHANGED <<files, received, starts>>
  BY DEF Publish
<1>3. /\ \A s \in Threads : s # t => writer'[s] = writer[s]
      /\ writer'[t] = Resting
      /\ writer' \in [Threads -> WriterSet]
  BY <1>1, NothingTypes DEF Publish
<1>4. handler' = IF t = "handler" THEN [state |-> "after", cursor |-> handler.cursor] ELSE handler
  BY <1>1 DEF Publish, Handlers
<1>5. view' \in Views /\ view' # NoView
  BY <1>0, <1>1, <1>2 DEF WriterOK, Spooling, At, WriterSet
<1>6. /\ BaseOK(view') /\ Cursors(view') /\ (~lost => Claims(view'))
  BY <1>0, <1>2 DEF WriterOK, Spooling, CursorsOK, ClaimsOK
<1>8. \A s \in Threads : WriterOK(s)'
  <2>1. WriterOK(t)'
    BY <1>3, RestingFields DEF WriterOK, Spooling, BaseOK
  <2> QED  BY <2>1, <1>0, <1>2, <1>3, OthersKept
<1>9. BaseOK(view)'
  BY <1>2, <1>6 DEF BaseOK
<1>10. TurnsOK'
  BY <1>0, <1>2, <1>3, <1>4, <1>5, RestingFields DEF TurnsOK, HasOpen, Spooling, Up, At, Threads
<1>11. FilesOK'
  BY <1>0, <1>2, <1>3, RestingFields DEF FilesOK, At
<1>w. Written' \subseteq Written \cup {NoImage}
  BY <1>2, <1>3, RestingFields DEF Written
<1>12. TagsOK'
  BY <1>w, <1>0 DEF TagsOK, NoImage
<1>n. NoImage.cursor <= received /\ Claims(NoImage) /\ Claims(NoView) /\ Cursors(NoView)
  BY <1>1 DEF NoImage, NoView, Claims, Cursors
<1>13. CursorsOK'
  <2>1. Cursors(view)' /\ \A s \in Threads : Cursors(writer'[s].next)
    BY <1>n, <1>0, <1>2, <1>3, <1>6, RestingFields DEF CursorsOK, Cursors
  <2> QED  BY <2>1, <1>n, <1>w, <1>0, <1>2, <1>3, RestingFields DEF CursorsOK, Cursors,
              BeforeRename, Spooling, Threads
<1>14. PositionKept' /\ FileAhead'
  <2>1. CASE t = "worker"
    <3>1. handler' = handler
      BY <2>1, <1>4
    <3>2. handler.state \in {"absent", "called"} => writer["handler"].step = "none" /\ Due' = view'.cursor
      BY <3>1, <1>0 DEF TurnsOK, HasOpen, Due
    <3>3. handler.state \notin {"absent", "called"} => Due' = Due
      BY <3>1 DEF Due
    <3>4. Due' <= view'.cursor
      <4>1. view'.cursor \in Int
        BY <1>5 DEF Views
      <4> QED  BY <4>1, <2>1, <3>2, <3>3, <1>0, <1>2 DEF PositionKept, At, Threads
    <3>5. Due' = Due => Kept' = Kept
      BY <1>2 DEF Kept, readable
    <3>6. writer'["handler"] = writer["handler"] /\ writer'["worker"] = Resting
      BY <2>1, <1>3 DEF Threads
    <3>7. PositionKept'
      BY <3>1, <3>2, <3>3, <3>4, <3>5, <3>6, <1>0, RestingFields DEF PositionKept, BeforeRename,
         Spooling, AfterRename
    <3>8. FileAhead'
      BY <2>1, <3>1, <3>6, <1>0, <1>2, RestingFields DEF FileAhead, At, readable, Threads
    <3> QED  BY <3>7, <3>8
  <2>2. CASE t = "handler"
    <3>1. handler'.state = "after" /\ handler.state = "busy" /\ Due' = Due
      BY <2>2, <1>0, <1>2, <1>4 DEF TurnsOK, HasOpen, At, Due
    <3>2. Kept' = Kept
      BY <3>1, <1>2 DEF Kept, readable
    <3>3. Kept /\ Due <= view'.cursor
      BY <2>2, <1>0, <1>2 DEF PositionKept, At
    <3>4. writer'["handler"] = Resting /\ writer'["worker"] = writer["worker"]
      BY <2>2, <1>3 DEF Threads
    <3> QED  BY <3>1, <3>2, <3>3, <3>4, <1>0, RestingFields DEF PositionKept, BeforeRename,
                Spooling, AfterRename, FileAhead
  <2> QED  BY <2>1, <2>2 DEF Threads
<1>15. ClaimsOK'
  <2>1. SUFFICES ASSUME ~lost' PROVE ClaimsOK'
    BY DEF ClaimsOK
  <2>2. ~lost /\ view.covers \subseteq view'.covers /\ writer[t].image.covers \subseteq view'.covers
    BY <2>1, <1>2
  <2>3. (\A x \in Written' : Claims(x)) /\ Claims(view') /\ (\A s \in Threads : Claims(writer'[s].next))
    BY <2>2, <1>n, <1>w, <1>0, <1>3, <1>6, RestingFields DEF ClaimsOK
  <2>4. \A S : Shows(S)' <=> Shows(S)
    BY <1>2 DEF Shows
  <2>5. CASE t = "worker"
    <3>1. writer["worker"].job \in {"start", "build", "batch", "idle"}
      BY <2>5, <1>0, <1>1, <1>2 DEF WriterOK, Spooling, At, Threads, WriterSet
    <3>2. Shows(view'.covers)
      <4>1. Up /\ writer["worker"].job \in {"none", "idle"} => Shows(view'.covers)
        BY <2>2, <1>0 DEF ClaimsOK, Shows
      <4>2. writer["worker"].job \in {"start", "build"} => Shows(view'.covers)
        BY <2>2, <2>5, <1>0 DEF ClaimsOK, Shows
      <4>3. writer["worker"].job = "batch" => Shows(view'.covers)
        BY <2>2, <2>5, <1>0, <1>2 DEF ClaimsOK, Shows
      <4> QED  BY <3>1, <4>1, <4>2, <4>3, <1>0 DEF TurnsOK, HasOpen
    <3> QED  BY <2>3, <2>4, <2>5, <3>2, <1>2, <1>3, RestingFields DEF ClaimsOK, Claims, Shows, Threads
  <2>6. CASE t = "handler"
    <3>1. Up /\ writer["worker"].job # "start" /\ writer'["worker"] = writer["worker"]
      BY <2>6, <1>0, <1>2, <1>3 DEF TurnsOK, HasOpen, At, Threads
    <3>2. writer["worker"].job \in {"none", "idle"} => Shows(view'.covers)
      BY <2>2, <3>1, <1>0 DEF ClaimsOK, Shows
    <3> QED  BY <2>2, <2>3, <2>4, <3>1, <3>2, <1>0, <1>2 DEF ClaimsOK, Claims, Shows
  <2> QED  BY <2>5, <2>6 DEF Threads
<1> QED  BY <1>8, <1>9, <1>10, <1>11, <1>12, <1>13, <1>14, <1>15 DEF Whole

-----------------------------------------------------------------------------
(* The worker begins. *)

LEMMA BeginEffect ==
  ASSUME writer \in [Threads -> WriterSet], NEW t \in Threads,
         NEW job \in {"none", "start", "build", "batch", "idle"}, NEW step \in Steps,
         NEW image \in Images, NEW next \in Views, Begin(t, job, step, image, next), ~clash
  PROVE  /\ writer' \in [Threads -> WriterSet] /\ \A s \in Threads : s # t => writer'[s] = writer[s]
         /\ writer'[t].step = step /\ writer'[t].job = job /\ writer'[t].image = image
         /\ writer'[t].file = "none" /\ writer'[t].next = next
<1> DEFINE r == [step |-> step, job |-> job, image |-> image, file |-> "none", next |-> next]
<1>1. r \in WriterSet
  BY DEF WriterSet
<1>2. writer' = [writer EXCEPT ![t] = r]
  BY DEF Begin, Image
<1>3. r.step = step /\ r.job = job /\ r.image = image /\ r.file = "none" /\ r.next = next
  OBVIOUS
<1> HIDE DEF r
<1> QED  BY <1>1, <1>2, <1>3

\* What a batch makes of the published view.
Applied(v, c) == [v EXCEPT !.covers = @ \cup {c}, !.cursor = c]

LEMMA AppliedView ==
  ASSUME NEW v \in Views, BaseOK(v), v # NoView, NEW c \in 1 .. MaxChanges
  PROVE  /\ Applied(v, c) \in Views /\ Applied(v, c).base = v.base /\ Applied(v, c).image = v.image
         /\ Applied(v, c).covers = v.covers \cup {c} /\ Applied(v, c).cursor = c
         /\ BaseOK(Applied(v, c)) /\ Applied(v, c) # NoView /\ ImageOf(Applied(v, c)) \in Images
<1> DEFINE w == Applied(v, c)
           S == v.covers \cup {c}
<1>1. S \in SUBSET (1 .. MaxChanges) /\ c \in 0 .. MaxChanges
  BY NothingTypes DEF Views
<1>2. w = [[v EXCEPT !.covers = S] EXCEPT !.cursor = c]
  BY DEF Applied, Views
<1> HIDE DEF w, S
<1>3. w \in Views /\ w.base = v.base /\ w.image = v.image /\ w.covers = S /\ w.cursor = c
  BY <1>1, <1>2 DEF Views
<1>4. BaseOK(w) /\ w # NoView
  BY <1>3 DEF BaseOK, NoView
<1>5. ImageOf(w) \in Images
  BY <1>1, <1>3 DEF ImageOf, Images
<1> QED  BY <1>3, <1>4, <1>5 DEF w, S

LEMMA TakeStep ==
  ASSUME Sound, Take
  PROVE  Whole'
<1>0. /\ TypeOK /\ ~clash /\ (\A s \in Threads : WriterOK(s)) /\ BaseOK(view) /\ TurnsOK /\ FilesOK /\ TagsOK
      /\ CursorsOK /\ PositionKept /\ FileAhead /\ ClaimsOK
  BY DEF Sound, Whole
<1>1. /\ files \in [Names -> FileSet] /\ writer \in [Threads -> WriterSet] /\ received \in 0 .. MaxChanges
      /\ view \in Views /\ MaxChanges \in Nat
  BY <1>0, Types, NothingTypes
<1> DEFINE v == Applied(view, received')
<1>2. /\ Up /\ At("worker", "none") /\ received' = received + 1 /\ received' \in 1 .. MaxChanges
      /\ UNCHANGED <<files, view, handler, starts, lost>>
  BY <1>1 DEF Take, Free
<1>3. /\ v \in Views /\ v.base = view.base /\ v.image = view.image
      /\ v.covers = view.covers \cup {received'} /\ v.cursor = received'
      /\ BaseOK(v) /\ v # NoView /\ ImageOf(v) \in Images
  BY <1>0, <1>1, <1>2, AppliedView DEF Up
<1>4. Enumerated \in Images
  BY <1>1, <1>2 DEF Enumerated, Images
<1>5. /\ writer["worker"] = Resting /\ writer'["handler"] = writer["handler"] /\ writer' \in [Threads -> WriterSet]
      /\ writer'["worker"].file = "none"
      /\ \/ /\ writer'["worker"].job = "batch" /\ writer'["worker"].step \in {"publish", "names"}
            /\ writer'["worker"].image = ImageOf(v) /\ writer'["worker"].next = v
         \/ /\ writer'["worker"].job = "build" /\ writer'["worker"].step = "create"
            /\ writer'["worker"].image = Enumerated /\ writer'["worker"].next = NoView
  <2>1. writer["worker"] = Resting
    BY <1>0, <1>2 DEF WriterOK, Spooling, At, Threads
  <2>2. \/ Begin("worker", "batch", "publish", ImageOf(v), v)
        \/ Begin("worker", "batch", "names", ImageOf(v), v)
        \/ Begin("worker", "build", "create", Enumerated, NoView)
    BY DEF Take, Applied
  <2>3. "publish" \in Steps /\ "names" \in Steps /\ "create" \in Steps /\ "worker" \in Threads /\ "handler" \in Threads
    BY DEF Steps, Spools, Threads
  <2> HIDE DEF v
  <2>4. CASE Begin("worker", "batch", "publish", ImageOf(v), v)
    BY <2>1, <2>3, <2>4, <1>0, <1>1, <1>3, BeginEffect
  <2>5. CASE Begin("worker", "batch", "names", ImageOf(v), v)
    BY <2>1, <2>3, <2>5, <1>0, <1>1, <1>3, BeginEffect
  <2>6. CASE Begin("worker", "build", "create", Enumerated, NoView)
    BY <2>1, <2>3, <2>6, <1>0, <1>1, <1>4, NothingTypes, BeginEffect
  <2> QED  BY <2>2, <2>4, <2>5, <2>6
<1> HIDE DEF v
<1> DEFINE image == writer'["worker"].image
           next == writer'["worker"].next
<1>6. /\ image.tag = None /\ image.cursor = received' /\ image \in Images
      /\ ImageOf(v).covers = v.covers /\ Enumerated.covers = 1 .. received'
  BY <1>1, <1>3, <1>4, <1>5 DEF ImageOf, Enumerated
<1>7. /\ v.image.cursor <= v.cursor /\ v.cursor <= received' /\ received <= received'
      /\ received' <= received' /\ view.cursor <= received'
  <2>1. view.image.cursor <= view.cursor /\ view.cursor <= received
    BY <1>0 DEF CursorsOK, Cursors
  <2>2. received \in Int /\ view.cursor \in Int /\ view.image.cursor \in Int
    BY <1>1 DEF Views, Images
  <2>3. view.image.cursor <= received' /\ view.cursor <= received' /\ received <= received' /\ received' <= received'
    BY <2>1, <2>2, <1>2
  <2> QED  BY <2>3, <1>3
<1>9. \A s \in Threads : WriterOK(s)'
  <2>1. WriterOK("worker")'
    BY <1>2, <1>3, <1>5, <1>6 DEF WriterOK, Spooling, BaseOK
  <2>2. WriterOK("handler")'
    BY <1>0, <1>2, <1>5, OthersKept DEF Threads
  <2> QED  BY <2>1, <2>2 DEF Threads
<1>10. BaseOK(view)' /\ TurnsOK'
  BY <1>0, <1>2, <1>5, RestingFields DEF BaseOK, TurnsOK, HasOpen, Spooling, Up, Threads
<1>11. FilesOK'
  BY <1>0, <1>2, <1>5, RestingFields DEF FilesOK, At, Threads
<1>w. Written' \subseteq Written \cup {image}
  BY <1>2, <1>5 DEF Written, Threads
<1>12. TagsOK'
  BY <1>w, <1>0, <1>6 DEF TagsOK
<1>13. CursorsOK'
  <2>1. \A x \in Written' : x.cursor <= received'
    <3>1. \A x \in Written : x.cursor \in Int
      BY <1>1 DEF Written, FileSet, Images, WriterSet
    <3>2. received \in Int /\ received' = received + 1
      BY <1>1, <1>2
    <3>3. \A x \in Written : x.cursor <= received'
      BY <3>1, <3>2, <1>0 DEF CursorsOK
    <3> QED  BY <3>3, <1>w, <1>6, <1>7
  <2>2. \A w \in Views : Cursors(w) => w.image.cursor <= w.cursor /\ w.cursor <= received'
    BY <1>1, <1>2 DEF Cursors, Views, Images
  <2>3. Cursors(view)'
    BY <2>2, <1>0, <1>1, <1>2 DEF CursorsOK, Cursors
  <2>4. Cursors(writer["handler"].next)'
    <3>1. writer["handler"].next \in Views /\ Cursors(writer["handler"].next)
      BY <1>0, <1>1 DEF CursorsOK, WriterSet, Threads
    <3> QED  BY <3>1, <2>2, <1>5 DEF Cursors
  <2>5. Cursors(writer["worker"].next)' /\ next.cursor <= image.cursor
    <3>1. NoView.image.cursor = 0 /\ NoView.cursor = 0
      BY DEF NoView, NoImage
    <3>2. 0 <= received'
      BY <1>2
    <3> QED  BY <3>1, <3>2, <1>3, <1>5, <1>6, <1>7 DEF Cursors
  <2> QED  BY <2>1, <2>3, <2>4, <2>5 DEF CursorsOK, Threads
<1>14. PositionKept' /\ FileAhead'
  <2>1. Due' = Due /\ Kept' = Kept
    BY <1>2 DEF Due, Kept, readable
  <2>2. Due <= received' /\ Due <= view.cursor
    <3>1. Due \in Int /\ view.cursor \in Int /\ received' \in Int
      BY <1>0, <1>1, <1>2, Types DEF Due, Views, Handlers
    <3> QED  BY <3>1, <1>0, <1>7 DEF PositionKept
  <2>3. PositionKept'
    BY <2>1, <2>2, <1>0, <1>2, <1>3, <1>5, <1>6 DEF PositionKept, BeforeRename, Spooling, AfterRename
  <2>4. FileAhead'
    BY <1>0, <1>2, <1>3, <1>5 DEF FileAhead, Up, readable
  <2> QED  BY <2>3, <2>4
<1>15. ClaimsOK'
  <2>1. SUFFICES ASSUME ~lost PROVE ClaimsOK'
    BY <1>2 DEF ClaimsOK
  <2>2. 1 .. received' \subseteq v.covers
    <3>1. 1 .. received \subseteq view.covers
      BY <2>1, <1>0, <1>2, <1>5, RestingFields DEF ClaimsOK, Shows
    <3> QED  BY <3>1, <1>1, <1>2, <1>3
  <2>3. 1 .. received' \subseteq image.covers
    BY <2>2, <1>5, <1>6
  <2>4. Claims(image) /\ Claims(v) /\ Claims(NoView)
    BY <2>2, <2>3, <1>3, <1>6 DEF Claims, NoView
  <2>5. (\A x \in Written' : Claims(x)) /\ Claims(view') /\ Claims(writer'["worker"].next) /\ Claims(writer'["handler"].next)
    BY <2>1, <2>4, <1>0, <1>2, <1>5, <1>w DEF ClaimsOK, Threads
  <2> HIDE DEF image, next
  <2>6. writer'["worker"].image = image
    BY DEF image
  <2> QED  BY <2>2, <2>3, <2>5, <2>6, <1>2, <1>5 DEF ClaimsOK, Claims, Shows, Threads
<1> QED  BY <1>9, <1>10, <1>11, <1>12, <1>13, <1>14, <1>15 DEF Whole

\* Either thread sets out to compact the published view.
LEMMA CompactEffect ==
  ASSUME Sound, Up, NEW t \in Threads, At(t, "none"),
         Begin(t, "idle", "names", ImageOf(view), NoView)
  PROVE  /\ writer[t] = Resting /\ \A s \in Threads : s # t => writer'[s] = writer[s]
         /\ writer' \in [Threads -> WriterSet]
         /\ writer'[t].step = "names" /\ writer'[t].job = "idle" /\ writer'[t].image = ImageOf(view)
         /\ writer'[t].file = "none" /\ writer'[t].next = NoView
         /\ ImageOf(view).tag = None /\ ImageOf(view).cursor = view.cursor /\ ImageOf(view).covers = view.covers
<1>1. TypeOK /\ WriterOK(t) /\ ~clash
  BY DEF Sound, Whole
<1>2. view \in Views /\ writer \in [Threads -> WriterSet]
  BY <1>1, Types
<1>3. ImageOf(view) \in Images
  BY <1>2 DEF Views, ImageOf, Images
<1>4. writer[t] = Resting
  BY <1>1 DEF WriterOK, Spooling, At
<1>5. /\ writer' \in [Threads -> WriterSet] /\ \A s \in Threads : s # t => writer'[s] = writer[s]
      /\ writer'[t].step = "names" /\ writer'[t].job = "idle" /\ writer'[t].image = ImageOf(view)
      /\ writer'[t].file = "none" /\ writer'[t].next = NoView
  <2>1. "names" \in Steps
    BY DEF Steps, Spools
  <2> QED  BY <2>1, <1>1, <1>2, <1>3, NothingTypes, BeginEffect
<1>6. ImageOf(view).tag = None /\ ImageOf(view).cursor = view.cursor /\ ImageOf(view).covers = view.covers
  BY DEF ImageOf
<1> QED  BY <1>4, <1>5, <1>6

LEMMA IdlePersistStep ==
  ASSUME Sound, IdlePersist
  PROVE  Whole'
<1>0. /\ TypeOK /\ (\A s \in Threads : WriterOK(s)) /\ BaseOK(view) /\ TurnsOK /\ FilesOK /\ TagsOK
      /\ CursorsOK /\ PositionKept /\ FileAhead /\ ClaimsOK
  BY DEF Sound, Whole
<1>1. /\ Up /\ At("worker", "none") /\ Begin("worker", "idle", "names", ImageOf(view), NoView)
      /\ UNCHANGED <<files, view, handler, received, starts, lost>>
  BY DEF IdlePersist, Free
<1>2. /\ writer["worker"] = Resting /\ writer'["handler"] = writer["handler"]
      /\ writer' \in [Threads -> WriterSet]
      /\ writer'["worker"].step = "names" /\ writer'["worker"].job = "idle"
      /\ writer'["worker"].image = ImageOf(view)
      /\ writer'["worker"].file = "none" /\ writer'["worker"].next = NoView
      /\ ImageOf(view).tag = None /\ ImageOf(view).cursor = view.cursor /\ ImageOf(view).covers = view.covers
  BY <1>1, CompactEffect DEF Threads
<1>4. \A s \in Threads : WriterOK(s)'
  <2>1. WriterOK("worker")'
    BY <1>2 DEF WriterOK, Spooling, BaseOK
  <2>2. WriterOK("handler")'
    BY <1>0, <1>1, <1>2, OthersKept DEF Threads
  <2> QED  BY <2>1, <2>2 DEF Threads
<1>5. BaseOK(view)' /\ TurnsOK'
  BY <1>0, <1>1, <1>2, RestingFields DEF BaseOK, TurnsOK, HasOpen, Spooling, Up, Threads
<1>6. FilesOK'
  BY <1>0, <1>1, <1>2, RestingFields DEF FilesOK, At, Threads
<1>w. Written' \subseteq Written \cup {ImageOf(view)}
  BY <1>1, <1>2 DEF Written, Threads
<1>7. TagsOK'
  BY <1>w, <1>0, <1>2 DEF TagsOK
<1>8. CursorsOK'
  <2>1. Cursors(view) /\ NoView.image.cursor = 0 /\ NoView.cursor = 0 /\ 0 <= received
    BY <1>0, Types DEF CursorsOK, NoView, NoImage
  <2> QED  BY <2>1, <1>w, <1>0, <1>1, <1>2 DEF CursorsOK, Cursors, Threads
<1>9. PositionKept' /\ FileAhead'
  BY <1>0, <1>1, <1>2 DEF PositionKept, FileAhead, Due, Kept, readable, Up, BeforeRename,
     Spooling, AfterRename
<1>10. ClaimsOK'
  <2>1. SUFFICES ASSUME ~lost PROVE ClaimsOK'
    BY <1>1 DEF ClaimsOK
  <2>2. Claims(view) /\ Claims(ImageOf(view)) /\ Claims(NoView) /\ Shows(view.covers)
    BY <2>1, <1>0, <1>1, <1>2, RestingFields DEF ClaimsOK, Claims, NoView
  <2>3. (\A x \in Written' : Claims(x)) /\ (\A s \in Threads : Claims(writer'[s].next))
    BY <2>1, <2>2, <1>0, <1>2, <1>w DEF ClaimsOK, Threads
  <2> QED  BY <2>2, <2>3, <1>1, <1>2 DEF ClaimsOK, Claims, Shows
<1> QED  BY <1>4, <1>5, <1>6, <1>7, <1>8, <1>9, <1>10 DEF Whole

-----------------------------------------------------------------------------
(* The shutdown handler. *)

LEMMA CallStep ==
  ASSUME Sound, Call
  PROVE  Whole'
<1>0. /\ TypeOK /\ (\A s \in Threads : WriterOK(s)) /\ BaseOK(view) /\ TurnsOK /\ FilesOK /\ TagsOK
      /\ CursorsOK /\ PositionKept /\ FileAhead /\ ClaimsOK
  BY DEF Sound, Whole
<1>1. /\ Up /\ handler.state = "absent" /\ handler' = [state |-> "called", cursor |-> handler.cursor]
      /\ UNCHANGED <<files, view, writer, received, starts, lost>>
  BY <1>0, Types DEF Call, Handlers
<1>3. /\ (\A s \in Threads : WriterOK(s)') /\ BaseOK(view)'
      /\ FilesOK' /\ TagsOK' /\ CursorsOK' /\ ClaimsOK'
  <2>1. (\A s \in Threads : WriterOK(s)') /\ BaseOK(view)'
    BY <1>0, <1>1 DEF WriterOK, Spooling, BaseOK
  <2>2. FilesOK' /\ TagsOK'
    BY <1>0, <1>1 DEF FilesOK, At, TagsOK, Written
  <2>3. CursorsOK' /\ ClaimsOK'
    BY <1>0, <1>1 DEF CursorsOK, Written, Cursors, BeforeRename, Spooling, ClaimsOK, Claims, Shows, Up
  <2> QED  BY <2>1, <2>2, <2>3
<1>4. TurnsOK' /\ PositionKept' /\ FileAhead'
  BY <1>0, <1>1 DEF TurnsOK, HasOpen, Spooling, Up, PositionKept, Due, Kept, readable, FileAhead,
     BeforeRename, AfterRename
<1> QED  BY <1>3, <1>4 DEF Whole

LEMMA LoadStep ==
  ASSUME Sound, Load
  PROVE  Whole'
<1>0. /\ TypeOK /\ (\A s \in Threads : WriterOK(s)) /\ BaseOK(view) /\ TurnsOK /\ FilesOK /\ TagsOK
      /\ CursorsOK /\ PositionKept /\ FileAhead /\ ClaimsOK
  BY DEF Sound, Whole
<1>1. /\ Up /\ handler.state = "called"
      /\ UNCHANGED <<files, view, received, starts, lost>>
      /\ view \in Views /\ Due = view.cursor /\ view.cursor \in 0 .. MaxChanges
  BY <1>0, Types DEF Load, Due, Views
<1>2. CASE /\ handler' = [state |-> "busy", cursor |-> view.cursor]
           /\ Begin("handler", "idle", "names", ImageOf(view), NoView)
  <2>1. At("handler", "none")
    BY <1>0, <1>1, Types DEF TurnsOK, HasOpen, At, Threads
  <2>2. /\ writer["handler"] = Resting /\ writer'["worker"] = writer["worker"]
        /\ writer' \in [Threads -> WriterSet]
        /\ writer'["handler"].step = "names" /\ writer'["handler"].job = "idle"
        /\ writer'["handler"].image = ImageOf(view)
        /\ writer'["handler"].file = "none" /\ writer'["handler"].next = NoView
        /\ ImageOf(view).tag = None /\ ImageOf(view).cursor = view.cursor /\ ImageOf(view).covers = view.covers
    BY <2>1, <1>1, <1>2, CompactEffect DEF Threads
  <2>4. \A s \in Threads : WriterOK(s)'
    <3>1. WriterOK("handler")'
      BY <2>2 DEF WriterOK, Spooling, BaseOK
    <3>2. WriterOK("worker")'
      BY <1>0, <1>1, <2>2, OthersKept DEF Threads
    <3> QED  BY <3>1, <3>2 DEF Threads
  <2>5. BaseOK(view)' /\ TurnsOK'
    BY <1>0, <1>1, <1>2, <2>2, RestingFields DEF BaseOK, TurnsOK, HasOpen, Spooling, Up, Threads
  <2>6. FilesOK'
    BY <1>0, <1>1, <2>2, RestingFields DEF FilesOK, At, Threads
  <2>w. Written' \subseteq Written \cup {ImageOf(view)}
    BY <1>1, <2>2 DEF Written, Threads
  <2>7. TagsOK'
    BY <2>w, <1>0, <2>2 DEF TagsOK
  <2>8. CursorsOK'
    <3>1. Cursors(view) /\ NoView.image.cursor = 0 /\ NoView.cursor = 0 /\ 0 <= received
      BY <1>0, Types DEF CursorsOK, NoView, NoImage
    <3> QED  BY <3>1, <2>w, <1>0, <1>1, <2>2 DEF CursorsOK, Cursors, BeforeRename, Spooling, Threads
  <2>9. PositionKept' /\ FileAhead'
    <3>1. Due' = Due /\ Kept' = Kept /\ Due <= view.cursor /\ handler'.state = "busy"
      BY <1>0, <1>1, <1>2 DEF Due, Kept, readable, PositionKept
    <3> QED  BY <3>1, <1>0, <1>1, <2>2 DEF PositionKept, FileAhead, BeforeRename, Spooling, AfterRename
  <2>10. ClaimsOK'
    <3>1. SUFFICES ASSUME ~lost PROVE ClaimsOK'
      BY <1>1 DEF ClaimsOK
    <3>2. Claims(view) /\ Claims(ImageOf(view)) /\ Claims(NoView)
      BY <3>1, <1>0, <2>2 DEF ClaimsOK, Claims, NoView
    <3>3. (\A x \in Written' : Claims(x)) /\ (\A s \in Threads : Claims(writer'[s].next))
      BY <3>1, <3>2, <1>0, <2>2, <2>w DEF ClaimsOK, Threads
    <3>4. writer'["worker"] = writer["worker"] /\ view' = view /\ received' = received /\ lost' = lost
      BY <1>1, <2>2 DEF Threads
    <3> QED  BY <3>1, <3>2, <3>3, <3>4, <1>0 DEF ClaimsOK, Claims, Shows, Up
  <2> QED  BY <2>4, <2>5, <2>6, <2>7, <2>8, <2>9, <2>10 DEF Whole
<1>3. CASE ~needs_persist(view) /\ handler' = [state |-> "after", cursor |-> view.cursor] /\ UNCHANGED writer
  <2>2. /\ (\A s \in Threads : WriterOK(s)') /\ BaseOK(view)'
        /\ FilesOK' /\ TagsOK' /\ CursorsOK' /\ ClaimsOK'
    BY <1>0, <1>1, <1>3 DEF WriterOK, Spooling, BaseOK, FilesOK, At, TagsOK, Written, CursorsOK,
       Cursors, BeforeRename, ClaimsOK, Claims, Shows, Up
  <2>3. TurnsOK'
    BY <1>0, <1>1, <1>3 DEF TurnsOK, HasOpen, Spooling, Up
  <2>4. PositionKept' /\ FileAhead'
    <3>1. Due' = Due /\ Kept' = Kept /\ handler'.state = "after"
      BY <1>1, <1>3 DEF Due, Kept, readable
    <3>2. Kept
      BY <1>0, <1>1, <1>3 DEF Kept, FileAhead, needs_persist
    <3> QED  BY <3>1, <3>2, <1>0, <1>1, <1>3 DEF PositionKept, FileAhead, BeforeRename, Spooling,
                AfterRename
  <2> QED  BY <2>2, <2>3, <2>4 DEF Whole
<1> QED  BY <1>2, <1>3 DEF Load

LEMMA GoneStep ==
  ASSUME Sound, Gone
  PROVE  Whole'
<1>0. /\ TypeOK /\ FilesOK /\ TagsOK /\ CursorsOK /\ ClaimsOK
  BY DEF Sound, Whole
<1>1. /\ view' = NoView /\ (\A t \in Threads : writer'[t] = Resting) /\ writer' \in [Threads -> WriterSet]
      /\ handler' = [state |-> "absent", cursor |-> 0]
      /\ UNCHANGED <<received, starts, lost>>
  BY NothingTypes DEF Gone
<1>2. /\ files' \in [Names -> FileSet] /\ files'["path"] = files["path"] /\ files'["frn"] = files["frn"]
      /\ files'["tmp"] = Missing /\ files'["frn.tmp"] = Missing
  BY <1>0, Types, NothingTypes DEF Gone, Names
<1>4. (\A t \in Threads : WriterOK(t)') /\ BaseOK(view)'
  BY <1>1, RestingFields DEF WriterOK, Spooling, BaseOK
<1>5. TurnsOK'
  BY <1>1, RestingFields DEF TurnsOK, HasOpen, Spooling, Up, Threads
<1>6. FilesOK'
  BY <1>0, <1>1, <1>2, RestingFields DEF FilesOK, At
<1>w. Written' \subseteq Written \cup {NoImage}
  BY <1>1, <1>2, RestingFields DEF Written, Names, Missing
<1>7. TagsOK'
  BY <1>w, <1>0 DEF TagsOK, NoImage
<1>8. CursorsOK'
  <2>1. Cursors(NoView) /\ NoImage.cursor <= received
    BY <1>0, Types DEF Cursors, NoView, NoImage
  <2> QED  BY <2>1, <1>w, <1>0, <1>1, RestingFields DEF CursorsOK, Cursors, Threads
<1>9. PositionKept' /\ FileAhead'
  <2>1. Due' = 0 /\ NoView.cursor = 0
    BY <1>1 DEF Due, NoView
  <2> QED  BY <2>1, <1>1, RestingFields DEF PositionKept, FileAhead, BeforeRename, Spooling,
              AfterRename, Threads, Up
<1>10. ClaimsOK'
  <2>1. Claims(NoImage) /\ Claims(NoView)
    BY DEF Claims, NoImage, NoView
  <2> QED  BY <2>1, <1>0, <1>1, <1>w, RestingFields DEF ClaimsOK, Claims, Up, Threads
<1> QED  BY <1>4, <1>5, <1>6, <1>7, <1>8, <1>9, <1>10 DEF Whole

-----------------------------------------------------------------------------
(* A start. *)

LEMMA ResumeStep ==
  ASSUME Sound, Resume
  PROVE  Whole'
<1>0. /\ TypeOK /\ (\A s \in Threads : WriterOK(s)) /\ BaseOK(view) /\ TurnsOK /\ FilesOK /\ TagsOK
      /\ CursorsOK /\ PositionKept /\ FileAhead /\ ClaimsOK
  BY DEF Sound, Whole
<1>1. /\ files \in [Names -> FileSet] /\ writer \in [Threads -> WriterSet] /\ received \in 0 .. MaxChanges
      /\ starts \in 0 .. MaxStarts /\ MaxChanges \in Nat /\ MaxStarts \in Nat
  BY <1>0, Types, NothingTypes
<1> DEFINE path == files["path"].body
           covers == opened.covers \cup (opened.cursor + 1 .. received')
<1>2. /\ ~Up /\ At("worker", "none") /\ readable
      /\ received' \in received .. MaxChanges
      /\ view' = [opened EXCEPT !.covers = @ \cup (opened.cursor + 1 .. received'), !.cursor = received']
      /\ starts' = starts + 1 /\ starts < MaxStarts
      /\ UNCHANGED <<files, writer, handler, lost>>
  BY DEF Resume
<1>3. /\ opened \in Views /\ opened # NoView /\ opened.base = "path"
      /\ opened.image = [path EXCEPT !.tag = None]
      /\ opened.covers = path.covers /\ opened.cursor = path.cursor /\ opened.image.cursor = path.cursor
  BY <1>1, OpenedTypes
<1>4. path \in Written /\ path \in Images
  BY <1>1 DEF Written, FileSet, Names
<1> HIDE DEF path
<1>5. path.cursor <= received /\ path.cursor \in 0 .. MaxChanges /\ path.covers \in SUBSET (1 .. MaxChanges)
  BY <1>0, <1>4 DEF CursorsOK, Images
<1>6. covers \in SUBSET (1 .. MaxChanges) /\ received' \in 0 .. MaxChanges
  BY <1>1, <1>2, <1>3, <1>5
<1>7. view' = [[opened EXCEPT !.covers = covers] EXCEPT !.cursor = received']
  BY <1>2, <1>3 DEF Views
<1> HIDE DEF covers
<1>8. /\ view' \in Views /\ view'.base = "path" /\ view'.image = opened.image
      /\ view'.covers = covers /\ view'.cursor = received'
  <2> HIDE DEF opened
  <2> QED  BY <1>3, <1>6, <1>7 DEF Views
<1>9. view' # NoView
  BY <1>8 DEF NoView
<1>10. /\ writer["worker"] = Resting /\ handler.state = "absent" /\ writer["handler"].step = "none"
  BY <1>0, <1>2 DEF WriterOK, Spooling, TurnsOK, HasOpen, At, Threads
<1>12. (\A s \in Threads : WriterOK(s)') /\ FilesOK' /\ TagsOK'
  BY <1>0, <1>2 DEF WriterOK, Spooling, BaseOK, FilesOK, At, TagsOK, Written
<1>13. BaseOK(view)'
  BY <1>2, <1>3, <1>8 DEF BaseOK, path
<1>14. TurnsOK'
  BY <1>0, <1>2, <1>9, <1>10, RestingFields DEF TurnsOK, HasOpen, Spooling, Up
<1>15. CursorsOK'
  <2>1. Written' = Written
    BY <1>2 DEF Written
  <2>2. \A x \in Written : x.cursor \in Int
    BY <1>1 DEF Written, FileSet, Images, WriterSet
  <2>3. \A x \in Written : x.cursor <= received'
    BY <2>2, <1>0, <1>1, <1>2 DEF CursorsOK
  <2>4. \A w \in Views : Cursors(w) => w.image.cursor <= w.cursor /\ w.cursor <= received'
    BY <1>1, <1>2 DEF Cursors, Views, Images
  <2>5. ASSUME NEW s \in Threads PROVE Cursors(writer[s].next)'
    <3>1. writer[s].next \in Views /\ Cursors(writer[s].next)
      BY <1>0, <1>1 DEF CursorsOK, WriterSet
    <3> QED  BY <3>1, <2>4, <1>2 DEF Cursors
  <2>6. Cursors(view)'
    <3>1. path.cursor <= received' /\ received' <= received'
      BY <1>1, <1>2, <1>5
    <3> QED  BY <3>1, <1>3, <1>8 DEF Cursors
  <2>7. writer["worker"].job # "batch"
    BY <1>10, RestingFields
  <2> QED  BY <2>1, <2>3, <2>5, <2>6, <2>7, <1>2 DEF CursorsOK
<1>16. PositionKept' /\ FileAhead'
  <2>1. Due' = view'.cursor /\ view'.cursor <= view'.cursor
    BY <1>2, <1>6, <1>8, <1>10 DEF Due
  <2>2. PositionKept'
    BY <2>1, <1>2, <1>10, RestingFields DEF PositionKept, BeforeRename, Spooling, AfterRename
  <2>3. readable' /\ view'.image.cursor <= files'["path"].body.cursor
    <3>1. path.cursor <= path.cursor /\ view'.image.cursor = path.cursor
      BY <1>3, <1>5, <1>8
    <3>2. readable' /\ files'["path"].body = path
      BY <1>2 DEF readable, path
    <3> QED  BY <3>1, <3>2
  <2> QED  BY <2>2, <2>3, <1>2, <1>10, RestingFields DEF FileAhead
<1>17. ClaimsOK'
  <2>1. SUFFICES ASSUME ~lost PROVE ClaimsOK'
    BY <1>2 DEF ClaimsOK
  <2>2. 1 .. path.cursor \subseteq path.covers
    BY <2>1, <1>0, <1>4 DEF ClaimsOK, Claims
  <2>3. 1 .. received' \subseteq covers
    BY <2>2, <1>1, <1>2, <1>3, <1>5 DEF covers
  <2>4. Written' = Written
    BY <1>2 DEF Written
  <2> QED  BY <2>1, <2>3, <2>4, <1>0, <1>2, <1>8, <1>10, RestingFields DEF ClaimsOK, Claims, Shows
<1> QED  BY <1>12, <1>13, <1>14, <1>15, <1>16, <1>17 DEF Whole

LEMMA FirstBuildStep ==
  ASSUME Sound, FirstBuild
  PROVE  Whole'
<1>0. /\ TypeOK /\ ~clash /\ (\A s \in Threads : WriterOK(s)) /\ BaseOK(view) /\ TurnsOK /\ FilesOK /\ TagsOK
      /\ CursorsOK /\ PositionKept /\ FileAhead /\ ClaimsOK
  BY DEF Sound, Whole
<1>1. /\ files \in [Names -> FileSet] /\ writer \in [Threads -> WriterSet] /\ received \in 0 .. MaxChanges
      /\ starts \in 0 .. MaxStarts /\ MaxChanges \in Nat /\ MaxStarts \in Nat /\ view \in Views
  BY <1>0, Types, NothingTypes
<1>2. /\ ~Up /\ At("worker", "none") /\ received' \in received .. MaxChanges
      /\ Begin("worker", "start", "create", Enumerated, NoView)
      /\ starts' = starts + 1 /\ starts < MaxStarts
      /\ UNCHANGED <<files, view, handler, lost>>
  BY DEF FirstBuild
<1>3. /\ Enumerated \in Images /\ Enumerated.tag = None /\ Enumerated.cursor = received'
      /\ Enumerated.covers = 1 .. received'
  BY <1>1, <1>2 DEF Enumerated, Images
<1>4. /\ writer["worker"] = Resting /\ handler.state = "absent" /\ writer["handler"].step = "none"
      /\ view = NoView
  BY <1>0, <1>2 DEF WriterOK, Spooling, TurnsOK, HasOpen, At, Threads, Up
<1>5. /\ writer' \in [Threads -> WriterSet] /\ writer'["handler"] = writer["handler"]
      /\ writer'["worker"].step = "create" /\ writer'["worker"].job = "start"
      /\ writer'["worker"].image = Enumerated
      /\ writer'["worker"].file = "none" /\ writer'["worker"].next = NoView
  <2>1. "create" \in Steps /\ "worker" \in Threads /\ "handler" \in Threads
    BY DEF Steps, Threads
  <2> QED  BY <2>1, <1>0, <1>1, <1>2, <1>3, NothingTypes, BeginEffect
<1>7. \A s \in Threads : WriterOK(s)'
  <2>1. WriterOK("worker")'
    BY <1>5 DEF WriterOK, Spooling, BaseOK
  <2>2. WriterOK("handler")'
    BY <1>0, <1>2, <1>5, OthersKept DEF Threads
  <2> QED  BY <2>1, <2>2 DEF Threads
<1>8. BaseOK(view)' /\ TurnsOK'
  BY <1>0, <1>2, <1>4, <1>5, RestingFields DEF BaseOK, TurnsOK, HasOpen, Spooling, Up, Threads
<1>9. FilesOK'
  BY <1>0, <1>2, <1>4, <1>5, RestingFields DEF FilesOK, At, Threads
<1>w. Written' \subseteq Written \cup {Enumerated}
  BY <1>2, <1>5 DEF Written, Threads
<1>10. TagsOK'
  BY <1>w, <1>0, <1>3 DEF TagsOK
<1>11. CursorsOK'
  <2>1. \A x \in Written : x.cursor \in Int
    BY <1>1 DEF Written, FileSet, Images, WriterSet
  <2>2. \A x \in Written : x.cursor <= received'
    BY <2>1, <1>0, <1>1, <1>2 DEF CursorsOK
  <2>3. \A w \in Views : Cursors(w) => w.image.cursor <= w.cursor /\ w.cursor <= received'
    BY <1>1, <1>2 DEF Cursors, Views, Images
  <2>4. Cursors(view)'
    BY <2>3, <1>0, <1>1, <1>2 DEF CursorsOK, Cursors
  <2>5. Cursors(writer["handler"].next)'
    <3>1. writer["handler"].next \in Views /\ Cursors(writer["handler"].next)
      BY <1>0, <1>1 DEF CursorsOK, WriterSet, Threads
    <3> QED  BY <3>1, <2>3, <1>5 DEF Cursors
  <2>6. Cursors(writer["worker"].next)' /\ received' <= received'
    <3>1. NoView.image.cursor = 0 /\ NoView.cursor = 0
      BY DEF NoView, NoImage
    <3>2. 0 <= received' /\ received' <= received'
      BY <1>1, <1>2
    <3> QED  BY <3>1, <3>2, <1>5 DEF Cursors
  <2> QED  BY <2>2, <2>4, <2>5, <2>6, <1>w, <1>3, <1>5 DEF CursorsOK, Threads
<1>12. PositionKept' /\ FileAhead'
  <2>1. Due' = 0 /\ view'.cursor = 0 /\ 0 <= received'
    BY <1>1, <1>2, <1>4 DEF Due, NoView
  <2> QED  BY <2>1, <1>2, <1>3, <1>4, <1>5 DEF PositionKept, FileAhead, BeforeRename, Spooling,
              AfterRename, Up
<1>13. ClaimsOK'
  <2>1. SUFFICES ASSUME ~lost PROVE ClaimsOK'
    BY <1>2 DEF ClaimsOK
  <2>2. Claims(Enumerated) /\ Claims(NoView)
    BY <1>3 DEF Claims, NoView
  <2>3. (\A x \in Written' : Claims(x)) /\ (\A s \in Threads : Claims(writer'[s].next)) /\ Claims(view')
    BY <2>1, <2>2, <1>0, <1>2, <1>5, <1>w DEF ClaimsOK, Threads
  <2> QED  BY <2>3, <1>2, <1>3, <1>4, <1>5 DEF ClaimsOK, Claims, Shows, Up
<1> QED  BY <1>7, <1>8, <1>9, <1>10, <1>11, <1>12, <1>13 DEF Whole

-----------------------------------------------------------------------------
(* Types, whether the two threads have met or not. *)

LEMMA ImageTypes ==
  ASSUME NEW c \in BOOLEAN, NEW image \in Images
  PROVE  Image(c, image) \in Images
BY NothingTypes DEF Image, Unknown, Images, Tags, None

LEMMA LeavesTypes ==
  ASSUME TypeOK, NEW meets \in BOOLEAN, NEW fs \in [Names -> FileSet], NEW w \in [Threads -> WriterSet],
         Leaves(meets, fs, w), scratch' \in [Threads -> [Spools -> Holds]]
  PROVE  TypeOK'
<1>1. clash \in BOOLEAN
  BY Types
<1>2. clash' \in BOOLEAN /\ UNCHANGED <<view, handler, received, starts, lost>>
  BY <1>1 DEF Leaves
<1>3. files' \in [Names -> FileSet]
  <2>1. \A f \in Names : [tag |-> IF clash' /\ fs[f].tag # None THEN Unknown.tag ELSE fs[f].tag,
                          body |-> Image(clash', fs[f].body)] \in FileSet
    BY <1>2, ImageTypes DEF FileSet, Unknown, Tags
  <2> QED  BY <2>1 DEF Leaves, Files
<1>4. writer' \in [Threads -> WriterSet]
  <2>1. \A s \in Threads : [w[s] EXCEPT !.image = Image(clash', @)] \in WriterSet
    <3> SUFFICES ASSUME NEW s \in Threads PROVE [w[s] EXCEPT !.image = Image(clash', @)] \in WriterSet
      OBVIOUS
    <3>1. w[s] \in WriterSet /\ Image(clash', w[s].image) \in Images
      BY <1>2, ImageTypes DEF WriterSet
    <3> QED  BY <3>1 DEF WriterSet
  <2> QED  BY <2>1 DEF Leaves, Writers
<1> QED  BY <1>2, <1>3, <1>4 DEF TypeOK, FileSet, WriterSet

LEMMA DroppedTypes ==
  ASSUME TypeOK, NEW t \in Threads, Drops(t)
  PROVE  scratch' \in [Threads -> [Spools -> Holds]]
<1>1. PICK removed : scratch' = Dropped(t, removed)
  BY DEF Drops
<1> QED  BY <1>1, Types DEF Dropped, Holds

\* What a thread abandons, it leaves typed.
LEMMA AbandonTypes ==
  ASSUME TypeOK, NEW t \in Threads, Abandon(t)
  PROVE  TypeOK'
<1>1. /\ files \in [Names -> FileSet] /\ writer \in [Threads -> WriterSet] /\ handler \in Handlers
      /\ UNCHANGED <<view, received, starts, clash>>
  BY Types DEF Abandon
<1> DEFINE r == [Resting EXCEPT !.step = "publish", !.job = "batch", !.next = writer[t].next]
<1>2. r \in WriterSet /\ Resting \in WriterSet
  BY <1>1, NothingTypes DEF WriterSet, Steps
<1>3. writer' = [writer EXCEPT ![t] = IF writer[t].job = "batch" THEN r ELSE Resting]
  BY DEF Abandon
<1> HIDE DEF r
<1>4. writer' \in [Threads -> WriterSet]
  BY <1>1, <1>2, <1>3
<1>5. files' \in [Names -> FileSet] /\ handler' \in Handlers
  BY <1>1, NothingTypes DEF Abandon, Handlers
<1>6. scratch' \in [Threads -> [Spools -> Holds]] /\ lost' \in BOOLEAN
  BY DroppedTypes, Types DEF Abandon
<1> QED  BY <1>1, <1>4, <1>5, <1>6 DEF TypeOK, FileSet, WriterSet, Handlers

LEMMA GoneTypes ==
  ASSUME TypeOK, Gone
  PROVE  TypeOK'
<1>1. /\ view' \in Views /\ writer' \in [Threads -> WriterSet] /\ files' \in [Names -> FileSet]
      /\ UNCHANGED <<received, starts, lost, clash>>
  BY Types, NothingTypes DEF Gone
<1>2. scratch' \in [Threads -> [Spools -> Holds]] /\ handler' \in Handlers
  BY NothingTypes DEF Gone, NoSpools, Holds, Handlers
<1> QED  BY <1>1, <1>2 DEF TypeOK, FileSet, WriterSet, Handlers

\* The steps among the spools.
LEMMA SpoolTypes ==
  ASSUME TypeOK, NEW t \in Threads,
         (\E s \in Spools : OpenSpool(t, s) \/ MapSpool(t, s)) \/ Merge(t) \/ Regrow(t)
  PROVE  TypeOK'
<1>1. /\ files \in [Names -> FileSet] /\ writer \in [Threads -> WriterSet]
      /\ scratch \in [Threads -> [Spools -> Holds]] /\ "names" \in Spools
  BY Types DEF Spools
<1>2. \A n \in Steps : [writer EXCEPT ![t].step = n] \in [Threads -> WriterSet]
  BY <1>1 DEF WriterSet
<1>3. ASSUME NEW s \in Spools, NEW hold \in Holds, NEW n \in Steps, Resized(t, s, hold, n)
      PROVE  TypeOK'
  <2>1. scratch' \in [Threads -> [Spools -> Holds]]
    BY <1>1, <1>3 DEF Resized
  <2> DEFINE meets == s = "names" /\ \E p \in Sharers(t, s) : At(p, "grow")
  <2>2. Leaves(meets, files, [writer EXCEPT ![t].step = n]) /\ meets \in BOOLEAN
    BY <1>3 DEF Resized
  <2> HIDE DEF meets
  <2> QED  BY <1>1, <1>2, <2>1, <2>2, LeavesTypes
<1>4. ASSUME NEW s \in Spools, OpenSpool(t, s) PROVE TypeOK'
  <2>1. s \in Steps /\ "open" \in Holds
    BY DEF Steps, Holds
  <2> QED  BY <1>3, <1>4, <2>1, AbandonTypes DEF OpenSpool
<1>5. ASSUME NEW s \in Spools, MapSpool(t, s) PROVE TypeOK'
  <2> DEFINE hold == IF scratch[t][s] = "apart" THEN "apart" ELSE "mapped"
             n == IF s = "names" THEN "columns" ELSE "merge"
  <2>1. hold \in Holds /\ n \in Steps
    BY DEF Steps, Spools, Holds
  <2>2. Resized(t, s, hold, n)
    BY <1>5 DEF MapSpool
  <2> HIDE DEF hold, n
  <2> QED  BY <1>3, <2>1, <2>2
<1>6. ASSUME Merge(t) PROVE TypeOK'
  <2> DEFINE meets == \E p \in Threads \ {t} : Spooled(p)
  <2>1. PICK grows \in BOOLEAN :
          /\ scratch' = [scratch EXCEPT ![t]["names"] = IF grows /\ @ = "mapped" THEN "open" ELSE @]
          /\ Leaves(meets, files, [writer EXCEPT ![t].step = IF grows THEN "grow" ELSE "create"])
    BY <1>6 DEF Merge
  <2>2. scratch' \in [Threads -> [Spools -> Holds]]
    BY <1>1, <2>1 DEF Holds
  <2>3. meets \in BOOLEAN
    OBVIOUS
  <2>4. (IF grows THEN "grow" ELSE "create") \in Steps
    BY DEF Steps
  <2> HIDE DEF meets
  <2> QED  BY <1>1, <1>2, <2>1, <2>2, <2>3, <2>4, LeavesTypes
<1>7. ASSUME Regrow(t) PROVE TypeOK'
  <2>1. CASE Gone
    BY <2>1, GoneTypes
  <2>2. CASE /\ scratch' = [scratch EXCEPT ![t]["names"] = IF @ = "open" THEN "mapped" ELSE @]
             /\ writer' = [writer EXCEPT ![t].step = "create"]
             /\ UNCHANGED <<files, view, handler, received, starts, lost, clash>>
    <3>1. scratch' \in [Threads -> [Spools -> Holds]]
      BY <1>1, <2>2 DEF Holds
    <3>2. writer' \in [Threads -> WriterSet]
      BY <1>2, <2>2 DEF Steps
    <3> QED  BY <2>2, <3>1, <3>2 DEF TypeOK, WriterSet
  <2> QED  BY <1>7, <2>1, <2>2 DEF Regrow
<1> QED  BY <1>4, <1>5, <1>6, <1>7

\* The steps on the snapshot and its sidecar.
LEMMA SaveTypes ==
  ASSUME FilesInv, NEW t \in Threads,
         \/ CreateSnapshot(t) \/ WriteBody(t) \/ RenameSnapshot(t)
         \/ CreateSidecar(t) \/ RenameSidecar(t) \/ Open(t) \/ Publish(t)
  PROVE  TypeOK'
<1>0. TypeOK
  BY DEF FilesInv
<1>1. /\ files \in [Names -> FileSet] /\ writer \in [Threads -> WriterSet] /\ view \in Views /\ handler \in Handlers
      /\ scratch \in [Threads -> [Spools -> Holds]] /\ lost \in BOOLEAN
  BY <1>0, Types
<1>2. ASSUME NEW name \in Names, NEW tag \in Tags \cup {None}, NEW n \in Steps, Create(t, name, tag, n) PROVE TypeOK'
  <2> DEFINE fs == CreatedFile(name, tag)
             w == Creating(t, name, tag, n)
             meets == \E p \in Threads \ {t} : HasOpen(p, name)
  <2>1. fs \in [Names -> FileSet] /\ w \in [Threads -> WriterSet]
    BY <1>0, CreatedTypes
  <2>2. Leaves(meets, fs, w) /\ scratch' = scratch /\ meets \in BOOLEAN
    BY <1>2 DEF Create, CreatedFile, Creating
  <2> HIDE DEF fs, w, meets
  <2> QED  BY <1>0, <1>1, <2>1, <2>2, LeavesTypes
<1>3. CASE CreateSnapshot(t)
  <2>1. FreshTag \in Tags
    BY FreshTagExists DEF FilesInv, Sound, FreshTag, Unknown, Tags
  <2>2. "tmp" \in Names /\ "body" \in Steps
    BY DEF Names, Steps
  <2> QED  BY <1>2, <1>3, <2>1, <2>2 DEF CreateSnapshot
<1>4. CASE CreateSidecar(t)
  <2>1. "frn.tmp" \in Names /\ "frn_body" \in Steps
    BY DEF Names, Steps
  <2>2. writer[t].image.tag \in Tags \cup {None}
    BY <1>1 DEF WriterSet, Images
  <2> QED  BY <1>2, <1>4, <2>1, <2>2 DEF CreateSidecar
<1>5. CASE WriteBody(t)
  <2>1. PICK body \in Bodies(t) :
          files' = [f \in Names |-> IF HasOpen(t, f) THEN [files[f] EXCEPT !.body = body] ELSE files[f]]
    BY <1>5 DEF WriteBody
  <2>2. body \in Images
    BY <1>1, NothingTypes DEF Bodies, Unknown, Images, Tags, WriterSet
  <2>3. files' \in [Names -> FileSet]
    BY <1>1, <2>1, <2>2 DEF FileSet
  <2>4. \A n \in {"rename", "frn_rename"} : [writer EXCEPT ![t].step = n] \in [Threads -> WriterSet]
    BY <1>1 DEF WriterSet, Steps
  <2>5. writer' \in [Threads -> WriterSet] /\ UNCHANGED <<scratch, view, handler, received, starts, lost, clash>>
    BY <2>4, <1>5 DEF WriteBody
  <2> QED  BY <1>0, <2>3, <2>5 DEF TypeOK, FileSet, WriterSet
<1>6. ASSUME NEW from \in Names, NEW to \in Names, NEW n \in Steps, Rename(t, from, to, n) PROVE TypeOK'
  <2>1. CASE Abandon(t)
    BY <1>0, <2>1, AbandonTypes
  <2>2. CASE /\ files' = [files EXCEPT ![to] = files[from], ![from] = Missing]
             /\ writer' = [p \in Threads |->
                  [writer[p] EXCEPT
                     !.step = IF p = t THEN n ELSE @,
                     !.file = IF p = t THEN "none" ELSE Follow(@, from, to),
                     !.next.base = Follow(@, from, to)]]
             /\ view' = [view EXCEPT !.base = Follow(@, from, to)]
             /\ IF n = "open" THEN Drops(t) ELSE UNCHANGED scratch
             /\ UNCHANGED <<handler, received, starts, lost, clash>>
    <3>1. \A v \in Views : [v EXCEPT !.base = Follow(@, from, to)] \in Views
      BY DEF Views, Follow, Names
    <3>2. \A x \in Names \cup {"none", "gone"} : Follow(x, from, to) \in Names \cup {"none", "gone"}
      BY DEF Follow
    <3>3. ASSUME NEW p \in Threads PROVE writer'[p] \in WriterSet
      <4> DEFINE step == IF p = t THEN n ELSE writer[p].step
                 file == IF p = t THEN "none" ELSE Follow(writer[p].file, from, to)
                 next == [writer[p].next EXCEPT !.base = Follow(@, from, to)]
      <4>1. writer[p] \in WriterSet /\ step \in Steps /\ file \in Names \cup {"none", "gone"} /\ next \in Views
        BY <1>1, <3>1, <3>2 DEF WriterSet
      <4>2. writer'[p] = [[[writer[p] EXCEPT !.step = step] EXCEPT !.file = file] EXCEPT !.next.base = Follow(@, from, to)]
        BY <2>2
      <4>3. writer'[p] = [[[writer[p] EXCEPT !.step = step] EXCEPT !.file = file] EXCEPT !.next = next]
        BY <4>1, <4>2 DEF WriterSet
      <4> HIDE DEF step, file, next
      <4> QED  BY <4>1, <4>3 DEF WriterSet
    <3>4. writer' \in [Threads -> WriterSet]
      BY <2>2, <3>3
    <3>5. files' \in [Names -> FileSet] /\ view' \in Views
      BY <1>1, <2>2, <3>1, NothingTypes
    <3>6. scratch' \in [Threads -> [Spools -> Holds]]
      BY <1>0, <1>1, <2>2, DroppedTypes
    <3> QED  BY <1>0, <2>2, <3>4, <3>5, <3>6 DEF TypeOK, FileSet, WriterSet
  <2> QED  BY <1>6, <2>1, <2>2, ZenonT(60) DEF Rename
<1>7. CASE RenameSnapshot(t)
  BY <1>6, <1>7 DEF RenameSnapshot, Names, Steps
<1>8. CASE RenameSidecar(t)
  BY <1>6, <1>8 DEF RenameSidecar, Names, Steps
<1>9. CASE Open(t)
  <2>1. CASE Abandon(t)
    BY <1>0, <2>1, AbandonTypes
  <2>2. CASE /\ writer' = [writer EXCEPT ![t].step = "publish", ![t].next = opened]
             /\ UNCHANGED <<files, scratch, view, handler, received, starts, lost, clash>>
    <3>1. opened \in Views
      BY <1>1, OpenedTypes
    <3>2. [[writer[t] EXCEPT !.step = "publish"] EXCEPT !.next = opened] \in WriterSet
      BY <1>1, <3>1 DEF WriterSet, Steps
    <3>3. writer' \in [Threads -> WriterSet]
      BY <1>1, <2>2, <3>2
    <3> QED  BY <1>0, <2>2, <3>3 DEF TypeOK, WriterSet
  <2> QED  BY <1>9, <2>1, <2>2 DEF Open
<1>10. CASE Publish(t)
  <2>1. view' \in Views /\ writer' \in [Threads -> WriterSet]
    BY <1>1, <1>10, NothingTypes DEF Publish, WriterSet
  <2>2. handler' \in Handlers /\ lost' \in BOOLEAN /\ UNCHANGED <<files, scratch, received, starts, clash>>
    BY <1>1, <1>10 DEF Publish, Handlers
  <2> QED  BY <1>0, <2>1, <2>2 DEF TypeOK, WriterSet, Handlers
<1> QED  BY <1>3, <1>4, <1>5, <1>7, <1>8, <1>9, <1>10

\* A thread sets out, also from an image that is no longer followed.
LEMMA BeginTypes ==
  ASSUME TypeOK, NEW t \in Threads,
         NEW job \in {"none", "start", "build", "batch", "idle"}, NEW step \in Steps,
         NEW image \in Images, NEW next \in Views, Begin(t, job, step, image, next)
  PROVE  writer' \in [Threads -> WriterSet]
<1>1. writer \in [Threads -> WriterSet] /\ clash \in BOOLEAN
  BY Types
<1> DEFINE img == Image(clash, image)
           r == [step |-> step, job |-> job, image |-> img, file |-> "none", next |-> next]
<1>2. img \in Images
  BY <1>1, ImageTypes
<1>3. writer' = [writer EXCEPT ![t] = r]
  BY DEF Begin
<1> HIDE DEF img
<1>4. r \in WriterSet
  BY <1>2 DEF WriterSet
<1> HIDE DEF r
<1> QED  BY <1>1, <1>3, <1>4

\* The steps of the worker, the handler and a start.
LEMMA TurnTypes ==
  ASSUME TypeOK, Take \/ IdlePersist \/ Call \/ Load \/ Resume \/ FirstBuild
  PROVE  TypeOK'
<1>1. /\ files \in [Names -> FileSet] /\ writer \in [Threads -> WriterSet] /\ view \in Views /\ handler \in Handlers
      /\ received \in 0 .. MaxChanges /\ starts \in 0 .. MaxStarts /\ MaxChanges \in Nat /\ MaxStarts \in Nat
  BY Types, NothingTypes
<1>2. /\ "names" \in Steps /\ "create" \in Steps /\ "publish" \in Steps
      /\ "worker" \in Threads /\ "handler" \in Threads /\ NoView \in Views
  BY NothingTypes DEF Steps, Spools, Threads
<1>3. ImageOf(view) \in Images
  BY <1>1 DEF ImageOf, Images, Views
<1>4. received' \in 0 .. MaxChanges => Enumerated \in Images
  BY <1>1 DEF Enumerated, Images
<1>5. CASE Take
  <2> DEFINE v == Applied(view, received')
             S == view.covers \cup {received'}
  <2>1. received' \in 1 .. MaxChanges /\ UNCHANGED <<files, scratch, view, handler, starts, lost, clash>>
    BY <1>1, <1>5 DEF Take
  <2>2. S \in SUBSET (1 .. MaxChanges) /\ received' \in 0 .. MaxChanges
    BY <1>1, <2>1 DEF Views
  <2>3. v = [[view EXCEPT !.covers = S] EXCEPT !.cursor = received']
    BY <1>1 DEF Applied, Views
  <2>4. \/ Begin("worker", "batch", "publish", ImageOf(v), v)
        \/ Begin("worker", "batch", "names", ImageOf(v), v)
        \/ Begin("worker", "build", "create", Enumerated, NoView)
    BY <1>5 DEF Take, Applied
  <2> HIDE DEF v, S
  <2>5. v \in Views
    BY <1>1, <2>2, <2>3 DEF Views
  <2>6. ImageOf(v) \in Images
    BY <2>5 DEF ImageOf, Images, Views
  <2>7. writer' \in [Threads -> WriterSet]
    <3>1. CASE Begin("worker", "batch", "publish", ImageOf(v), v)
      BY <3>1, <1>2, <2>5, <2>6, BeginTypes
    <3>2. CASE Begin("worker", "batch", "names", ImageOf(v), v)
      BY <3>2, <1>2, <2>5, <2>6, BeginTypes
    <3>3. CASE Begin("worker", "build", "create", Enumerated, NoView)
      BY <3>3, <1>2, <1>4, <2>2, BeginTypes
    <3> QED  BY <2>4, <3>1, <3>2, <3>3
  <2> QED  BY <2>1, <2>2, <2>7 DEF TypeOK, WriterSet
<1>6. CASE IdlePersist
  <2>1. writer' \in [Threads -> WriterSet]
    BY <1>2, <1>3, <1>6, BeginTypes DEF IdlePersist
  <2> QED  BY <1>6, <2>1 DEF IdlePersist, TypeOK, WriterSet
<1>7. CASE Call
  <2>1. handler' \in Handlers
    BY <1>1, <1>7 DEF Call, Handlers
  <2> QED  BY <1>7, <2>1 DEF Call, TypeOK, Handlers
<1>8. CASE Load
  <2>1. handler' \in Handlers
    BY <1>1, <1>8 DEF Load, Handlers, Views
  <2>2. writer' \in [Threads -> WriterSet]
    <3>1. CASE Begin("handler", "idle", "names", ImageOf(view), NoView)
      BY <1>2, <1>3, <3>1, BeginTypes
    <3> QED  BY <1>1, <1>8, <3>1 DEF Load
  <2> QED  BY <1>8, <2>1, <2>2 DEF Load, TypeOK, Handlers, WriterSet
<1>9. CASE Resume
  <2> DEFINE covers == opened.covers \cup (opened.cursor + 1 .. received')
  <2>1. /\ view' = [opened EXCEPT !.covers = @ \cup (opened.cursor + 1 .. received'), !.cursor = received']
        /\ received' \in received .. MaxChanges /\ starts' = starts + 1 /\ starts < MaxStarts
        /\ UNCHANGED <<files, scratch, writer, handler, lost, clash>>
    BY <1>9 DEF Resume
  <2>2. opened \in Views
    BY <1>1, OpenedTypes
  <2> HIDE DEF opened
  <2>3. covers \in SUBSET (1 .. MaxChanges) /\ received' \in 0 .. MaxChanges /\ starts' \in 0 .. MaxStarts
    BY <1>1, <2>1, <2>2 DEF Views
  <2>4. view' = [[opened EXCEPT !.covers = covers] EXCEPT !.cursor = received']
    BY <2>1, <2>2 DEF Views
  <2> HIDE DEF covers
  <2>5. view' \in Views
    BY <2>2, <2>3, <2>4 DEF Views
  <2> QED  BY <2>1, <2>3, <2>5 DEF TypeOK
<1>10. CASE FirstBuild
  <2>1. received' \in 0 .. MaxChanges /\ starts' \in 0 .. MaxStarts
    BY <1>1, <1>10 DEF FirstBuild
  <2>2. writer' \in [Threads -> WriterSet]
    BY <1>2, <1>4, <1>10, <2>1, BeginTypes DEF FirstBuild
  <2> QED  BY <1>10, <2>1, <2>2 DEF FirstBuild, TypeOK, WriterSet
<1> QED  BY <1>5, <1>6, <1>7, <1>8, <1>9, <1>10

-----------------------------------------------------------------------------
(* Every step. *)

LEMMA TypeStep ==
  ASSUME FilesInv, [Next]_vars
  PROVE  TypeOK'
<1>0. TypeOK
  BY DEF FilesInv
<1>1. ASSUME NEW t \in Threads, Write(t) PROVE TypeOK'
  BY <1>0, <1>1, SpoolTypes, SaveTypes DEF Write
<1>2. ASSUME NEW t \in Threads, Fail(t) PROVE TypeOK'
  BY <1>0, <1>2, AbandonTypes DEF Fail
<1>3. CASE Exit \/ Crash
  BY <1>0, <1>3, GoneTypes DEF Exit, Crash
<1>4. CASE UNCHANGED vars
  BY <1>0, <1>4 DEF vars, TypeOK
<1> QED  BY <1>0, <1>1, <1>2, <1>3, <1>4, TurnTypes DEF Next

\* A spool that is opened, mapped or grown, and the merge: the snapshot's files
\* are left alone, unless the open fails or the growing ends the process.
LEMMA ResizedStep ==
  ASSUME Sound, NEW t \in Threads, NEW s \in Spools, At(t, s), NEW hold, NEW n \in {"names", "columns", "merge"},
         Resized(t, s, hold, n), ~clash'
  PROVE  Whole'
<1>1. writer \in [Threads -> WriterSet] /\ files \in [Names -> FileSet]
  BY Types DEF Sound
<1> DEFINE w == [writer EXCEPT ![t].step = n]
           meets == s = "names" /\ \E p \in Sharers(t, s) : At(p, "grow")
<1>2. w \in [Threads -> WriterSet]
  BY <1>1 DEF WriterSet, Steps, Spools
<1>3. Leaves(meets, files, w)
  BY DEF Resized
<1> HIDE DEF w, meets
<1>4. writer' = w /\ UNCHANGED <<files, view, handler, received, starts, lost>>
  BY <1>1, <1>2, <1>3, Unclashed
<1>5. Spooling(t) /\ n \in {"names", "columns", "merge", "grow", "create"}
  BY DEF Spooling, At, Spools
<1> QED  BY <1>4, <1>5, SpoolStep DEF w

LEMMA SpoolsStep ==
  ASSUME Sound, NEW t \in Threads, ~clash',
         (\E s \in Spools : OpenSpool(t, s) \/ MapSpool(t, s)) \/ Merge(t) \/ Regrow(t)
  PROVE  Whole'
<1>1. writer \in [Threads -> WriterSet] /\ files \in [Names -> FileSet]
  BY Types DEF Sound
<1>2. ASSUME NEW s \in Spools, OpenSpool(t, s) PROVE Whole'
  <2>1. At(t, s) /\ writer[t].step \notin {"none", "publish"} /\ s \in {"names", "columns", "merge"}
    BY <1>2 DEF OpenSpool, At, Spools
  <2>2. Abandon(t) \/ Resized(t, s, "open", s)
    BY <1>2 DEF OpenSpool
  <2> QED  BY <2>1, <2>2, AbandonStep, ResizedStep
<1>3. ASSUME NEW s \in Spools, MapSpool(t, s) PROVE Whole'
  <2> DEFINE hold == IF scratch[t][s] = "apart" THEN "apart" ELSE "mapped"
             n == IF s = "names" THEN "columns" ELSE "merge"
  <2>1. At(t, s) /\ Resized(t, s, hold, n) /\ n \in {"names", "columns", "merge"}
    BY <1>3 DEF MapSpool
  <2> HIDE DEF hold, n
  <2> QED  BY <2>1, ResizedStep
<1>4. CASE Merge(t)
  <2>1. PICK grows \in BOOLEAN :
          Leaves(\E p \in Threads \ {t} : Spooled(p),
                 files, [writer EXCEPT ![t].step = IF grows THEN "grow" ELSE "create"])
    BY <1>4 DEF Merge
  <2> DEFINE n == IF grows THEN "grow" ELSE "create"
             w == [writer EXCEPT ![t].step = n]
             meets == \E p \in Threads \ {t} : Spooled(p)
  <2>2. n \in {"names", "columns", "merge", "grow", "create"} /\ n \in Steps
    BY DEF Steps
  <2>3. Leaves(meets, files, w)
    BY <2>1
  <2> HIDE DEF n, meets
  <2>4. w \in [Threads -> WriterSet]
    BY <1>1, <2>2 DEF WriterSet
  <2> HIDE DEF w
  <2>5. writer' = w /\ UNCHANGED <<files, view, handler, received, starts, lost>>
    BY <1>1, <2>3, <2>4, Unclashed
  <2>6. Spooling(t)
    BY <1>4 DEF Merge, Spooling, At
  <2> QED  BY <2>2, <2>5, <2>6, SpoolStep DEF w
<1>5. CASE Regrow(t)
  <2>1. CASE Gone
    BY <2>1, GoneStep
  <2>2. CASE /\ writer' = [writer EXCEPT ![t].step = "create"]
             /\ UNCHANGED <<files, view, handler, received, starts, lost>>
    <3>1. Spooling(t)
      BY <1>5 DEF Regrow, Spooling, At
    <3> QED  BY <2>2, <3>1, SpoolStep
  <2> QED  BY <1>5, <2>1, <2>2 DEF Regrow
<1> QED  BY <1>2, <1>3, <1>4, <1>5

\* The steps on the snapshot and its sidecar.
LEMMA SaveStep ==
  ASSUME Sound, NEW t \in Threads, ~clash',
         \/ CreateSnapshot(t) \/ WriteBody(t) \/ RenameSnapshot(t)
         \/ CreateSidecar(t) \/ RenameSidecar(t) \/ Open(t) \/ Publish(t)
  PROVE  Whole'
<1>1. CASE RenameSnapshot(t)
  <2>1. At(t, "rename") /\ Rename(t, "tmp", "path", "frn_create") /\ writer[t].step \notin {"none", "publish"}
    BY <1>1 DEF RenameSnapshot, At
  <2>2. CASE files["tmp"] # Missing
    BY <2>1, <2>2, RenameSnapshotStep
  <2>3. CASE files["tmp"] = Missing
    <3>1. Abandon(t)
      BY <2>1, <2>3 DEF Rename
    <3> QED  BY <2>1, <3>1, AbandonStep
  <2> QED  BY <2>2, <2>3
<1>2. CASE RenameSidecar(t)
  <2>1. At(t, "frn_rename") /\ Rename(t, "frn.tmp", "frn", "open") /\ writer[t].step \notin {"none", "publish"}
    BY <1>2 DEF RenameSidecar, At
  <2>2. CASE files["frn.tmp"] # Missing
    BY <2>1, <2>2, RenameSidecarStep
  <2>3. CASE files["frn.tmp"] = Missing
    <3>1. Abandon(t)
      BY <2>1, <2>3 DEF Rename
    <3> QED  BY <2>1, <3>1, AbandonStep
  <2> QED  BY <2>2, <2>3
<1>3. CASE Open(t)
  <2>1. CASE readable
    BY <1>3, <2>1, OpenStep
  <2>2. CASE ~readable
    <3>1. Abandon(t) /\ writer[t].step \notin {"none", "publish"}
      BY <1>3, <2>2 DEF Open, At
    <3> QED  BY <3>1, AbandonStep
  <2> QED  BY <2>1, <2>2
<1> QED  BY <1>1, <1>2, <1>3, CreateSnapshotStep, CreateSidecarStep, WriteBodyStep, PublishStep

\* A clash stays one.
LEMMA ClashStays ==
  ASSUME TypeOK, [Next]_vars, ~clash'
  PROVE  ~clash
<1>1. ASSUME NEW t \in Threads, Write(t) PROVE ~clash
  <2>1. CASE \E s \in Spools : OpenSpool(t, s) \/ MapSpool(t, s)
    BY <2>1 DEF OpenSpool, MapSpool, Resized, Leaves, Abandon
  <2>2. CASE Merge(t) \/ Regrow(t)
    BY <2>2 DEF Merge, Leaves, Regrow, Gone
  <2>3. CASE CreateSnapshot(t) \/ CreateSidecar(t)
    BY <2>3 DEF CreateSnapshot, CreateSidecar, Create, Leaves
  <2>4. CASE RenameSnapshot(t) \/ RenameSidecar(t)
    BY <2>4 DEF RenameSnapshot, RenameSidecar, Rename, Abandon
  <2>5. CASE WriteBody(t) \/ Open(t) \/ Publish(t)
    BY <2>5 DEF WriteBody, Open, Publish, Abandon
  <2> QED  BY <1>1, <2>1, <2>2, <2>3, <2>4, <2>5 DEF Write
<1>2. ASSUME NEW t \in Threads, Fail(t) PROVE ~clash
  BY <1>2 DEF Fail, Abandon
<1>3. CASE Take \/ IdlePersist \/ Call \/ Load
  BY <1>3 DEF Take, IdlePersist, Call, Load
<1>4. CASE Exit \/ Crash \/ Resume \/ FirstBuild
  BY <1>4 DEF Exit, Crash, Gone, Resume, FirstBuild
<1>5. CASE UNCHANGED vars
  BY <1>5 DEF vars
<1> QED  BY <1>1, <1>2, <1>3, <1>4, <1>5 DEF Next

LEMMA StepInv == FilesInv /\ [Next]_vars => FilesInv'
<1> SUFFICES ASSUME FilesInv, [Next]_vars, ~clash' PROVE Whole'
  BY TypeStep DEF FilesInv
<1>1. Sound
  BY ClashStays DEF FilesInv, Sound
<1>2. ASSUME NEW t \in Threads, Write(t) PROVE Whole'
  BY <1>1, <1>2, SpoolsStep, SaveStep DEF Write
<1>3. ASSUME NEW t \in Threads, Fail(t) PROVE Whole'
  BY <1>1, <1>3, AbandonStep DEF Fail
<1>4. CASE Take \/ IdlePersist \/ Call \/ Load
  BY <1>1, <1>4, TakeStep, IdlePersistStep, CallStep, LoadStep
<1>5. CASE Exit \/ Crash \/ Resume \/ FirstBuild
  BY <1>1, <1>5, GoneStep, ResumeStep, FirstBuildStep DEF Exit, Crash
<1>6. CASE UNCHANGED vars
  <2>1. Whole
    BY <1>1 DEF Sound
  <2>2. (\A t \in Threads : WriterOK(t)') /\ BaseOK(view)' /\ TurnsOK' /\ FilesOK' /\ TagsOK'
    BY <2>1, <1>6 DEF Whole, vars, WriterOK, Spooling, BaseOK, TurnsOK, HasOpen, Up, FilesOK, At,
       TagsOK, Written
  <2>3. CursorsOK' /\ PositionKept' /\ FileAhead' /\ ClaimsOK'
    BY <2>1, <1>6 DEF Whole, vars, CursorsOK, Cursors, Written, PositionKept, Due, Kept, readable,
       FileAhead, ClaimsOK, Claims, Shows, BeforeRename, Spooling, AfterRename, Up
  <2> QED  BY <2>2, <2>3 DEF Whole
<1> QED  BY <1>2, <1>3, <1>4, <1>5, <1>6 DEF Next

-----------------------------------------------------------------------------
(* The theorems. *)

LEMMA InvCorrect == Spec => []FilesInv
<1> QED  BY InitInv, StepInv, PTL DEF Spec

\* The files, the views and the two threads keep their types, whatever the two
\* write over each other: five tags are enough, so fresh_snapshot_tag always
\* finds one (snapshot/mod.rs).
THEOREM TypeCorrect == Spec => []TypeOK
<1>1. FilesInv => TypeOK
  BY DEF FilesInv
<1> QED  BY <1>1, InvCorrect, PTL

\* However the worker and the shutdown handler interleave, fail and die, as long
\* as they have not written one file at once: no write reaches the file a
\* published view is mapped from, and what has the snapshot's name is a whole
\* snapshot (store.rs, save_with_sidecar).
THEOREM Intact == Spec => []SnapshotIntact
<1>1. FilesInv => SnapshotIntact
  <2> SUFFICES ASSUME FilesInv, ~clash PROVE MappingUnchanged /\ (files["path"] # Missing => readable)
    BY DEF SnapshotIntact
  <2>1. BaseOK(view) /\ FilesOK
    BY DEF FilesInv, Whole
  <2>2. MappingUnchanged
    BY <2>1 DEF BaseOK, NoView, MappingUnchanged
  <2>3. files["path"] # Missing => readable
    BY <2>1 DEF FilesOK, readable, NoImage
  <2> QED  BY <2>2, <2>3
<1> QED  BY <1>1, InvCorrect, PTL

\* A sidecar whose tag is the snapshot's numbers the snapshot's records, between
\* any two steps of two threads that have not written one file at once, and
\* after any crash (FrnMap::open).
THEOREM SidecarMatches == Spec => []SidecarMatchesSnapshot
<1>1. FilesInv => SidecarMatchesSnapshot
  <2> SUFFICES ASSUME FilesInv, ~clash, readable, paired PROVE files["frn"].body = files["path"].body
    BY DEF SidecarMatchesSnapshot
  <2>1. FilesOK /\ TagsOK
    BY DEF FilesInv, Whole
  <2>2. files["frn"].tag # None /\ files["path"].tag = files["frn"].tag
    BY DEF paired
  <2>3. files["frn"].body.tag = files["frn"].tag /\ files["path"].body.tag = files["path"].tag
    BY <2>1, <2>2 DEF FilesOK, Missing
  <2>4. files["frn"].body \in Written /\ files["path"].body \in Written
    BY DEF Written, Names
  <2> QED  BY <2>1, <2>2, <2>3, <2>4 DEF TagsOK
<1> QED  BY <1>1, InvCorrect, PTL

\* As long as no rebuild has failed, no view was published that lacks what
\* another had, and the two threads have not written one file at once, neither
\* what a start would open nor what is shown claims a position whose changes it
\* does not hold.
THEOREM Honest == Spec => []NothingOverclaimed
<1>1. FilesInv => NothingOverclaimed
  <2> SUFFICES ASSUME FilesInv, ~lost, ~clash
               PROVE  1 .. opened.cursor \subseteq opened.covers /\ 1 .. view.cursor \subseteq view.covers
    BY DEF NothingOverclaimed
  <2>1. TypeOK /\ ClaimsOK
    BY DEF FilesInv, Whole
  <2>2. opened.covers = files["path"].body.covers /\ opened.cursor = files["path"].body.cursor
    BY <2>1, Types, OpenedTypes
  <2>3. files["path"].body \in Written
    BY DEF Written, Names
  <2> QED  BY <2>1, <2>2, <2>3 DEF ClaimsOK, Claims
<1> QED  BY <1>1, InvCorrect, PTL

\* A shutdown that has gone through leaves a snapshot at least as new as the
\* view the handler found, whatever the worker was doing meanwhile, a rebuild
\* included, as long as the two have not written one file at once
\* (handle_console_ctrl).
THEOREM ShutdownKeeps == Spec => []ShutdownSaves
<1>1. FilesInv => ShutdownSaves
  <2> SUFFICES ASSUME FilesInv, ~clash, handler.state = "after" PROVE readable /\ opened.cursor >= handler.cursor
    BY DEF ShutdownSaves
  <2>1. TypeOK /\ PositionKept
    BY DEF FilesInv, Whole
  <2>2. opened.cursor = files["path"].body.cursor /\ opened \in Views
    BY <2>1, Types, OpenedTypes
  <2>3. readable /\ handler.cursor <= files["path"].body.cursor
    BY <2>1 DEF PositionKept, Kept, Due
  <2>4. opened.cursor \in Int /\ handler.cursor \in Int
    BY <2>1, <2>2, Types DEF Views, Handlers
  <2> QED  BY <2>2, <2>3, <2>4
<1> QED  BY <1>1, InvCorrect, PTL
=============================================================================
