-------------------------- MODULE SharedIndexProofs --------------------------
(***************************************************************************)
(* For any number of clients, changes, generations and restarts: the       *)
(* cache's key names one base, and so no client has a mapping of one base  *)
(* with the overlay of another, and a window begins with a mapping that is *)
(* as new as what was published when its client asked.                     *)
(***************************************************************************)
EXTENDS SharedIndex, TLAPS, SequenceTheorems

-----------------------------------------------------------------------------
(* The inductive invariant. *)

\* The counters: the published view has the last generation, and a base is
\* written with a generation of its own.
CountersOK ==
  /\ bases <= (epoch - 1) * MaxGeneration + generation
  /\ view.epoch = epoch /\ view.generation = generation
  /\ view.base \in 1 .. bases /\ view.seen <= volume

\* The cache's key: among the views in use, and between them and the cache, a
\* generation names one base.
Loaded == {view} \cup {snapshot[c] : c \in Clients}

GenerationNamesBase ==
  /\ \A v, w \in Loaded : v.generation = w.generation => v.base = w.base
  /\ \A i \in DOMAIN cache :
       /\ cache[i].generation <= generation
       /\ \A v \in Loaded : cache[i].generation = v.generation => cache[i].base = v.base

\* What a thread has loaded is of this daemon, and its client waits for it.
SnapshotOK(c) ==
  snapshot[c] # NoView =>
    /\ client[c] = "asked" /\ conn[c] # 0 /\ answer[c] = NoAnswer
    /\ snapshot[c].epoch = epoch /\ snapshot[c].generation \in 1 .. generation
    /\ snapshot[c].base \in 1 .. bases

\* Nothing of this daemon's is newer than the view, and what has its
\* generation is as new as it is.
Follows(m) ==
  /\ m.epoch <= epoch
  /\ m.epoch = epoch => /\ m.generation <= generation
                        /\ m.generation = generation => m.seen = view.seen

FollowOK(c) == Follows(snapshot[c]) /\ Follows(answer[c].mapping) /\ Follows(local[c])

\* An answer is coherent, is waited for, comes from the daemon that was asked
\* and is no older than what it had published, and confirms no more than there is.
AnswerOK(c) ==
  answer[c] # NoAnswer =>
    /\ answer[c].kind \in {"current", "section"} /\ client[c] = "asked"
    /\ answer[c].mapping.generation # 0
    /\ answer[c].mapping.base = answer[c].mapping.overlayOf
    /\ answer[c].mapping.epoch = floor[c].epoch /\ answer[c].mapping.seen >= floor[c].seen
    /\ /\ answer[c].kind = "current" /\ local[c].epoch = answer[c].mapping.epoch
       /\ local[c].generation = answer[c].mapping.generation
       => local[c].seen = answer[c].mapping.seen

\* What was published when a client asked is no newer than what its thread
\* has to answer with, and a client asks the daemon that runs.
NotBelow(m, c) == m.epoch = floor[c].epoch => m.seen >= floor[c].seen

FloorOK(c) ==
  /\ floor[c].epoch <= epoch
  /\ NotBelow(view, c)
  /\ snapshot[c] # NoView => NotBelow(snapshot[c], c)
  /\ client[c] = "asked" => ~inWindow[c] /\ (conn[c] # 0 => floor[c].epoch = epoch)

\* The mapping a client has.
LocalOK(c) ==
  /\ local[c].base = local[c].overlayOf
  /\ inWindow[c] => local[c] # NoMapping /\ NotBelow(local[c], c)

ClientInv(c) == SnapshotOK(c) /\ FollowOK(c) /\ AnswerOK(c) /\ FloorOK(c) /\ LocalOK(c)

SharedInv == TypeOK /\ CountersOK /\ GenerationNamesBase /\ \A c \in Clients : ClientInv(c)

-----------------------------------------------------------------------------
(* The cache's operations. *)

LEMMA BoundsArePositive ==
  /\ MaxChanges \in Nat /\ MaxGeneration \in Nat /\ MaxGeneration >= 1 /\ MaxEpoch \in Nat /\ MaxEpoch >= 1
  /\ MaxBases \in Nat /\ MaxBases >= 1
<1>1. /\ MaxChanges \in Nat /\ MaxGeneration \in Nat /\ MaxGeneration >= 1
      /\ MaxEpoch \in Nat /\ MaxEpoch >= 1
  BY SharedIndexAssumption
<1>2. MaxEpoch * MaxGeneration \in Nat /\ MaxEpoch * MaxGeneration >= 1
  BY <1>1, Z3
<1> QED  BY <1>1, <1>2 DEF MaxBases

LEMMA CacheTypes ==
  ASSUME TypeOK
  PROVE  /\ cache \in Seq([generation : 1 .. MaxGeneration, base : 1 .. MaxBases])
         /\ Len(cache) \in 0 .. 2 /\ DOMAIN cache = 1 .. Len(cache)
         /\ Len(cache) <= SHARED_SECTION_CACHE_GENERATIONS
<1>1. cache \in Seq([generation : 1 .. MaxGeneration, base : 1 .. MaxBases]) /\ Len(cache) <= 2
      /\ Len(cache) <= SHARED_SECTION_CACHE_GENERATIONS
  BY DEF TypeOK, SHARED_SECTION_CACHE_GENERATIONS
<1>2. Len(cache) \in Nat /\ DOMAIN cache = 1 .. Len(cache)
  BY <1>1, LenProperties
<1> QED  BY <1>1, <1>2

\* find returns an entry of the generation it is asked for.
LEMMA FoundIsCached ==
  ASSUME TypeOK, NEW g, CachedFor(g) # {}
  PROVE  \E i \in DOMAIN cache : cache[i].generation = g /\ Found(g) = cache[i]
<1>2. DOMAIN cache \subseteq {1, 2}
  BY CacheTypes
<1>3. \E i \in CachedFor(g) : \A j \in CachedFor(g) : i <= j
  BY <1>2 DEF CachedFor
<1>4. PICK i \in CachedFor(g) : i = CHOOSE k \in CachedFor(g) : \A j \in CachedFor(g) : k <= j
  BY <1>3
<1> QED  BY <1>4 DEF CachedFor, Found

\* What a look-up leaves in the cache was there or is what it has just made.
LEMMA CacheWithStep ==
  ASSUME TypeOK, NEW v, v.generation \in 1 .. MaxGeneration, NEW base \in 1 .. MaxBases
  PROVE  /\ CacheWith(v, base) \in Seq([generation : 1 .. MaxGeneration, base : 1 .. MaxBases])
         /\ Len(CacheWith(v, base)) <= SHARED_SECTION_CACHE_GENERATIONS
         /\ \A i \in DOMAIN CacheWith(v, base) :
              \/ \E j \in DOMAIN cache : CacheWith(v, base)[i] = cache[j]
              \/ CacheWith(v, base)[i] = [generation |-> v.generation, base |-> base]
<1> DEFINE E == [generation : 1 .. MaxGeneration, base : 1 .. MaxBases]
           e == [generation |-> v.generation, base |-> base]
           pushed == Append(cache, e)
<1>1. cache \in Seq(E) /\ Len(cache) \in 0 .. 2 /\ e \in E
  BY CacheTypes
<1> HIDE DEF E, e
<1>2. /\ pushed \in Seq(E) /\ Len(pushed) = Len(cache) + 1
      /\ \A i \in DOMAIN pushed :
           \/ i \in DOMAIN cache /\ pushed[i] = cache[i]
           \/ pushed[i] = e
  BY <1>1, AppendProperties
<1> HIDE DEF pushed
<1>3. /\ Push(e) \in Seq(E) /\ Len(Push(e)) <= 2
      /\ \A i \in DOMAIN Push(e) : (\E j \in DOMAIN cache : Push(e)[i] = cache[j]) \/ Push(e)[i] = e
  <2>1. CASE Len(pushed) > 2
    <3>1. /\ Tail(pushed) \in Seq(E) /\ Len(Tail(pushed)) = Len(pushed) - 1
          /\ \A i \in DOMAIN Tail(pushed) : Tail(pushed)[i] = pushed[i + 1] /\ i + 1 \in DOMAIN pushed
      BY <1>2, <2>1
    <3>2. Push(e) = Tail(pushed)
      BY <2>1 DEF Push, pushed, SHARED_SECTION_CACHE_GENERATIONS
    <3> QED  BY <3>1, <3>2, <1>1, <1>2
  <2>2. CASE ~(Len(pushed) > 2)
    <3>1. Push(e) = pushed
      BY <2>2 DEF Push, pushed, SHARED_SECTION_CACHE_GENERATIONS
    <3> QED  BY <3>1, <1>1, <1>2, <2>2
  <2> QED  BY <2>1, <2>2
<1>4. CacheWith(v, base) = IF CachedFor(v.generation) = {} THEN Push(e) ELSE cache
  BY DEF CacheWith, e
<1>5. CASE CachedFor(v.generation) = {}
  <2>1. CacheWith(v, base) = Push(e)
    BY <1>4, <1>5
  <2> QED  BY <2>1, <1>3 DEF SHARED_SECTION_CACHE_GENERATIONS, E, e
<1>6. CASE CachedFor(v.generation) # {}
  <2>1. CacheWith(v, base) = cache
    BY <1>4, <1>6
  <2>2. \A i \in DOMAIN cache : \E j \in DOMAIN cache : cache[i] = cache[j]
    OBVIOUS
  <2>3. cache \in Seq(E) /\ Len(cache) <= SHARED_SECTION_CACHE_GENERATIONS
    BY CacheTypes DEF E
  <2>4. \A i \in DOMAIN CacheWith(v, base) :
          \E j \in DOMAIN cache : CacheWith(v, base)[i] = cache[j]
    BY <2>1, <2>2
  <2>5. CacheWith(v, base) \in Seq(E) /\ Len(CacheWith(v, base)) <= SHARED_SECTION_CACHE_GENERATIONS
    BY <2>1, <2>3
  <2> QED  BY <2>4, <2>5 DEF E
<1> QED  BY <1>5, <1>6

\* A view in use gets its own base, from the cache or not.
LEMMA SharedBaseIsOwn ==
  ASSUME TypeOK, GenerationNamesBase, NEW c \in Clients
  PROVE  SharedBase(snapshot[c]) = snapshot[c].base
BY FoundIsCached DEF SharedBase, GenerationNamesBase, Loaded

-----------------------------------------------------------------------------
(* Init and the steps. *)

LEMMA InitInv == Init => SharedInv
<1> SUFFICES ASSUME Init PROVE SharedInv
  OBVIOUS
<1> USE BoundsArePositive
<1>1. TypeOK
  <2>1. NoMapping \in Mappings /\ NoView \in Views /\ NoFloor \in [epoch : 0 .. MaxEpoch, seen : 0 .. MaxChanges]
    BY DEF NoMapping, Mappings, NoView, Views, NoFloor
  <2>2. view \in Views
    BY DEF Init, Views
  <2>3. NoAnswer \in [kind : {"none", "current", "section"}, mapping : Mappings]
    BY <2>1 DEF NoAnswer
  <2> QED  BY <2>1, <2>2, <2>3 DEF Init, TypeOK, SHARED_SECTION_CACHE_GENERATIONS
<1>2. CountersOK
  BY DEF Init, CountersOK
<1>3. \A c \in Clients : ClientInv(c)
  <2> SUFFICES ASSUME NEW c \in Clients PROVE ClientInv(c)
    OBVIOUS
  <2>1. /\ snapshot[c] = NoView /\ answer[c] = NoAnswer /\ local[c] = NoMapping /\ floor[c] = NoFloor
        /\ ~inWindow[c] /\ client[c] = "idle" /\ epoch = 1 /\ view.epoch = 1
    BY DEF Init
  <2> QED
    BY <2>1 DEF ClientInv, SnapshotOK, FollowOK, Follows, AnswerOK, FloorOK, LocalOK, NotBelow,
                NoView, NoAnswer, NoMapping, NoFloor
<1>4. GenerationNamesBase
  BY DEF Init, GenerationNamesBase, Loaded, NoView
<1> QED  BY <1>1, <1>2, <1>3, <1>4 DEF SharedInv

\* Every answer's mapping is of the right type.
LEMMA MappingOfTypes ==
  ASSUME NEW v \in Views, NEW base \in 0 .. MaxBases
  PROVE  MappingOf(v, base) \in Mappings
BY DEF MappingOf, Views, Mappings

LEMMA Distributes == \A a, b, m \in Int : (a + b) * m = a * m + b * m
  BY Z3

\* A daemon writes no more bases than it takes generations.
LEMMA BaseBound ==
  ASSUME NEW e \in 1 .. MaxEpoch, NEW g \in 1 .. MaxGeneration
  PROVE  /\ (e - 1) * MaxGeneration \in Nat /\ (e - 1) * MaxGeneration + g \in 1 .. MaxBases
         /\ ((e + 1) - 1) * MaxGeneration + 1 = (e - 1) * MaxGeneration + MaxGeneration + 1
<1>1. e - 1 \in Nat /\ MaxEpoch - e \in Nat /\ MaxGeneration \in Nat
  BY BoundsArePositive
<1>2. (e - 1) * MaxGeneration \in Nat /\ (MaxEpoch - e) * MaxGeneration \in Nat
  BY <1>1, Z3
<1>3. ((e - 1) + 1) * MaxGeneration = (e - 1) * MaxGeneration + 1 * MaxGeneration
  BY <1>1, Distributes
<1>4. (e + (MaxEpoch - e)) * MaxGeneration = e * MaxGeneration + (MaxEpoch - e) * MaxGeneration
  BY <1>1, Distributes
<1>5. (e - 1) + 1 = e /\ (e + 1) - 1 = e /\ e + (MaxEpoch - e) = MaxEpoch /\ 1 * MaxGeneration = MaxGeneration
  BY BoundsArePositive
<1>6. /\ e * MaxGeneration = (e - 1) * MaxGeneration + MaxGeneration
      /\ ((e + 1) - 1) * MaxGeneration = e * MaxGeneration
      /\ MaxEpoch * MaxGeneration = e * MaxGeneration + (MaxEpoch - e) * MaxGeneration
  BY <1>3, <1>4, <1>5
<1> QED  BY <1>2, <1>6, BoundsArePositive DEF MaxBases

\* No snapshot is later than the published view.
LEMMA SnapshotGenerations ==
  ASSUME TypeOK, \A c \in Clients : ClientInv(c)
  PROVE  \A c \in Clients : snapshot[c].generation \in 0 .. generation
<1>1. generation \in 1 .. MaxGeneration
  BY DEF TypeOK
<1> SUFFICES ASSUME NEW c \in Clients PROVE snapshot[c].generation \in 0 .. generation
  OBVIOUS
<1>2. CASE snapshot[c] = NoView
  BY <1>1, <1>2, BoundsArePositive DEF NoView
<1>3. CASE snapshot[c] # NoView
  BY <1>1, <1>3, BoundsArePositive DEF ClientInv, SnapshotOK
<1> QED  BY <1>2, <1>3

\* The numbers in what clients and threads hold.
LEMMA HeldTypes ==
  ASSUME TypeOK, NEW c \in Clients
  PROVE  /\ snapshot[c] \in Views /\ answer[c].mapping \in Mappings /\ local[c] \in Mappings
         /\ \A m \in {snapshot[c], answer[c].mapping, local[c]} :
              m.epoch \in 0 .. MaxEpoch /\ m.generation \in 0 .. MaxGeneration /\ m.seen \in 0 .. MaxChanges
         /\ floor[c].epoch \in 0 .. MaxEpoch /\ floor[c].seen \in 0 .. MaxChanges
<1>1. /\ snapshot[c] \in Views /\ answer[c].mapping \in Mappings /\ local[c] \in Mappings
      /\ floor[c] \in [epoch : 0 .. MaxEpoch, seen : 0 .. MaxChanges]
  BY DEF TypeOK
<1> QED  BY <1>1 DEF Views, Mappings

-----------------------------------------------------------------------------
(* The worker. *)

\* A change leaves what is published; a new view is later, and no older than
\* the one before.
LEMMA FeedChanges ==
  ASSUME TypeOK, CountersOK, Change \/ PublishDelta \/ PublishBase
  PROVE  /\ UNCHANGED <<epoch, cache, clientVars, threadVars>>
         /\ volume' \in 0 .. MaxChanges /\ generation' \in generation .. MaxGeneration
         /\ bases' \in Int /\ bases' >= bases /\ bases' - bases <= generation' - generation
         /\ disk' \in 1 .. bases'
         /\ view' = [epoch |-> epoch, generation |-> generation', base |-> view'.base, seen |-> view'.seen]
         /\ view'.base \in 1 .. bases' /\ view'.seen \in view.seen .. volume'
         /\ generation' = generation => view' = view
<1> USE BoundsArePositive
<1>0. view \in Views /\ view.epoch = epoch /\ view.generation = generation
  BY DEF TypeOK, CountersOK
<1>1. /\ volume \in 0 .. MaxChanges /\ generation \in 1 .. MaxGeneration
      /\ bases \in 1 .. MaxBases /\ disk \in 1 .. bases
      /\ view = [epoch |-> epoch, generation |-> generation, base |-> view.base, seen |-> view.seen]
      /\ view.base \in 1 .. bases /\ view.seen \in 0 .. volume
  BY DEF TypeOK, CountersOK, Views
<1>2. CASE Change
  BY <1>2, <1>1 DEF Change, feedVars
<1>3. CASE PublishDelta
  <2>1. PICK seen \in view.seen .. volume :
          view' = [view EXCEPT !.generation = generation + 1, !.seen = seen]
    BY <1>3 DEF PublishDelta
  <2>2. view' = [epoch |-> epoch, generation |-> generation + 1, base |-> view.base, seen |-> seen]
    BY <2>1, <1>0, <1>1 DEF Views
  <2>3. /\ generation < MaxGeneration /\ generation' = generation + 1
        /\ UNCHANGED <<volume, epoch, bases, disk, cache, clientVars, threadVars>>
    BY <1>3 DEF PublishDelta
  <2>4. view'.generation = generation' /\ view'.base = view.base /\ view'.seen = seen
    BY <2>2, <2>3
  <2>5. view' = [epoch |-> epoch, generation |-> generation', base |-> view'.base, seen |-> view'.seen]
    BY <2>2, <2>3, <2>4
  <2>6. UNCHANGED <<volume, epoch, bases, disk, cache, clientVars, threadVars>>
    BY <2>3
  <2>7. generation' = generation + 1 /\ generation' \in generation .. MaxGeneration
    BY <1>1, <2>3
  <2> QED  BY <1>1, <2>1, <2>4, <2>5, <2>6, <2>7
<1>4. CASE PublishBase
  <2>1. PICK taken \in {1, 2}, seen \in view.seen .. volume :
          /\ generation + taken <= MaxGeneration
          /\ generation' = generation + taken
          /\ bases' = bases + 1 /\ disk' = bases + 1
          /\ view' = [view EXCEPT !.generation = generation + taken, !.base = bases + 1, !.seen = seen]
          /\ UNCHANGED <<volume, epoch, cache, clientVars, threadVars>>
    BY <1>4 DEF PublishBase
  <2>2. view' = [epoch |-> epoch, generation |-> generation + taken, base |-> bases + 1, seen |-> seen]
    BY <2>1, <1>0, <1>1 DEF Views
  <2>4. view'.generation = generation' /\ view'.base = bases' /\ view'.seen = seen
    BY <2>1, <2>2
  <2>5. view' = [epoch |-> epoch, generation |-> generation', base |-> view'.base, seen |-> view'.seen]
    BY <2>1, <2>2, <2>4
  <2>6. UNCHANGED <<volume, epoch, cache, clientVars, threadVars>>
    BY <2>1
  <2>7. generation' \in generation .. MaxGeneration /\ bases' - bases <= generation' - generation
    BY <1>1, <2>1
  <2> QED  BY <1>1, <2>1, <2>4, <2>5, <2>6, <2>7
<1> QED  BY <1>2, <1>3, <1>4

LEMMA FeedStep ==
  ASSUME SharedInv, Change \/ PublishDelta \/ PublishBase
  PROVE  SharedInv'
<1> USE BoundsArePositive
<1>0. TypeOK /\ CountersOK /\ GenerationNamesBase /\ \A c \in Clients : ClientInv(c)
  BY DEF SharedInv
<1>1. /\ epoch' = epoch /\ cache' = cache /\ client' = client /\ conn' = conn /\ local' = local
      /\ inWindow' = inWindow /\ floor' = floor /\ snapshot' = snapshot /\ answer' = answer
      /\ volume' \in 0 .. MaxChanges /\ generation' \in generation .. MaxGeneration
      /\ bases' \in Int /\ bases' >= bases /\ bases' - bases <= generation' - generation
      /\ disk' \in 1 .. bases'
      /\ view' = [epoch |-> epoch, generation |-> generation', base |-> view'.base, seen |-> view'.seen]
      /\ view'.epoch = epoch /\ view'.generation = generation'
      /\ view'.base \in 1 .. bases' /\ view'.seen \in view.seen .. volume'
      /\ generation' = generation => view' = view
  BY <1>0, FeedChanges DEF clientVars, threadVars
<1>2. /\ generation \in 1 .. MaxGeneration /\ epoch \in 1 .. MaxEpoch /\ bases \in 1 .. MaxBases
      /\ view.seen \in 0 .. MaxChanges /\ generation' \in 1 .. MaxGeneration
  <2>1. /\ generation \in 1 .. MaxGeneration /\ epoch \in 1 .. MaxEpoch /\ bases \in 1 .. MaxBases
        /\ view \in Views
    BY <1>0 DEF TypeOK
  <2>2. view.seen \in 0 .. MaxChanges
    BY <2>1 DEF Views
  <2>3. generation' \in 1 .. MaxGeneration
    BY <2>1, <1>1
  <2> QED  BY <2>1, <2>2, <2>3
<1>3. bases' <= (epoch - 1) * MaxGeneration + generation' /\ bases' \in 1 .. MaxBases
  <2> DEFINE before == (epoch - 1) * MaxGeneration
  <2>1. before + generation \in 1 .. MaxBases /\ before + generation' \in 1 .. MaxBases /\ before \in Int
    <3>1. before + generation \in 1 .. MaxBases /\ before \in Nat
      BY <1>2, BaseBound, Zenon
    <3>2. before + generation' \in 1 .. MaxBases
      BY <1>2, BaseBound, Zenon
    <3> HIDE DEF before
    <3> QED  BY <3>1, <3>2
  <2>2. bases <= before + generation
    BY <1>0 DEF CountersOK
  <2> HIDE DEF before
  <2>3. bases' <= before + generation' /\ bases' \in 1 .. MaxBases
    BY <2>1, <2>2, <1>1, <1>2
  <2> QED  BY <2>3 DEF before
<1>4. TypeOK'
  <2>1. view' \in Views
    BY <1>1, <1>2, <1>3 DEF Views
  <2> QED  BY <1>0, <1>1, <1>2, <1>3, <2>1 DEF TypeOK
<1>5. CountersOK'
  BY <1>1, <1>3 DEF CountersOK
<1>7. GenerationNamesBase'
  <2>1. CASE generation' = generation
    BY <2>1, <1>0, <1>1 DEF GenerationNamesBase, Loaded
  <2>2. CASE generation' > generation
    <3>1. \A v \in Loaded : v = view' \/ v.generation < generation'
      BY <2>2, <1>0, <1>2, SnapshotGenerations DEF Loaded, CountersOK
    <3>2. Loaded' = {view'} \cup {snapshot[c] : c \in Clients}
      BY <1>1 DEF Loaded
    <3>3. \A i \in DOMAIN cache : cache[i].generation < generation'
      <4> SUFFICES ASSUME NEW i \in DOMAIN cache PROVE cache[i].generation < generation'
        OBVIOUS
      <4>1. cache[i] \in [generation : 1 .. MaxGeneration, base : 1 .. MaxBases]
        BY <1>0, CacheTypes, ElementOfSeq
      <4> QED  BY <4>1, <1>0, <1>1, <1>2, <2>2 DEF GenerationNamesBase
    <3>4. \A v \in Loaded' : v = view' \/ (v \in Loaded /\ v.generation < generation')
      BY <3>1, <3>2 DEF Loaded
    <3>5. \A v, w \in Loaded' : v.generation = w.generation => v.base = w.base
      BY <3>4, <1>0, <1>1, <1>2 DEF GenerationNamesBase
    <3>6. \A i \in DOMAIN cache, v \in Loaded' : cache[i].generation = v.generation => cache[i].base = v.base
      BY <3>3, <3>4, <1>0, <1>1, <1>2 DEF GenerationNamesBase
    <3>7. \A i \in DOMAIN cache : cache[i].generation <= generation'
      <4> SUFFICES ASSUME NEW i \in DOMAIN cache PROVE cache[i].generation <= generation'
        OBVIOUS
      <4>1. cache[i] \in [generation : 1 .. MaxGeneration, base : 1 .. MaxBases]
        BY <1>0, CacheTypes, ElementOfSeq
      <4> QED  BY <4>1, <3>3, <1>2
    <3> QED  BY <3>5, <3>6, <3>7, <1>1 DEF GenerationNamesBase
  <2> QED  BY <1>1, <1>2, <2>1, <2>2
<1>8. ASSUME NEW c \in Clients PROVE ClientInv(c)'
  <2>1. ClientInv(c)
    BY <1>0
  <2>2. SnapshotOK(c)'
    BY <2>1, <1>1, <1>2, <1>3 DEF ClientInv, SnapshotOK
  <2>3. FollowOK(c)'
    BY <2>1, <1>0, <1>1, <1>2, HeldTypes DEF ClientInv, FollowOK, Follows
  <2>4. AnswerOK(c)' /\ LocalOK(c)'
    BY <2>1, <1>1 DEF ClientInv, AnswerOK, LocalOK, NotBelow
  <2>5. FloorOK(c)'
    BY <2>1, <1>0, <1>1, <1>2, HeldTypes DEF ClientInv, FloorOK, NotBelow, CountersOK
  <2> QED  BY <2>2, <2>3, <2>4, <2>5 DEF ClientInv
<1> QED  BY <1>4, <1>5, <1>7, <1>8 DEF SharedInv

LEMMA RestartStep ==
  ASSUME SharedInv, Restart
  PROVE  SharedInv'
<1> USE BoundsArePositive
<1>0. TypeOK /\ CountersOK /\ GenerationNamesBase /\ \A c \in Clients : ClientInv(c)
  BY DEF SharedInv
<1>1. /\ epoch' = epoch + 1 /\ epoch' <= MaxEpoch /\ generation' = 1 /\ cache' = <<>>
      /\ snapshot' = [c \in Clients |-> NoView] /\ conn' = [c \in Clients |-> 0]
      /\ volume' = volume /\ client' = client /\ local' = local /\ inWindow' = inWindow
      /\ floor' = floor /\ answer' = answer
  BY <1>0 DEF Restart, TypeOK
<1>2. /\ epoch \in 1 .. MaxEpoch /\ volume \in 0 .. MaxChanges /\ generation \in 1 .. MaxGeneration
      /\ bases \in 1 .. MaxBases /\ disk \in 1 .. bases
      /\ bases <= (epoch - 1) * MaxGeneration + generation
  BY <1>0 DEF TypeOK, CountersOK
<1>3. /\ bases' \in bases .. bases + 1 /\ disk' \in 1 .. bases'
      /\ view' = [epoch |-> epoch', generation |-> 1, base |-> disk', seen |-> volume]
  BY <1>2 DEF Restart, FirstView
<1>4. bases' <= (epoch' - 1) * MaxGeneration + generation' /\ bases' \in 1 .. MaxBases
  <2> DEFINE before == (epoch - 1) * MaxGeneration
             after == (epoch' - 1) * MaxGeneration
  <2>1. before + generation \in 1 .. MaxBases /\ before \in Int /\ bases <= before + generation
    BY <1>2, BaseBound
  <2>2. epoch' \in 1 .. MaxEpoch
    BY <1>1, <1>2
  <2>3. after + 1 \in 1 .. MaxBases /\ after + 1 = before + MaxGeneration + 1
    <3>1. after + 1 \in 1 .. MaxBases
      <4>1. 1 \in 1 .. MaxGeneration
        OBVIOUS
      <4> QED  BY <4>1, <2>2, BaseBound, Zenon
    <3>2. ((epoch + 1) - 1) * MaxGeneration + 1 = before + MaxGeneration + 1
      BY <1>2, BaseBound
    <3> QED  BY <3>1, <3>2, <1>1
  <2> HIDE DEF before, after
  <2>4. bases' <= after + 1 /\ bases' \in 1 .. MaxBases
    BY <2>1, <2>3, <1>2, <1>3
  <2> QED  BY <2>4, <1>1 DEF after
<1>5. TypeOK'
  <2>1. view' \in Views /\ NoView \in Views
    BY <1>1, <1>2, <1>3, <1>4 DEF Views, NoView
  <2> QED  BY <1>0, <1>1, <1>2, <1>3, <1>4, <2>1 DEF TypeOK, SHARED_SECTION_CACHE_GENERATIONS
<1>6. CountersOK'
  BY <1>1, <1>2, <1>3, <1>4 DEF CountersOK
<1>7. GenerationNamesBase'
  <2>1. DOMAIN cache' = {}
    BY <1>1
  <2>2. \A v \in Loaded' : v = view' \/ v = NoView
    BY <1>1 DEF Loaded
  <2>3. view'.generation = 1 /\ NoView.generation = 0
    BY <1>3 DEF NoView
  <2> QED  BY <2>1, <2>2, <2>3 DEF GenerationNamesBase
<1>8. ASSUME NEW c \in Clients PROVE ClientInv(c)'
  <2>1. ClientInv(c) /\ snapshot'[c] = NoView /\ NoView.epoch < epoch'
    BY <1>0, <1>1, <1>2 DEF NoView
  <2>2. answer[c].mapping.epoch < epoch' /\ local[c].epoch < epoch' /\ floor[c].epoch < epoch'
    <3>1. answer[c].mapping.epoch <= epoch /\ local[c].epoch <= epoch /\ floor[c].epoch <= epoch
      BY <2>1 DEF ClientInv, FollowOK, Follows, FloorOK
    <3>2. answer[c].mapping.epoch \in Int /\ local[c].epoch \in Int /\ floor[c].epoch \in Int
      BY <1>0, HeldTypes
    <3>3. epoch' = epoch + 1 /\ epoch \in Int
      BY <1>1, <1>2
    <3> HIDE <1>1, <1>2
    <3> QED  BY <3>1, <3>2, <3>3
  <2>3. SnapshotOK(c)' /\ AnswerOK(c)' /\ LocalOK(c)'
    BY <2>1, <1>1 DEF ClientInv, SnapshotOK, AnswerOK, LocalOK, NotBelow
  <2>4. FollowOK(c)'
    <3>1. snapshot'[c].epoch < epoch' /\ answer'[c].mapping.epoch < epoch' /\ local'[c].epoch < epoch'
      BY <2>1, <2>2, <1>1
    <3>2. /\ snapshot'[c].epoch \in Int /\ answer'[c].mapping.epoch \in Int /\ local'[c].epoch \in Int
          /\ epoch' \in Int
      BY <2>1, <1>0, <1>1, <1>2, HeldTypes DEF NoView
    <3> QED  BY <3>1, <3>2 DEF FollowOK, Follows
  <2>5. FloorOK(c)'
    BY <2>1, <2>2, <1>0, <1>1, <1>2, <1>3, HeldTypes DEF ClientInv, FloorOK, NotBelow
  <2> QED  BY <2>3, <2>4, <2>5 DEF ClientInv
<1> QED  BY <1>5, <1>6, <1>7, <1>8 DEF SharedInv

-----------------------------------------------------------------------------
(* The clients. *)

\* What does not touch the worker's side leaves the worker's invariants.
LEMMA FeedFrame ==
  ASSUME SharedInv, UNCHANGED feedVars
  PROVE  /\ epoch' = epoch /\ generation' = generation /\ bases' = bases /\ view' = view
         /\ CountersOK'
         /\ UNCHANGED <<cache, snapshot>> => GenerationNamesBase'
  BY DEF feedVars, SharedInv, CountersOK, GenerationNamesBase, Loaded

LEMMA NothingTypes ==
  /\ NoMapping \in Mappings /\ NoView \in Views /\ NoFloor \in [epoch : 0 .. MaxEpoch, seen : 0 .. MaxChanges]
  /\ NoAnswer \in [kind : {"none", "current", "section"}, mapping : Mappings]
BY BoundsArePositive DEF NoMapping, Mappings, NoView, Views, NoFloor, NoAnswer

\* Nor does it concern a client whose own entries it leaves.
LEMMA OthersKept ==
  ASSUME SharedInv, UNCHANGED feedVars, NEW d \in Clients,
         client'[d] = client[d], conn'[d] = conn[d], local'[d] = local[d], inWindow'[d] = inWindow[d],
         floor'[d] = floor[d], snapshot'[d] = snapshot[d], answer'[d] = answer[d]
  PROVE  ClientInv(d)'
<1>1. epoch' = epoch /\ generation' = generation /\ bases' = bases /\ view' = view /\ ClientInv(d)
  BY FeedFrame DEF SharedInv
<1> QED
  BY <1>1 DEF ClientInv, SnapshotOK, FollowOK, Follows, AnswerOK, FloorOK, LocalOK, NotBelow

\* A step of one client: of the types, its own entries have to be shown.
LEMMA ClientTypesStep ==
  ASSUME TypeOK, UNCHANGED feedVars, cache' = cache, snapshot' = snapshot,
         client' \in [Clients -> {"idle", "asked", "broken"}], conn' \in [Clients -> 0 .. MaxEpoch],
         local' \in [Clients -> Mappings], inWindow' \in [Clients -> BOOLEAN],
         floor' \in [Clients -> [epoch : 0 .. MaxEpoch, seen : 0 .. MaxChanges]],
         answer' \in [Clients -> [kind : {"none", "current", "section"}, mapping : Mappings]]
  PROVE  TypeOK'
BY DEF TypeOK, feedVars

LEMMA AskStep ==
  ASSUME SharedInv, NEW c \in Clients, Ask(c)
  PROVE  SharedInv'
<1>0. TypeOK /\ ClientInv(c)
  BY DEF SharedInv
<1>1. /\ UNCHANGED feedVars /\ cache' = cache /\ conn' = conn /\ local' = local /\ inWindow' = inWindow
      /\ snapshot' = snapshot /\ answer' = answer /\ client[c] = "idle" /\ MustAsk(c)
      /\ \/ client' = [client EXCEPT ![c] = "broken"] /\ floor' = floor
         \/ /\ conn[c] # 0 /\ client' = [client EXCEPT ![c] = "asked"]
            /\ floor' = [floor EXCEPT ![c] = [epoch |-> epoch, seen |-> view.seen]]
  BY DEF Ask, threadVars
<1>2. /\ epoch' = epoch /\ generation' = generation /\ bases' = bases /\ view' = view
      /\ CountersOK' /\ GenerationNamesBase'
  BY <1>1, FeedFrame
<1>3. snapshot[c] = NoView /\ answer[c] = NoAnswer /\ ~inWindow[c]
  BY <1>0, <1>1 DEF ClientInv, SnapshotOK, AnswerOK, LocalOK, MustAsk
<1>4. TypeOK'
  <2>1. [epoch |-> epoch, seen |-> view.seen] \in [epoch : 0 .. MaxEpoch, seen : 0 .. MaxChanges]
    BY <1>0 DEF TypeOK, Views
  <2>2. /\ client' \in [Clients -> {"idle", "asked", "broken"}]
        /\ floor' \in [Clients -> [epoch : 0 .. MaxEpoch, seen : 0 .. MaxChanges]]
    <3>1. /\ client \in [Clients -> {"idle", "asked", "broken"}]
          /\ floor \in [Clients -> [epoch : 0 .. MaxEpoch, seen : 0 .. MaxChanges]]
      BY <1>0 DEF TypeOK
    <3> HIDE <1>0
    <3> QED  BY <3>1, <1>1, <2>1
  <2> QED  BY <1>0, <1>1, <2>2, ClientTypesStep DEF TypeOK
<1>5. ClientInv(c)'
  <2>1. SnapshotOK(c)' /\ FollowOK(c)' /\ AnswerOK(c)' /\ LocalOK(c)'
    BY <1>0, <1>1, <1>2, <1>3 DEF ClientInv, SnapshotOK, FollowOK, Follows, AnswerOK, LocalOK
  <2>2. floor'[c] = floor[c] \/ floor'[c] = [epoch |-> epoch, seen |-> view.seen]
    BY <1>0, <1>1 DEF TypeOK
  <2>3. FloorOK(c)'
    <3>1. FloorOK(c) /\ snapshot'[c] = NoView /\ ~inWindow'[c]
      BY <1>0, <1>1, <1>3 DEF ClientInv
    <3>2. view.epoch = epoch /\ epoch \in Int /\ view.seen \in Int
      BY <1>0 DEF SharedInv, CountersOK, TypeOK, Views
    <3>3. CASE floor'[c] = [epoch |-> epoch, seen |-> view.seen]
      BY <3>1, <3>2, <3>3, <1>1, <1>2 DEF FloorOK, NotBelow
    <3>4. CASE floor'[c] = floor[c]
      <4>1. client'[c] = "asked" => floor'[c].epoch = epoch \/ conn[c] = 0
        BY <3>4, <2>2, <1>0, <1>1 DEF TypeOK
      <4> QED  BY <3>1, <3>4, <4>1, <1>1, <1>2 DEF FloorOK, NotBelow
    <3> QED  BY <2>2, <3>3, <3>4
  <2> QED  BY <2>1, <2>3 DEF ClientInv
<1>6. \A d \in Clients \ {c} : ClientInv(d)'
  BY <1>0, <1>1, OthersKept DEF TypeOK
<1> QED  BY <1>2, <1>4, <1>5, <1>6 DEF SharedInv

LEMMA TakeStep ==
  ASSUME SharedInv, NEW c \in Clients, Take(c)
  PROVE  SharedInv'
<1>0. TypeOK /\ ClientInv(c)
  BY DEF SharedInv
<1>1. /\ UNCHANGED feedVars /\ cache' = cache /\ conn' = conn /\ snapshot' = snapshot
      /\ client[c] = "asked" /\ client' = [client EXCEPT ![c] = "idle"]
      /\ answer[c].kind \in {"current", "section"} /\ answer' = [answer EXCEPT ![c] = NoAnswer]
      /\ \/ /\ \/ /\ answer[c].kind = "current"
                  /\ local[c].generation = answer[c].mapping.generation
                  /\ local' = local
               \/ local' = [local EXCEPT ![c] = answer[c].mapping]
            /\ inWindow' = [inWindow EXCEPT ![c] = TRUE] /\ floor' = floor
         \/ /\ local' = [local EXCEPT ![c] = NoMapping]
            /\ floor' = [floor EXCEPT ![c] = NoFloor] /\ inWindow' = inWindow
  BY DEF Take
<1>2. /\ epoch' = epoch /\ generation' = generation /\ bases' = bases /\ view' = view
      /\ CountersOK' /\ GenerationNamesBase'
  BY <1>1, FeedFrame
<1>3. /\ answer[c] # NoAnswer /\ snapshot[c] = NoView /\ ~inWindow[c]
      /\ answer[c].mapping.generation # 0
      /\ answer[c].mapping.base = answer[c].mapping.overlayOf
      /\ answer[c].mapping.epoch = floor[c].epoch /\ answer[c].mapping.seen >= floor[c].seen
      /\ Follows(answer[c].mapping) /\ Follows(local[c])
      /\ answer[c].kind = "current" /\ local[c].epoch = answer[c].mapping.epoch
          /\ local[c].generation = answer[c].mapping.generation
          => local[c].seen = answer[c].mapping.seen
  <2>1. answer[c] # NoAnswer
    BY <1>1 DEF NoAnswer
  <2> QED  BY <2>1, <1>0, <1>1 DEF ClientInv, SnapshotOK, AnswerOK, FloorOK, FollowOK
<1>4. TypeOK'
  <2>1. /\ client' \in [Clients -> {"idle", "asked", "broken"}]
        /\ answer' \in [Clients -> [kind : {"none", "current", "section"}, mapping : Mappings]]
    BY <1>0, <1>1, NothingTypes DEF TypeOK
  <2>2. /\ local' \in [Clients -> Mappings] /\ inWindow' \in [Clients -> BOOLEAN]
        /\ floor' \in [Clients -> [epoch : 0 .. MaxEpoch, seen : 0 .. MaxChanges]]
    <3>1. /\ local \in [Clients -> Mappings] /\ inWindow \in [Clients -> BOOLEAN]
          /\ floor \in [Clients -> [epoch : 0 .. MaxEpoch, seen : 0 .. MaxChanges]]
          /\ answer[c].mapping \in Mappings
      BY <1>0, HeldTypes DEF TypeOK
    <3>2. local' \in [Clients -> Mappings]
      BY <3>1, <1>1, NothingTypes
    <3>3. inWindow' \in [Clients -> BOOLEAN]
      BY <3>1, <1>1
    <3>4. floor' \in [Clients -> [epoch : 0 .. MaxEpoch, seen : 0 .. MaxChanges]]
      BY <3>1, <1>1, NothingTypes
    <3> QED  BY <3>2, <3>3, <3>4
  <2> QED  BY <1>0, <1>1, <2>1, <2>2, ClientTypesStep DEF TypeOK
<1>5. ClientInv(c)'
  <2>1. client'[c] = "idle" /\ answer'[c] = NoAnswer /\ snapshot'[c] = NoView
    BY <1>0, <1>1, <1>3 DEF TypeOK
  <2>2. \/ /\ answer[c].kind = "current" /\ local[c].generation = answer[c].mapping.generation
           /\ local'[c] = local[c] /\ inWindow'[c] /\ floor'[c] = floor[c]
        \/ local'[c] = answer[c].mapping /\ inWindow'[c] /\ floor'[c] = floor[c]
        \/ local'[c] = NoMapping /\ ~inWindow'[c] /\ floor'[c] = NoFloor
    BY <1>0, <1>1, <1>3 DEF TypeOK
  <2>3. SnapshotOK(c)' /\ AnswerOK(c)'
    BY <2>1 DEF SnapshotOK, AnswerOK
  <2>4. FollowOK(c)'
    <3>1. Follows(NoView) /\ Follows(NoMapping)
      BY <1>0 DEF Follows, NoView, NoMapping, TypeOK
    <3> QED  BY <3>1, <2>1, <2>2, <1>2, <1>3 DEF FollowOK, Follows, NoAnswer
  <2>5. FloorOK(c)'
    <3>1. FloorOK(c) /\ view.epoch \in 1 .. MaxEpoch /\ epoch \in 1 .. MaxEpoch /\ view.seen \in Nat
      BY <1>0, BoundsArePositive DEF SharedInv, CountersOK, ClientInv, TypeOK, Views
    <3>2. snapshot'[c] = NoView /\ client'[c] # "asked"
      BY <2>1
    <3>3. CASE floor'[c] = floor[c]
      BY <3>1, <3>2, <3>3, <1>2 DEF FloorOK, NotBelow
    <3>4. CASE floor'[c] = NoFloor
      BY <3>1, <3>2, <3>4, <1>2 DEF FloorOK, NotBelow, NoFloor
    <3> QED  BY <3>3, <3>4, <2>2
  <2>6. LocalOK(c)'
    BY <2>2, <1>0, <1>3 DEF ClientInv, LocalOK, NotBelow, NoMapping
  <2> QED  BY <2>3, <2>4, <2>5, <2>6 DEF ClientInv
<1>6. \A d \in Clients \ {c} : ClientInv(d)'
  BY <1>0, <1>1, OthersKept DEF TypeOK
<1> QED  BY <1>2, <1>4, <1>5, <1>6 DEF SharedInv

LEMMA FallbackStep ==
  ASSUME SharedInv, NEW c \in Clients, TakeFails(c) \/ Reconnect(c) \/ WindowEnds(c)
  PROVE  SharedInv'
<1>0. TypeOK /\ ClientInv(c)
  BY DEF SharedInv
<1>1. /\ UNCHANGED feedVars /\ cache' = cache /\ snapshot' = snapshot /\ answer' = answer /\ local' = local
      /\ \/ /\ client[c] = "asked" /\ answer[c] = NoAnswer
            /\ conn[c] = 0 /\ conn' = conn /\ inWindow' = inWindow
            /\ client' = [client EXCEPT ![c] = "broken"] /\ floor' = [floor EXCEPT ![c] = NoFloor]
         \/ /\ client[c] = "broken" /\ floor' = floor /\ inWindow' = inWindow
            /\ client' = [client EXCEPT ![c] = "idle"] /\ conn' \in {conn, [conn EXCEPT ![c] = epoch]}
         \/ /\ inWindow[c] /\ client' = client /\ conn' = conn
            /\ inWindow' = [inWindow EXCEPT ![c] = FALSE] /\ floor' = [floor EXCEPT ![c] = NoFloor]
  BY DEF TakeFails, Reconnect, WindowEnds, threadVars
<1>2. /\ epoch' = epoch /\ generation' = generation /\ bases' = bases /\ view' = view
      /\ CountersOK' /\ GenerationNamesBase'
  BY <1>1, FeedFrame
<1>3. /\ snapshot[c] = NoView /\ answer[c] = NoAnswer
      /\ client'[c] # "asked" /\ inWindow'[c] \in {inWindow[c], FALSE}
      /\ \/ floor'[c] = floor[c]
         \/ floor'[c] = NoFloor /\ ~inWindow'[c]
  BY <1>0, <1>1 DEF TypeOK, ClientInv, SnapshotOK, AnswerOK, FloorOK
<1>4. TypeOK'
  <2>1. /\ client \in [Clients -> {"idle", "asked", "broken"}] /\ conn \in [Clients -> 0 .. MaxEpoch]
        /\ inWindow \in [Clients -> BOOLEAN] /\ epoch \in 0 .. MaxEpoch
        /\ floor \in [Clients -> [epoch : 0 .. MaxEpoch, seen : 0 .. MaxChanges]]
    BY <1>0 DEF TypeOK
  <2>2. client' \in [Clients -> {"idle", "asked", "broken"}] /\ conn' \in [Clients -> 0 .. MaxEpoch]
    BY <2>1, <1>1
  <2>3. /\ inWindow' \in [Clients -> BOOLEAN]
        /\ floor' \in [Clients -> [epoch : 0 .. MaxEpoch, seen : 0 .. MaxChanges]]
    <3>1. /\ inWindow' \in {inWindow, [inWindow EXCEPT ![c] = FALSE]}
          /\ floor' \in {floor, [floor EXCEPT ![c] = NoFloor]}
      BY <1>1
    <3>2. NoFloor \in [epoch : 0 .. MaxEpoch, seen : 0 .. MaxChanges]
      BY NothingTypes
    <3>3. inWindow' \in [Clients -> BOOLEAN]
      BY <2>1, <3>1
    <3> DEFINE Floors == [epoch : 0 .. MaxEpoch, seen : 0 .. MaxChanges]
    <3>4. floor \in [Clients -> Floors] /\ NoFloor \in Floors
      BY <2>1, <3>2
    <3> HIDE DEF Floors
    <3>5. floor' \in [Clients -> Floors]
      BY <3>1, <3>4
    <3> QED  BY <3>3, <3>5 DEF Floors
  <2> QED  BY <1>0, <1>1, <2>2, <2>3, ClientTypesStep DEF TypeOK
<1>5. ClientInv(c)'
  <2>1. SnapshotOK(c)' /\ FollowOK(c)' /\ AnswerOK(c)' /\ LocalOK(c)'
    <3>1. SnapshotOK(c)' /\ AnswerOK(c)'
      BY <1>1, <1>3 DEF SnapshotOK, AnswerOK
    <3>2. FollowOK(c)'
      BY <1>0, <1>1, <1>2 DEF ClientInv, FollowOK, Follows
    <3>3. LocalOK(c)'
      BY <1>0, <1>1, <1>3 DEF ClientInv, LocalOK, NotBelow
    <3> QED  BY <3>1, <3>2, <3>3
  <2>2. FloorOK(c)'
    <3>1. FloorOK(c) /\ snapshot'[c] = NoView /\ client'[c] # "asked"
      BY <1>0, <1>1, <1>3 DEF ClientInv
    <3>2. CASE floor'[c] = floor[c]
      BY <3>1, <3>2, <1>2 DEF FloorOK, NotBelow
    <3>3. CASE floor'[c] = NoFloor
      <4>1. view.epoch \in 1 .. MaxEpoch /\ epoch \in 1 .. MaxEpoch /\ view.seen \in Nat
        BY <1>0, BoundsArePositive DEF SharedInv, CountersOK, TypeOK, Views
      <4>2. floor'[c].epoch = 0 /\ floor'[c].seen = 0
        BY <3>3 DEF NoFloor
      <4>3. client'[c] = "asked" => FALSE
        BY <3>1
      <4> QED  BY <3>1, <4>1, <4>2, <4>3, <1>2 DEF FloorOK, NotBelow
    <3> QED  BY <3>2, <3>3, <1>3
  <2> QED  BY <2>1, <2>2 DEF ClientInv
<1>6. \A d \in Clients \ {c} : ClientInv(d)'
  BY <1>0, <1>1, OthersKept DEF TypeOK
<1> QED  BY <1>2, <1>4, <1>5, <1>6 DEF SharedInv

-----------------------------------------------------------------------------
(* The connection's thread. *)

LEMMA LoadStep ==
  ASSUME SharedInv, NEW c \in Clients, Load(c)
  PROVE  SharedInv'
<1>0. TypeOK /\ ClientInv(c) /\ CountersOK /\ GenerationNamesBase
  BY DEF SharedInv
<1>1. /\ UNCHANGED feedVars /\ cache' = cache /\ client' = client /\ conn' = conn /\ local' = local
      /\ inWindow' = inWindow /\ floor' = floor
      /\ client[c] = "asked" /\ conn[c] # 0 /\ snapshot[c] = NoView /\ answer[c] = NoAnswer
      /\ \/ /\ view.generation = local[c].generation /\ snapshot' = snapshot
            /\ answer' = [answer EXCEPT ![c] = [kind |-> "current", mapping |-> MappingOf(view, view.base)]]
         \/ snapshot' = [snapshot EXCEPT ![c] = view] /\ answer' = answer
  BY DEF Load, clientVars
<1>2. /\ epoch' = epoch /\ generation' = generation /\ bases' = bases /\ view' = view /\ CountersOK'
  BY <1>1, FeedFrame
<1>3. /\ view \in Views /\ view.epoch = epoch /\ view.generation = generation
      /\ generation \in 1 .. MaxGeneration /\ view.base \in 1 .. bases /\ view # NoView
      /\ floor[c].epoch = epoch /\ view.seen >= floor[c].seen
  BY <1>0, <1>1 DEF TypeOK, CountersOK, ClientInv, FloorOK, NotBelow, NoView
<1>4. GenerationNamesBase'
  <2>1. \A d \in Clients : snapshot'[d] \in {snapshot[d], view}
    BY <1>0, <1>1 DEF TypeOK
  <2>2. Loaded' \subseteq Loaded
    BY <2>1, <1>2 DEF Loaded
  <2> QED  BY <2>2, <1>0, <1>1, <1>2 DEF GenerationNamesBase
<1>5. TypeOK'
  <2>1. MappingOf(view, view.base) \in Mappings
    BY <1>3 DEF MappingOf, Views, Mappings
  <2>2. snapshot' \in [Clients -> Views]
    BY <1>0, <1>1, <1>3 DEF TypeOK
  <2>3. answer' \in [Clients -> [kind : {"none", "current", "section"}, mapping : Mappings]]
    <3>1. [kind |-> "current", mapping |-> MappingOf(view, view.base)]
            \in [kind : {"none", "current", "section"}, mapping : Mappings]
      BY <2>1
    <3> QED  BY <1>0, <1>1, <3>1 DEF TypeOK
  <2> QED  BY <1>0, <1>1, <2>2, <2>3 DEF TypeOK, feedVars
<1>6. ClientInv(c)'
  <2>1. \/ /\ snapshot'[c] = NoView
           /\ answer'[c] = [kind |-> "current", mapping |-> MappingOf(view, view.base)]
        \/ snapshot'[c] = view /\ answer'[c] = NoAnswer
    BY <1>0, <1>1 DEF TypeOK
  <2>2. SnapshotOK(c)' /\ LocalOK(c)'
    BY <2>1, <1>0, <1>1, <1>2, <1>3 DEF ClientInv, SnapshotOK, LocalOK, NotBelow
  <2>3. FollowOK(c)'
    <3>1. Follows(view) /\ Follows(MappingOf(view, view.base))
      BY <1>3 DEF Follows, MappingOf, Views
    <3>2. \A m : Follows(m) => Follows(m)'
      BY <1>2 DEF Follows
    <3>3. Follows(snapshot[c]) /\ Follows(answer[c].mapping) /\ Follows(local[c])
      BY <1>0 DEF ClientInv, FollowOK
    <3>4. snapshot'[c] \in {snapshot[c], view} /\ local'[c] = local[c]
      BY <2>1, <1>1
    <3>5. answer'[c].mapping \in {answer[c].mapping, MappingOf(view, view.base)}
      BY <2>1, <1>1
    <3>6. Follows(snapshot'[c]) /\ Follows(answer'[c].mapping) /\ Follows(local'[c])
      BY <3>1, <3>3, <3>4, <3>5
    <3> QED  BY <3>6, <1>2 DEF FollowOK, Follows
  <2>4. AnswerOK(c)'
    BY <2>1, <1>0, <1>1, <1>2, <1>3 DEF ClientInv, FollowOK, Follows, AnswerOK, MappingOf
  <2>5. FloorOK(c)'
    BY <2>1, <1>0, <1>1, <1>2, <1>3 DEF ClientInv, FloorOK, NotBelow
  <2> QED  BY <2>2, <2>3, <2>4, <2>5 DEF ClientInv
<1>7. \A d \in Clients \ {c} : ClientInv(d)'
  BY <1>0, <1>1, OthersKept DEF TypeOK
<1> QED  BY <1>2, <1>4, <1>5, <1>6, <1>7 DEF SharedInv

\* The cache after a look-up for a loaded view still agrees with the views.
LEMMA CacheAgrees ==
  ASSUME SharedInv, NEW c \in Clients, snapshot[c] # NoView, UNCHANGED feedVars,
         snapshot' = [snapshot EXCEPT ![c] = NoView],
         cache' \in {cache, CacheWith(snapshot[c], SharedBase(snapshot[c]))}
  PROVE  /\ GenerationNamesBase'
         /\ cache' \in Seq([generation : 1 .. MaxGeneration, base : 1 .. MaxBases])
         /\ Len(cache') <= SHARED_SECTION_CACHE_GENERATIONS
<1> DEFINE v == snapshot[c]
<1>0. TypeOK /\ ClientInv(c) /\ GenerationNamesBase /\ generation' = generation /\ view' = view
  BY FeedFrame DEF SharedInv
<1>1. /\ v \in Views /\ v.generation \in 1 .. generation /\ generation \in 1 .. MaxGeneration
      /\ v.base \in 1 .. bases /\ bases \in 1 .. MaxBases
  BY <1>0 DEF TypeOK, ClientInv, SnapshotOK
<1>2. v.generation \in 1 .. MaxGeneration /\ v.base \in 1 .. MaxBases /\ SharedBase(v) = v.base
  BY <1>0, <1>1, BoundsArePositive, SharedBaseIsOwn
<1>3. /\ cache' \in Seq([generation : 1 .. MaxGeneration, base : 1 .. MaxBases])
      /\ Len(cache') <= SHARED_SECTION_CACHE_GENERATIONS
      /\ \A i \in DOMAIN cache' :
           \/ \E j \in DOMAIN cache : cache'[i] = cache[j]
           \/ cache'[i] = [generation |-> v.generation, base |-> v.base]
  <2>1. CASE cache' = cache
    BY <2>1, <1>0, CacheTypes
  <2>2. CASE cache' = CacheWith(v, SharedBase(v))
    <3>1. cache' = CacheWith(v, v.base)
      BY <2>2, <1>2
    <3> HIDE DEF v
    <3> QED  BY <3>1, <1>0, <1>2, CacheWithStep
  <2> QED  BY <2>1, <2>2
<1>4. GenerationNamesBase'
  <2>1. \A d \in Clients : snapshot'[d] \in {snapshot[d], NoView}
    BY <1>0 DEF TypeOK
  <2>2. \A w \in Loaded' : w \in Loaded \/ w = NoView
    BY <2>1, <1>0 DEF Loaded
  <2>3. view \in Loaded /\ v \in Loaded
    BY DEF Loaded
  <2>4. \A w \in Loaded : w.generation = 0 => w = NoView
    <3> SUFFICES ASSUME NEW w \in Loaded, w # NoView PROVE w.generation # 0
      OBVIOUS
    <3>1. CASE w = view
      BY <3>1, <1>0, <1>1 DEF SharedInv, CountersOK
    <3>2. CASE \E d \in Clients : w = snapshot[d]
      BY <3>2, <1>1 DEF SharedInv, ClientInv, SnapshotOK
    <3> QED  BY <3>1, <3>2 DEF Loaded
  <2>5. \A w, x \in Loaded' : w.generation = x.generation => w.base = x.base
    BY <2>2, <2>4, <1>0 DEF GenerationNamesBase, NoView
  <2>6. ASSUME NEW i \in DOMAIN cache'
        PROVE  /\ cache'[i].generation <= generation
               /\ \A w \in Loaded' : cache'[i].generation = w.generation => cache'[i].base = w.base
    <3>1. cache'[i].generation # 0
      <4>1. i \in 1 .. Len(cache')
        BY <1>3, LenProperties
      <4>2. cache'[i] \in [generation : 1 .. MaxGeneration, base : 1 .. MaxBases]
        BY <4>1, <1>3, ElementOfSeq
      <4> QED  BY <4>2
    <3>2. CASE \E j \in DOMAIN cache : cache'[i] = cache[j]
      BY <3>1, <3>2, <2>2, <1>0 DEF GenerationNamesBase, NoView
    <3>3. CASE cache'[i] = [generation |-> v.generation, base |-> v.base]
      BY <3>1, <3>3, <2>2, <2>3, <1>0, <1>1 DEF GenerationNamesBase, NoView
    <3> QED  BY <3>2, <3>3, <1>3
  <2> QED  BY <2>5, <2>6, <1>0 DEF GenerationNamesBase
<1> QED  BY <1>3, <1>4

LEMMA ShareStep ==
  ASSUME SharedInv, NEW c \in Clients, ShareSection(c) \/ ShareFails(c)
  PROVE  SharedInv'
<1>0. TypeOK /\ ClientInv(c)
  BY DEF SharedInv
<1>1. /\ UNCHANGED feedVars /\ client' = client /\ local' = local /\ inWindow' = inWindow /\ floor' = floor
      /\ client[c] = "asked" /\ conn[c] # 0 /\ snapshot[c] # NoView
      /\ snapshot' = [snapshot EXCEPT ![c] = NoView]
      /\ cache' \in {cache, CacheWith(snapshot[c], SharedBase(snapshot[c]))}
      /\ \/ /\ conn' = conn
            /\ answer' = [answer EXCEPT ![c] =
                 [kind |-> "section", mapping |-> MappingOf(snapshot[c], SharedBase(snapshot[c]))]]
         \/ answer' = answer /\ conn' = [conn EXCEPT ![c] = 0]
  BY DEF ShareSection, ShareFails, clientVars
<1>2. /\ epoch' = epoch /\ generation' = generation /\ bases' = bases /\ view' = view /\ CountersOK'
  BY <1>1, FeedFrame
<1>3. /\ GenerationNamesBase'
      /\ cache' \in Seq([generation : 1 .. MaxGeneration, base : 1 .. MaxBases])
      /\ Len(cache') <= SHARED_SECTION_CACHE_GENERATIONS
  BY <1>1, CacheAgrees
<1>4. /\ SharedBase(snapshot[c]) = snapshot[c].base /\ snapshot[c] \in Views /\ answer[c] = NoAnswer
      /\ snapshot[c].epoch = epoch /\ snapshot[c].generation \in 1 .. generation
      /\ Follows(snapshot[c]) /\ floor[c].epoch = epoch /\ snapshot[c].seen >= floor[c].seen
  BY <1>0, <1>1, SharedBaseIsOwn DEF SharedInv, TypeOK, ClientInv, SnapshotOK, FollowOK, FloorOK, NotBelow
<1>5. TypeOK'
  <2>1. MappingOf(snapshot[c], SharedBase(snapshot[c])) \in Mappings
    BY <1>4 DEF MappingOf, Views, Mappings
  <2>2. snapshot' \in [Clients -> Views] /\ conn' \in [Clients -> 0 .. MaxEpoch]
    <3>1. snapshot \in [Clients -> Views] /\ conn \in [Clients -> 0 .. MaxEpoch] /\ 0 \in 0 .. MaxEpoch
      BY <1>0, BoundsArePositive DEF TypeOK
    <3> QED  BY <3>1, <1>1, NothingTypes
  <2>3. answer' \in [Clients -> [kind : {"none", "current", "section"}, mapping : Mappings]]
    <3>1. answer \in [Clients -> [kind : {"none", "current", "section"}, mapping : Mappings]]
      BY <1>0 DEF TypeOK
    <3>2. answer' \in {answer, [answer EXCEPT ![c] =
            [kind |-> "section", mapping |-> MappingOf(snapshot[c], SharedBase(snapshot[c]))]]}
      BY <1>1
    <3> HIDE <1>1, <1>0
    <3> QED  BY <3>1, <3>2, <2>1
  <2> QED  BY <1>0, <1>1, <1>3, <2>2, <2>3 DEF TypeOK, feedVars
<1>6. ClientInv(c)'
  <2>1. /\ snapshot'[c] = NoView
        /\ \/ answer'[c] = [kind |-> "section", mapping |-> MappingOf(snapshot[c], snapshot[c].base)]
           \/ answer'[c] = NoAnswer
        /\ conn'[c] # 0 => conn[c] # 0
    <3>1. snapshot'[c] = NoView
      BY <1>0, <1>1 DEF TypeOK
    <3>2. c \in DOMAIN answer /\ c \in DOMAIN conn
      BY <1>0 DEF TypeOK
    <3>3. \/ answer'[c] = [kind |-> "section", mapping |-> MappingOf(snapshot[c], snapshot[c].base)]
          \/ answer'[c] = NoAnswer
      BY <3>2, <1>1, <1>4
    <3>4. conn'[c] # 0 => conn[c] # 0
      BY <3>2, <1>1
    <3> QED  BY <3>1, <3>3, <3>4
  <2>2. SnapshotOK(c)' /\ LocalOK(c)'
    BY <2>1, <1>0, <1>1 DEF ClientInv, SnapshotOK, LocalOK, NotBelow
  <2>3. FollowOK(c)'
    <3>1. Follows(NoView) /\ Follows(NoAnswer.mapping)
      BY <1>0 DEF Follows, NoView, NoMapping, NoAnswer, TypeOK
    <3> QED  BY <3>1, <2>1, <1>0, <1>1, <1>2, <1>4 DEF ClientInv, FollowOK, Follows, MappingOf
  <2>4. AnswerOK(c)'
    BY <2>1, <1>0, <1>1, <1>4 DEF ClientInv, AnswerOK, MappingOf
  <2>5. FloorOK(c)'
    BY <2>1, <1>0, <1>1, <1>2 DEF ClientInv, FloorOK, NotBelow
  <2> QED  BY <2>2, <2>3, <2>4, <2>5 DEF ClientInv
<1>7. \A d \in Clients \ {c} : ClientInv(d)'
  BY <1>0, <1>1, OthersKept DEF TypeOK
<1> QED  BY <1>2, <1>3, <1>5, <1>6, <1>7 DEF SharedInv

-----------------------------------------------------------------------------

LEMMA StepInv == SharedInv /\ [Next]_vars => SharedInv'
<1> SUFFICES ASSUME SharedInv, [Next]_vars PROVE SharedInv'
  OBVIOUS
<1>1. CASE Change \/ PublishDelta \/ PublishBase
  BY <1>1, FeedStep
<1>2. CASE Restart
  BY <1>2, RestartStep
<1>3. ASSUME NEW c \in Clients, Ask(c) \/ Take(c) PROVE SharedInv'
  BY <1>3, AskStep, TakeStep
<1>4. ASSUME NEW c \in Clients, TakeFails(c) \/ Reconnect(c) \/ WindowEnds(c) PROVE SharedInv'
  BY <1>4, FallbackStep
<1>5. ASSUME NEW c \in Clients, Load(c) \/ ShareSection(c) \/ ShareFails(c) PROVE SharedInv'
  BY <1>5, LoadStep, ShareStep
<1>6. CASE UNCHANGED vars
  <2>1. TypeOK' /\ CountersOK' /\ GenerationNamesBase'
    BY <1>6 DEF SharedInv, vars, feedVars, clientVars, threadVars, TypeOK, CountersOK, GenerationNamesBase, Loaded
  <2>2. \A c \in Clients : ClientInv(c)'
    BY <1>6, OthersKept DEF vars, clientVars, threadVars
  <2> QED  BY <2>1, <2>2 DEF SharedInv
<1> QED  BY <1>1, <1>2, <1>3, <1>4, <1>5, <1>6 DEF Next

-----------------------------------------------------------------------------

THEOREM InvCorrect == Spec => []SharedInv
<1> QED  BY InitInv, StepInv, PTL DEF Spec

\* Every variable has its type, and the cache keeps two generations: between
\* them the bounds on what sections.rs retains and on the bases that are written.
THEOREM TypeCorrect == Spec => []TypeOK
<1>1. SharedInv => TypeOK
  BY DEF SharedInv
<1> QED  BY <1>1, InvCorrect, PTL

\* No client searches a base with another's overlay: sections.rs' key, the
\* generation, names one base for as long as anything refers to it.
THEOREM Coherence == Spec => []MappingCoherent
<1>1. SharedInv => MappingCoherent
  BY DEF SharedInv, ClientInv, LocalOK, MappingCoherent
<1> QED  BY <1>1, InvCorrect, PTL

\* A window begins with a mapping as new as what was published when its client
\* asked, when the daemon that it is from is the one that was asked.
THEOREM Staleness == Spec => []WindowBoundsStaleness
<1>1. SharedInv => WindowBoundsStaleness
  BY DEF SharedInv, ClientInv, LocalOK, NotBelow, WindowBoundsStaleness
<1> QED  BY <1>1, InvCorrect, PTL
=============================================================================
