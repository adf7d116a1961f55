----------------------------- MODULE SharedIndex -----------------------------
(***************************************************************************)
(* A daemon that publishes views of one volume, the cache of sections it   *)
(* shares them through, and clients that search a mapping of their own.    *)
(* A base is a number, and a view's overlay is known by the base it is     *)
(* for and by how many changes of the volume the two together reflect.     *)
(***************************************************************************)
EXTENDS Integers, Sequences

CONSTANTS
  Clients,          \* processes that search locally
  MaxChanges,       \* bound: changes of the volume
  MaxGeneration,    \* bound: generations one daemon takes
  MaxEpoch          \* bound: daemons started, one after the other

ASSUME SharedIndexAssumption ==
  MaxChanges \in Nat /\ MaxGeneration \in Nat \ {0} /\ MaxEpoch \in Nat \ {0}

VARIABLES
  volume,     \* changes made to it
  epoch,      \* which daemon is running
  generation, \* the last one taken from fresh_generation
  bases,      \* bases written so far
  view,       \* the published IndexView
  disk,       \* the base of the snapshot file
  cache,      \* the section cache
  client,     \* what each client is doing
  conn,       \* the daemon it is connected to, 0 once that has ended the connection
  local,      \* its mapping
  inWindow,   \* less than 250 ms since last_handshake?
  snapshot,   \* the view its thread in the daemon has loaded for it
  answer,     \* what that thread answered
  floor       \* history: what was published, by whom, when it asked for what it searches

feedVars   == <<volume, epoch, generation, bases, view, disk>>
clientVars == <<client, conn, local, inWindow, floor>>
threadVars == <<snapshot, answer>>
vars == <<feedVars, cache, clientVars, threadVars>>

SHARED_SECTION_CACHE_GENERATIONS == 2

NoView    == [epoch |-> 0, generation |-> 0, base |-> 0, seen |-> 0]
NoMapping == [epoch |-> 0, generation |-> 0, base |-> 0, overlayOf |-> 0, seen |-> 0]
NoFloor   == [epoch |-> 0, seen |-> 0]
NoAnswer  == [kind |-> "none", mapping |-> NoMapping]

FirstView(base) == [epoch |-> epoch', generation |-> 1, base |-> base, seen |-> volume]

Init ==
  /\ volume = 0 /\ epoch = 1 /\ generation = 1 /\ bases = 1 /\ disk = 1 /\ cache = <<>>
  /\ view = [epoch |-> 1, generation |-> 1, base |-> 1, seen |-> 0]
  /\ client = [c \in Clients |-> "idle"]
  /\ conn = [c \in Clients |-> 1]
  /\ local = [c \in Clients |-> NoMapping]
  /\ inWindow = [c \in Clients |-> FALSE]
  /\ snapshot = [c \in Clients |-> NoView]
  /\ answer = [c \in Clients |-> NoAnswer]
  /\ floor = [c \in Clients |-> NoFloor]

-----------------------------------------------------------------------------
(* The volume and the worker that follows it. *)

Change ==
  /\ volume < MaxChanges
  /\ volume' = volume + 1
  /\ UNCHANGED <<epoch, generation, bases, view, disk, cache, clientVars, threadVars>>

\* A batch, maybe one that only moves the cursor, gives a new overlay.
PublishDelta ==
  /\ generation < MaxGeneration
  /\ generation' = generation + 1
  /\ \E seen \in view.seen .. volume :
       view' = [view EXCEPT !.generation = generation + 1, !.seen = seen]
  /\ UNCHANGED <<volume, epoch, bases, disk, cache, clientVars, threadVars>>

\* Idle compaction and a rebuild give a new base and take one generation; the
\* compaction of a batch also takes one for the view that is never published.
PublishBase ==
  \E taken \in {1, 2}, seen \in view.seen .. volume :
    /\ generation + taken <= MaxGeneration
    /\ generation' = generation + taken
    /\ bases' = bases + 1 /\ disk' = bases + 1
    /\ view' = [view EXCEPT !.generation = generation + taken, !.base = bases + 1, !.seen = seen]
    /\ UNCHANGED <<volume, epoch, cache, clientVars, threadVars>>

\* The daemon ends and is started again: it resumes the snapshot and replays the
\* journal, or builds anew. fresh_generation starts over.
Restart ==
  /\ epoch < MaxEpoch
  /\ epoch' = epoch + 1 /\ generation' = 1 /\ cache' = <<>>
  /\ \/ view' = FirstView(disk) /\ UNCHANGED <<bases, disk>>
     \/ view' = FirstView(bases + 1) /\ bases' = bases + 1 /\ disk' = bases + 1
  /\ snapshot' = [c \in Clients |-> NoView]
  /\ conn' = [c \in Clients |-> 0]
  /\ UNCHANGED <<volume, client, local, inWindow, floor, answer>>

-----------------------------------------------------------------------------
(* The client: search_local. A search within the window, over a mapping it   *)
(* has, asks nobody and changes nothing.                                     *)

MustAsk(c) == local[c] = NoMapping \/ ~inWindow[c]

\* The handshake names the generation the client has.
Ask(c) ==
  /\ client[c] = "idle" /\ MustAsk(c)
  /\ IF conn[c] = 0
     THEN client' = [client EXCEPT ![c] = "broken"] /\ UNCHANGED floor
     ELSE /\ client' = [client EXCEPT ![c] = "asked"]
          /\ floor' = [floor EXCEPT ![c] = [epoch |-> epoch, seen |-> view.seen]]
  /\ UNCHANGED <<feedVars, cache, conn, local, inWindow, threadVars>>

\* Mutant: a section that cannot be mapped leaves the old mapping in use.
Take_KeepsOld(c) ==
  /\ client[c] = "asked" /\ answer[c].kind \in {"current", "section"}
  /\ answer' = [answer EXCEPT ![c] = NoAnswer]
  /\ \/ answer[c].kind = "current" /\ UNCHANGED local
     \/ answer[c].kind = "section" /\ local' = [local EXCEPT ![c] = answer[c].mapping]
     \/ answer[c].kind = "section" /\ UNCHANGED local
  /\ inWindow' = [inWindow EXCEPT ![c] = TRUE]
  /\ client' = [client EXCEPT ![c] = "idle"]
  /\ UNCHANGED <<feedVars, cache, conn, floor, snapshot>>

\* The frame is an answer of the kind expected: the mapping is kept when its
\* generation is confirmed, replaced when a section came, and given up when
\* that cannot be mapped, for one search over the pipe.
Take(c) ==
  /\ client[c] = "asked" /\ answer[c].kind \in {"current", "section"}
  /\ answer' = [answer EXCEPT ![c] = NoAnswer]
  /\ \/ /\ \/ /\ answer[c].kind = "current"
              /\ local[c].generation = answer[c].mapping.generation
              /\ UNCHANGED local
           \/ /\ answer[c].kind = "section"
              /\ local' = [local EXCEPT ![c] = answer[c].mapping]
        /\ inWindow' = [inWindow EXCEPT ![c] = TRUE]
        /\ UNCHANGED floor
     \/ /\ \/ answer[c].kind = "section"
           \/ local[c].generation # answer[c].mapping.generation
        /\ local' = [local EXCEPT ![c] = NoMapping]
        /\ floor' = [floor EXCEPT ![c] = NoFloor]
        /\ UNCHANGED inWindow
  /\ client' = [client EXCEPT ![c] = "idle"]
  /\ UNCHANGED <<feedVars, cache, conn, snapshot>>

\* The connection ended without an answer.
TakeFails(c) ==
  /\ client[c] = "asked" /\ conn[c] = 0 /\ answer[c] = NoAnswer
  /\ client' = [client EXCEPT ![c] = "broken"]
  /\ floor' = [floor EXCEPT ![c] = NoFloor]
  /\ UNCHANGED <<feedVars, cache, conn, local, inWindow, threadVars>>

\* reconnect_for_rpc_fallback and the search over the new connection, or an
\* error: the mapping stays as it was.
Reconnect(c) ==
  /\ client[c] = "broken"
  /\ client' = [client EXCEPT ![c] = "idle"]
  /\ \/ conn' = [conn EXCEPT ![c] = epoch]
     \/ UNCHANGED conn
  /\ UNCHANGED <<feedVars, cache, local, inWindow, floor, threadVars>>

\* 250 ms have passed since last_handshake.
WindowEnds(c) ==
  /\ inWindow[c]
  /\ inWindow' = [inWindow EXCEPT ![c] = FALSE]
  /\ floor' = [floor EXCEPT ![c] = NoFloor]
  /\ UNCHANGED <<feedVars, cache, client, conn, local, threadVars>>

-----------------------------------------------------------------------------
(* The connection's thread: ShareIndex. *)

MappingOf(v, base) ==
  [epoch |-> v.epoch, generation |-> v.generation, base |-> base,
   overlayOf |-> v.base, seen |-> v.seen]

\* load_full, and the answer if the client has that generation.
Load(c) ==
  /\ client[c] = "asked" /\ conn[c] # 0 /\ snapshot[c] = NoView /\ answer[c] = NoAnswer
  /\ IF view.generation = local[c].generation
     THEN /\ answer' = [answer EXCEPT ![c] = [kind |-> "current", mapping |-> MappingOf(view, view.base)]]
          /\ UNCHANGED snapshot
     ELSE snapshot' = [snapshot EXCEPT ![c] = view] /\ UNCHANGED answer
  /\ UNCHANGED <<feedVars, cache, clientVars>>

\* Where the cache has the generation.
CachedFor(g) == {i \in DOMAIN cache : cache[i].generation = g}

\* find: the first of them.
Found(g) == cache[CHOOSE i \in CachedFor(g) : \A j \in CachedFor(g) : i <= j]

\* Mutant: nothing is evicted.
Push_Unbounded(entry) == Append(cache, entry)

\* The oldest entry makes room for a third.
Push(entry) ==
  LET pushed == Append(cache, entry)
  IN  IF Len(pushed) > SHARED_SECTION_CACHE_GENERATIONS THEN Tail(pushed) ELSE pushed

\* The base found for a view, and the cache after that.
SharedBase(v) == IF CachedFor(v.generation) = {} THEN v.base ELSE Found(v.generation).base
CacheWith(v, base) ==
  IF CachedFor(v.generation) = {} THEN Push([generation |-> v.generation, base |-> base]) ELSE cache

\* Mutant: the section is made of the store's view, loaded again.
ShareSection_LoadsAgain(c) ==
  /\ client[c] = "asked" /\ conn[c] # 0 /\ snapshot[c] # NoView
  /\ LET base == IF CachedFor(snapshot[c].generation) = {} THEN view.base ELSE SharedBase(snapshot[c])
     IN  /\ cache' = CacheWith(snapshot[c], base)
         /\ answer' = [answer EXCEPT ![c] =
                         [kind |-> "section", mapping |-> MappingOf(snapshot[c], base)]]
  /\ snapshot' = [snapshot EXCEPT ![c] = NoView]
  /\ UNCHANGED <<feedVars, clientVars>>

\* shared_section_from_cache, under the cache's lock, and the response.
ShareSection(c) ==
  /\ client[c] = "asked" /\ conn[c] # 0 /\ snapshot[c] # NoView
  /\ LET base == SharedBase(snapshot[c])
     IN  /\ cache' = CacheWith(snapshot[c], base)
         /\ answer' = [answer EXCEPT ![c] =
                         [kind |-> "section", mapping |-> MappingOf(snapshot[c], base)]]
  /\ snapshot' = [snapshot EXCEPT ![c] = NoView]
  /\ UNCHANGED <<feedVars, clientVars>>

\* A section that cannot be made, or once made and cached not duplicated for
\* the client, ends the connection.
ShareFails(c) ==
  /\ client[c] = "asked" /\ conn[c] # 0 /\ snapshot[c] # NoView
  /\ cache' \in {cache, CacheWith(snapshot[c], SharedBase(snapshot[c]))}
  /\ snapshot' = [snapshot EXCEPT ![c] = NoView]
  /\ conn' = [conn EXCEPT ![c] = 0]
  /\ UNCHANGED <<feedVars, client, local, inWindow, floor, answer>>

Next ==
  \/ Change \/ PublishDelta \/ PublishBase \/ Restart
  \/ \E c \in Clients :
       \/ Ask(c) \/ Take(c) \/ TakeFails(c) \/ Reconnect(c) \/ WindowEnds(c)
       \/ Load(c) \/ ShareSection(c) \/ ShareFails(c)

Spec == Init /\ [][Next]_vars

-----------------------------------------------------------------------------
(* Properties *)

MaxBases == MaxEpoch * MaxGeneration

Views == [epoch : 0 .. MaxEpoch, generation : 0 .. MaxGeneration,
          base : 0 .. MaxBases, seen : 0 .. MaxChanges]
Mappings == [epoch : 0 .. MaxEpoch, generation : 0 .. MaxGeneration,
             base : 0 .. MaxBases, overlayOf : 0 .. MaxBases, seen : 0 .. MaxChanges]

TypeOK ==
  /\ volume \in 0 .. MaxChanges /\ epoch \in 1 .. MaxEpoch /\ generation \in 1 .. MaxGeneration
  /\ bases \in 1 .. MaxBases /\ disk \in 1 .. bases /\ view \in Views
  /\ cache \in Seq([generation : 1 .. MaxGeneration, base : 1 .. MaxBases])
  /\ Len(cache) <= SHARED_SECTION_CACHE_GENERATIONS
  /\ client \in [Clients -> {"idle", "asked", "broken"}]
  /\ conn \in [Clients -> 0 .. MaxEpoch]
  /\ local \in [Clients -> Mappings] /\ inWindow \in [Clients -> BOOLEAN]
  /\ snapshot \in [Clients -> Views] /\ floor \in [Clients -> [epoch : 0 .. MaxEpoch, seen : 0 .. MaxChanges]]
  /\ answer \in [Clients -> [kind : {"none", "current", "section"}, mapping : Mappings]]

\* A client never searches a base with another base's overlay, whatever the
\* worker publishes while its thread answers and whatever the cache holds.
MappingCoherent ==
  \A c \in Clients : local[c].base = local[c].overlayOf

\* What a client searches without asking is at most the window older than what
\* was published when it last asked, if it asked the daemon the mapping is from;
\* and there is something that it searches.
WindowBoundsStaleness ==
  \A c \in Clients : inWindow[c] =>
    /\ local[c] # NoMapping
    /\ local[c].epoch = floor[c].epoch => local[c].seen >= floor[c].seen

\* What the code's own words promise and it does not do.

\* Serving from the mapping costs at most the window in staleness.
HandshakeRenews == \A c \in Clients : inWindow[c] => local[c].seen >= floor[c].seen
=============================================================================
