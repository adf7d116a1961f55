----------------------------- MODULE Connection -----------------------------
(***************************************************************************)
(* One client of the daemon and its connection: the client library's       *)
(* latest-wins session, the pipe, and the daemon's two threads for it.     *)
(* A request is a number, in the order written; a reply carries it.        *)
(***************************************************************************)
EXTENDS Integers, Sequences

CONSTANTS
  MaxRequests,    \* bound: requests the client writes
  MaxExits,       \* bound: times the daemon exits
  ReplyCapacity   \* replies the pipe holds before the daemon has to wait

ASSUME ConnectionAssumption ==
  MaxRequests \in Nat /\ MaxExits \in Nat /\ ReplyCapacity \in Nat \ {0}

VARIABLES
  client,      \* what the client library is doing
  sent,        \* requests written so far
  newest,      \* the last one of an interactive session, 0 at first
  pending,     \* Client::pending_interactive
  shown,       \* what the last result handed to the application answers
  requests,    \* the pipe, towards the daemon
  replies,     \* and towards the client
  thread,      \* the connection's thread: handle_connection
  req,         \* the request it is working on, 0 if none
  reply,       \* the response it has built
  moved,       \* generation differs from what begin_request took
  observation, \* the mutex of that name: is it held?
  stop,        \* the flag that ends the peeker
  peeker,      \* the peeking thread
  seen,        \* what it saw: unread bytes?
  daemon,      \* "up" or "down"
  exits,       \* times it has exited
  mixed        \* history: a call that waits for one frame was made with replies owed

clientVars == <<client, sent, newest, pending, shown, mixed>>
pipe       == <<requests, replies>>
threadVars == <<thread, req, reply, stop>>
cancelVars == <<moved, observation, peeker, seen>>
daemonVars == <<daemon, exits>>
vars == <<clientVars, pipe, threadVars, cancelVars, daemonVars>>

NoReply == [to |-> 0, kind |-> "results"]

Init ==
  /\ client = "ready" /\ sent = 0 /\ newest = 0 /\ pending = 0 /\ shown = 0
  /\ mixed = FALSE /\ daemon = "up" /\ exits = 0
  /\ requests = <<>> /\ replies = <<>>
  /\ thread = "read" /\ req = 0 /\ reply = NoReply /\ stop = FALSE
  /\ moved = FALSE /\ observation = FALSE /\ peeker = "check" /\ seen = FALSE

\* The daemon drops its end once both threads are done with it.
Open == thread # "ended"

-----------------------------------------------------------------------------
(* The client. One thread of the application makes one call at a time. *)

Write(kind) ==
  /\ Open /\ sent < MaxRequests
  /\ sent' = sent + 1
  /\ requests' = Append(requests, [id |-> sent + 1, kind |-> kind])
  /\ UNCHANGED replies

\* send_interactive: written without waiting for its response.
Submit ==
  /\ client = "ready"
  /\ Write("search")
  /\ newest' = sent + 1 /\ pending' = pending + 1
  /\ UNCHANGED <<client, shown, mixed, threadVars, cancelVars, daemonVars>>

Read == replies # <<>> /\ replies' = Tail(replies) /\ UNCHANGED requests

\* Mutant: a poll returns the first reply there is.
Poll_First ==
  /\ client \in {"ready", "polling"} /\ pending > 0
  /\ Read
  /\ pending' = pending - 1
  /\ shown' = Head(replies).to /\ client' = "ready"
  /\ UNCHANGED <<sent, newest, mixed, threadVars, cancelVars, daemonVars>>

\* try_recv_interactive, one turn of its loop: a frame that is there is read,
\* and returned if it is the last one owed.
Poll ==
  /\ client \in {"ready", "polling"} /\ pending > 0
  /\ Read
  /\ pending' = pending - 1
  /\ IF pending = 1 THEN shown' = Head(replies).to /\ client' = "ready"
                    ELSE client' = "polling" /\ UNCHANGED shown
  /\ UNCHANGED <<sent, newest, mixed, threadVars, cancelVars, daemonVars>>

\* The loop ends with nothing to return.
PollNothing ==
  /\ client = "polling" /\ replies = <<>>
  /\ client' = "ready"
  /\ UNCHANGED <<sent, newest, pending, shown, mixed, pipe, threadVars, cancelVars, daemonVars>>

\* recv_interactive starts; it must not be called with nothing owed.
Wait ==
  /\ client = "ready" /\ pending > 0
  /\ client' = "waiting"
  /\ UNCHANGED <<sent, newest, pending, shown, mixed, pipe, threadVars, cancelVars, daemonVars>>

\* It reads every frame owed and returns the last.
WaitRead ==
  /\ client = "waiting" /\ pending > 0
  /\ Read
  /\ pending' = pending - 1
  /\ IF pending = 1 THEN shown' = Head(replies).to /\ client' = "ready"
                    ELSE UNCHANGED <<client, shown>>
  /\ UNCHANGED <<sent, newest, mixed, threadVars, cancelVars, daemonVars>>

\* query_ordered (and stats): one request, and the next frame is its answer.
Query ==
  /\ client = "ready"
  /\ Write("search")
  /\ client' = "querying" /\ mixed' = (mixed \/ pending > 0)
  /\ UNCHANGED <<newest, pending, shown, threadVars, cancelVars, daemonVars>>

QueryRead ==
  /\ client = "querying"
  /\ Read
  /\ client' = "ready"
  /\ UNCHANGED <<sent, newest, pending, shown, mixed, threadVars, cancelVars, daemonVars>>

\* search_local: the handshake asks for the index.
Share ==
  /\ client = "ready"
  /\ Write("share")
  /\ client' = "sharing" /\ mixed' = (mixed \/ pending > 0)
  /\ UNCHANGED <<newest, pending, shown, threadVars, cancelVars, daemonVars>>

\* On a broken pipe its write fails at once.
ShareFails ==
  /\ client = "ready" /\ ~Open
  /\ client' = "reconnecting" /\ mixed' = (mixed \/ pending > 0)
  /\ UNCHANGED <<sent, newest, pending, shown, pipe, threadVars, cancelVars, daemonVars>>

\* The next frame is taken for the answer. One that does not decode as one
\* sends the client to a new connection. A mapping that cannot be used is
\* followed by a Query over this one.
ShareRead ==
  /\ client = "sharing"
  /\ Read
  /\ client' = IF Head(replies).kind = "shared" THEN "ready" ELSE "reconnecting"
  /\ UNCHANGED <<sent, newest, pending, shown, mixed, threadVars, cancelVars, daemonVars>>

\* reconnect_for_rpc_fallback: the old pipe is dropped for a new one and the
\* search asked over it. What was owed over the old one stays counted. The
\* old one's threads are not followed further; they end as Disconnect's do.
Reconnect ==
  /\ client = "reconnecting"
  /\ \/ /\ daemon = "up" /\ sent < MaxRequests
        /\ requests' = <<>> /\ replies' = <<>>
        /\ thread' = "read" /\ req' = 0 /\ reply' = NoReply /\ stop' = FALSE
        /\ moved' = FALSE /\ observation' = FALSE /\ peeker' = "check" /\ seen' = FALSE
        /\ client' = "requery"
     \/ /\ client' = "ready"
        /\ UNCHANGED <<pipe, threadVars, cancelVars>>
  /\ UNCHANGED <<sent, newest, pending, shown, mixed, daemonVars>>

\* The search over the new connection.
Requery ==
  /\ client = "requery"
  /\ \/ Write("search") /\ client' = "querying"
     \/ ~Open /\ client' = "ready" /\ UNCHANGED <<sent, pipe>>
  /\ UNCHANGED <<newest, pending, shown, mixed, threadVars, cancelVars, daemonVars>>

\* A read on a pipe the daemon has dropped fails once it is drained.
ReadFails ==
  /\ client \in {"waiting", "querying", "sharing"} /\ ~Open /\ replies = <<>>
  /\ client' = IF client = "sharing" THEN "reconnecting" ELSE "ready"
  /\ UNCHANGED <<sent, newest, pending, shown, mixed, pipe, threadVars, cancelVars, daemonVars>>

\* The application drops the client, or dies.
Disconnect ==
  /\ client # "gone"
  /\ client' = "gone"
  /\ UNCHANGED <<sent, newest, pending, shown, mixed, pipe, threadVars, cancelVars, daemonVars>>

-----------------------------------------------------------------------------
(* The connection's thread: read, search, write, one request at a time. *)

ReadFrame ==
  /\ thread = "read" /\ requests # <<>>
  /\ req' = Head(requests).id
  /\ reply' = [to |-> Head(requests).id,
               kind |-> IF Head(requests).kind = "share" THEN "shared" ELSE "results"]
  /\ requests' = Tail(requests)
  /\ thread' = "begin"
  /\ UNCHANGED <<clientVars, replies, stop, cancelVars, daemonVars>>

\* Mutant: the generation is taken without the lock.
BeginRequest_NoLock ==
  /\ thread = "begin"
  /\ moved' = FALSE
  /\ thread' = "search"
  /\ UNCHANGED <<clientVars, pipe, req, reply, stop, observation, peeker, seen, daemonVars>>

\* Mutant: the lock is kept for the request.
BeginRequest_KeepsLock ==
  /\ thread = "begin" /\ ~observation
  /\ moved' = FALSE
  /\ observation' = TRUE
  /\ thread' = "search"
  /\ UNCHANGED <<clientVars, pipe, req, reply, stop, peeker, seen, daemonVars>>

\* begin_request takes the generation under the lock.
BeginRequest ==
  /\ thread = "begin" /\ ~observation
  /\ moved' = FALSE
  /\ thread' = "search"
  /\ UNCHANGED <<clientVars, pipe, req, reply, stop, observation, peeker, seen, daemonVars>>

\* What a request may be answered with: a search that finds the generation
\* moved at one of its checks answers with nothing, but its last check may be
\* past; a request to share is refused where several volumes are indexed.
Outcomes ==
  CASE reply.kind = "shared" -> {"shared", "results"}
    [] moved                 -> {"superseded", "results"}
    [] OTHER                 -> {"results"}

\* handle_request. A failure to share the section ends the connection.
HandleRequest ==
  /\ thread = "search"
  /\ \/ /\ \E kind \in Outcomes : reply' = [reply EXCEPT !.kind = kind]
        /\ thread' = "write" /\ UNCHANGED stop
     \/ /\ reply.kind = "shared"
        /\ thread' = "join" /\ stop' = TRUE /\ UNCHANGED reply
  /\ UNCHANGED <<clientVars, pipe, req, cancelVars, daemonVars>>

\* Mutant: a write does not wait for room.
WriteFrame_NoWait ==
  /\ thread = "write" /\ client # "gone"
  /\ replies' = Append(replies, reply)
  /\ thread' = "read" /\ req' = 0 /\ reply' = NoReply
  /\ UNCHANGED <<clientVars, requests, stop, cancelVars, daemonVars>>

\* Mutant: a superseded request is not answered.
WriteFrame_SkipsSuperseded ==
  /\ thread = "write" /\ client # "gone" /\ Len(replies) < ReplyCapacity
  /\ replies' = IF reply.kind = "superseded" THEN replies ELSE Append(replies, reply)
  /\ thread' = "read" /\ req' = 0 /\ reply' = NoReply
  /\ UNCHANGED <<clientVars, requests, stop, cancelVars, daemonVars>>

\* One frame per request. The write waits for room in the pipe.
WriteFrame ==
  /\ thread = "write" /\ client # "gone" /\ Len(replies) < ReplyCapacity
  /\ replies' = Append(replies, reply)
  /\ thread' = "read" /\ req' = 0 /\ reply' = NoReply
  /\ UNCHANGED <<clientVars, requests, stop, cancelVars, daemonVars>>

\* Mutant: the peeker is not told to stop.
HangUp_NoStop ==
  /\ client = "gone"
  /\ thread = "write" \/ (thread = "read" /\ requests = <<>>)
  /\ thread' = "join"
  /\ UNCHANGED <<clientVars, pipe, req, reply, stop, cancelVars, daemonVars>>

\* The client has left: reading fails once the pipe is empty, writing at once.
HangUp ==
  /\ client = "gone"
  /\ thread = "write" \/ (thread = "read" /\ requests = <<>>)
  /\ thread' = "join" /\ stop' = TRUE
  /\ UNCHANGED <<clientVars, pipe, req, reply, cancelVars, daemonVars>>

\* The peeker has ended: the pipe is dropped.
Join ==
  /\ thread = "join" /\ peeker = "ended"
  /\ thread' = "ended"
  /\ UNCHANGED <<clientVars, pipe, req, reply, stop, cancelVars, daemonVars>>

-----------------------------------------------------------------------------
(* The peeking thread: observe_pending, then 1 ms of sleep. *)

PeekerLock ==
  /\ peeker = "check" /\ ~stop /\ ~observation
  /\ observation' = TRUE
  /\ peeker' = "peek"
  /\ UNCHANGED <<clientVars, pipe, threadVars, moved, seen, daemonVars>>

\* A peek shows unread bytes, or none, or that the client has left.
Peek ==
  /\ peeker = "peek"
  /\ IF client = "gone" /\ requests = <<>>
     THEN peeker' = "ended" /\ observation' = FALSE /\ UNCHANGED seen
     ELSE peeker' = "publish" /\ seen' = (requests # <<>>) /\ UNCHANGED observation
  /\ UNCHANGED <<clientVars, pipe, threadVars, moved, daemonVars>>

\* What was seen moves the generation, and the lock is released.
PeekerPublish ==
  /\ peeker = "publish"
  /\ moved' = (moved \/ seen)
  /\ seen' = FALSE /\ observation' = FALSE
  /\ peeker' = "check"
  /\ UNCHANGED <<clientVars, pipe, threadVars, daemonVars>>

PeekerStops ==
  /\ peeker = "check" /\ stop
  /\ peeker' = "ended"
  /\ UNCHANGED <<clientVars, pipe, threadVars, moved, observation, seen, daemonVars>>

-----------------------------------------------------------------------------
(* The daemon's process. *)

\* It exits, with its threads and its end of the pipe.
DaemonExits ==
  /\ daemon = "up" /\ exits < MaxExits
  /\ daemon' = "down" /\ exits' = exits + 1
  /\ thread' = "ended" /\ peeker' = "ended" /\ observation' = FALSE
  /\ requests' = <<>>
  /\ UNCHANGED <<clientVars, replies, req, reply, stop, moved, seen>>

DaemonStarts ==
  /\ daemon = "down"
  /\ daemon' = "up"
  /\ UNCHANGED <<clientVars, pipe, threadVars, cancelVars, exits>>

Client ==
  \/ Submit \/ Poll \/ PollNothing \/ Wait \/ WaitRead
  \/ Query \/ QueryRead \/ Share \/ ShareFails \/ ShareRead
  \/ Reconnect \/ Requery \/ ReadFails \/ Disconnect

Thread == ReadFrame \/ BeginRequest \/ HandleRequest \/ WriteFrame \/ HangUp \/ Join

Peeker == PeekerLock \/ Peek \/ PeekerPublish \/ PeekerStops

Next == Client \/ Thread \/ Peeker \/ DaemonExits \/ DaemonStarts

Spec == Init /\ [][Next]_vars

\* The application calls poll_latest in its event loop, and a call it has
\* made goes on; both threads are scheduled, and the peeker's millisecond of
\* sleep leaves the lock to begin_request. A search ends when it is the
\* newest, or finds that it is superseded; another one might take for ever.
LiveSpec ==
  /\ Spec
  /\ WF_vars(Poll) /\ WF_vars(PollNothing \/ WaitRead \/ QueryRead \/ ShareRead)
  /\ WF_vars(ReadFrame) /\ SF_vars(BeginRequest)
  /\ WF_vars(HandleRequest /\ (moved \/ req = sent))
  /\ WF_vars(WriteFrame) /\ WF_vars(HangUp) /\ WF_vars(Join)
  /\ WF_vars(Peeker)

-----------------------------------------------------------------------------
(* Properties *)

Requests == [id : 1 .. MaxRequests, kind : {"search", "share"}]
Replies  == [to : 0 .. MaxRequests, kind : {"results", "superseded", "shared"}]

ClientTypes ==
  /\ client \in {"ready", "polling", "waiting", "querying", "sharing",
                 "reconnecting", "requery", "gone"}
  /\ sent \in 0 .. MaxRequests /\ newest \in 0 .. sent
  /\ pending \in Nat /\ shown \in 0 .. MaxRequests

PipeTypes ==
  /\ requests \in Seq(Requests)
  /\ replies \in Seq(Replies) /\ Len(replies) <= ReplyCapacity

ThreadTypes ==
  /\ thread \in {"read", "begin", "search", "write", "join", "ended"}
  /\ req \in 0 .. MaxRequests /\ reply \in Replies

PeekerTypes == peeker \in {"check", "peek", "publish", "ended"}

FlagTypes ==
  /\ moved \in BOOLEAN /\ observation \in BOOLEAN /\ seen \in BOOLEAN
  /\ stop \in BOOLEAN /\ mixed \in BOOLEAN

DaemonTypes == daemon \in {"up", "down"} /\ exits \in 0 .. MaxExits

TypeOK ==
  ClientTypes /\ PipeTypes /\ ThreadTypes /\ PeekerTypes /\ FlagTypes /\ DaemonTypes

\* Requests written whose reply the client has not read, and replies it
\* counts on.
Working  == IF req = 0 THEN 0 ELSE 1
InFlight == Len(replies) + Working + Len(requests)
Owed     == pending + (IF client \in {"querying", "sharing"} THEN 1 ELSE 0)

Serving == client # "gone" /\ thread \notin {"join", "ended"}

\* Framing stays 1:1, superseded or not: what is on its way is exactly what
\* the client counts on, in the order it asked. Draining by count depends on
\* this.
FramesInOrder ==
  /\ Serving /\ ~mixed => InFlight = Owed
  /\ thread \in {"begin", "search", "write"} => req = sent - Len(requests)
  /\ \A i \in DOMAIN requests : requests[i].id = sent - Len(requests) + i
  /\ client # "gone" /\ ~mixed =>
       \A i \in DOMAIN replies : replies[i].to = sent - Owed + i

\* A result handed to the application answers its newest query, whatever
\* replies of older ones were still under way.
LatestWins == [][shown' # shown => mixed \/ shown' = newest]_vars

\* Only a request that a newer one has overtaken is answered with nothing: an
\* observation of a request's own bytes does not cancel it.
NewestNotSuperseded ==
  /\ \A i \in DOMAIN replies : replies[i].kind = "superseded" => replies[i].to < sent
  /\ reply.kind = "superseded" => reply.to < sent

\* The newest query is answered while the connection lasts, even when the
\* ones before it would never end if they were not cancelled.
NewestAnswered ==
  \A n \in 1 .. MaxRequests :
    (newest = n /\ pending > 0) ~>
      (shown = n \/ newest # n \/ mixed \/ client = "gone" \/ ~Open)

\* A client that leaves leaves no thread behind, whatever it left unread.
ThreadsEnd == (client = "gone") ~> (thread = "ended" /\ peeker = "ended")
=============================================================================
