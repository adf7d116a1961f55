-------------------------- MODULE ConnectionProofs --------------------------
(***************************************************************************)
(* The framing and cancellation of a connection, for any number of         *)
(* requests, exits of the daemon and replies that fit into the pipe.       *)
(***************************************************************************)
EXTENDS Connection, TLAPS, SequenceTheorems

-----------------------------------------------------------------------------
(* The inductive invariant. *)

\* The lock is the peeker's from before the peek to after the publication.
LockOK == observation <=> (peeker \in {"peek", "publish"})

\* A request is being worked on exactly while the thread is past reading it.
WorkOK ==
  /\ thread = "read" => req = 0
  /\ thread \in {"begin", "search", "write"} => req # 0 /\ reply.to = req

\* Calls that wait for one frame are made with nothing owed, but for mixed ones.
OwedOK ==
  ~mixed =>
    /\ client \in {"querying", "sharing", "reconnecting", "requery"} => pending = 0
    /\ pending > 0 => newest = sent
    /\ client # "gone" => Len(replies) <= Owed

\* A moved generation, and an observation about to move it, mean that a newer
\* request has been written.
MovedOK ==
  thread = "search" /\ (moved \/ (peeker = "publish" /\ seen)) => req < sent

ConnectionInv ==
  TypeOK /\ LockOK /\ WorkOK /\ OwedOK /\ FramesInOrder /\ MovedOK /\ NewestNotSuperseded

-----------------------------------------------------------------------------

LEMMA InitInv == Init => ConnectionInv
<1> SUFFICES ASSUME Init PROVE ConnectionInv
  OBVIOUS
<1>1. ClientTypes
  BY ConnectionAssumption DEF Init, ClientTypes
<1>2. PipeTypes
  BY ConnectionAssumption DEF Init, PipeTypes
<1>3. ThreadTypes
  BY ConnectionAssumption DEF Init, ThreadTypes, Replies, NoReply
<1>4. PeekerTypes /\ FlagTypes
  BY DEF Init, PeekerTypes, FlagTypes
<1>5. DaemonTypes
  BY ConnectionAssumption DEF Init, DaemonTypes
<1>6. LockOK /\ WorkOK /\ MovedOK
  BY DEF Init, LockOK, WorkOK, MovedOK
<1>7. OwedOK /\ FramesInOrder
  BY DEF Init, OwedOK, FramesInOrder, Owed, Serving, InFlight, Working
<1>8. NewestNotSuperseded
  BY DEF Init, NewestNotSuperseded, NoReply
<1> QED  BY <1>1, <1>2, <1>3, <1>4, <1>5, <1>6, <1>7, <1>8 DEF ConnectionInv, TypeOK

-----------------------------------------------------------------------------
(* Types. *)

\* What reading and writing do to the two directions of the pipe.
LEMMA WriteStep ==
  ASSUME ClientTypes, PipeTypes, NEW kind \in {"search", "share"}, Write(kind)
  PROVE  /\ sent' = sent + 1 /\ sent' \in 0 .. MaxRequests /\ PipeTypes' /\ replies' = replies
         /\ Len(requests') = Len(requests) + 1
         /\ \A i \in DOMAIN requests' :
              \/ i \in DOMAIN requests /\ requests'[i] = requests[i]
              \/ i = Len(requests') /\ requests'[i].id = sent'
<1> DEFINE r == [id |-> sent + 1, kind |-> kind]
<1>1. r \in Requests /\ sent' = sent + 1 /\ sent' \in 0 .. MaxRequests
      /\ requests' = Append(requests, r) /\ replies' = replies
  BY ConnectionAssumption DEF ClientTypes, Write, Requests
<1>2. /\ Append(requests, r) \in Seq(Requests) /\ Len(Append(requests, r)) = Len(requests) + 1
      /\ \A i \in 1 .. Len(requests) : Append(requests, r)[i] = requests[i]
      /\ Append(requests, r)[Len(requests) + 1] = r
      /\ Len(requests) \in Nat
  BY <1>1, AppendProperties DEF PipeTypes
<1> QED  BY <1>1, <1>2 DEF PipeTypes

LEMMA ReadStep ==
  ASSUME PipeTypes, Read
  PROVE  /\ PipeTypes' /\ requests' = requests /\ Len(replies) \in Nat \ {0}
         /\ Head(replies) = replies[1] /\ Head(replies) \in Replies
         /\ Len(replies') = Len(replies) - 1
         /\ \A i \in DOMAIN replies' : i + 1 \in DOMAIN replies /\ replies'[i] = replies[i + 1]
<1>1. replies \in Seq(Replies) /\ replies # <<>> /\ replies' = Tail(replies) /\ requests' = requests
  BY DEF PipeTypes, Read
<1>2. /\ Tail(replies) \in Seq(Replies) /\ Len(Tail(replies)) = Len(replies) - 1
      /\ \A i \in 1 .. Len(Tail(replies)) : Tail(replies)[i] = replies[i + 1]
      /\ Len(replies) \in Nat \ {0} /\ Head(replies) = replies[1] /\ Head(replies) \in Replies
  BY <1>1
<1>3. Len(replies') <= ReplyCapacity
  BY <1>1, <1>2, ConnectionAssumption DEF PipeTypes
<1> QED  BY <1>1, <1>2, <1>3 DEF PipeTypes

LEMMA ReadFrameStep ==
  ASSUME PipeTypes, ReadFrame
  PROVE  /\ PipeTypes' /\ replies' = replies /\ Len(requests) \in Nat \ {0}
         /\ req' = requests[1].id /\ req' \in 1 .. MaxRequests
         /\ reply' \in Replies /\ reply'.to = req' /\ reply'.kind # "superseded"
         /\ Len(requests') = Len(requests) - 1
         /\ \A i \in DOMAIN requests' : i + 1 \in DOMAIN requests /\ requests'[i] = requests[i + 1]
<1>1. /\ requests \in Seq(Requests) /\ requests # <<>> /\ requests' = Tail(requests)
      /\ replies' = replies /\ req' = Head(requests).id
      /\ reply' = [to |-> Head(requests).id,
                   kind |-> IF Head(requests).kind = "share" THEN "shared" ELSE "results"]
  BY DEF PipeTypes, ReadFrame
<1>2. /\ Tail(requests) \in Seq(Requests) /\ Len(Tail(requests)) = Len(requests) - 1
      /\ \A i \in 1 .. Len(Tail(requests)) : Tail(requests)[i] = requests[i + 1]
      /\ Len(requests) \in Nat \ {0} /\ Head(requests) = requests[1] /\ Head(requests) \in Requests
  BY <1>1
<1>3. Head(requests).id \in 1 .. MaxRequests
  BY <1>2 DEF Requests
<1>4. reply' \in Replies /\ reply'.to = req' /\ reply'.kind # "superseded"
  BY <1>1, <1>3, ConnectionAssumption DEF Replies
<1> QED  BY <1>1, <1>2, <1>3, <1>4 DEF PipeTypes

\* Only the client's calls touch the client's variables.
LEMMA ClientFrame ==
  Thread \/ Peeker \/ DaemonExits \/ DaemonStarts \/ UNCHANGED vars => UNCHANGED clientVars
BY DEF Thread, ReadFrame, BeginRequest, HandleRequest, WriteFrame, HangUp, Join,
       Peeker, PeekerLock, Peek, PeekerPublish, PeekerStops, DaemonExits, DaemonStarts, vars

\* And of those only a reconnection touches the daemon's.
LEMMA DaemonFrame ==
  Client => \/ UNCHANGED <<threadVars, cancelVars, daemonVars>>
            \/ Reconnect
BY DEF Client, Submit, Poll, PollNothing, Wait, WaitRead, Query, QueryRead, Share,
       ShareFails, ShareRead, Requery, ReadFails, Disconnect

\* Calls that neither read nor write.
Quiet == PollNothing \/ Wait \/ ShareFails \/ ReadFails \/ Disconnect

LEMMA ClientTypesStep ==
  ASSUME TypeOK, [Next]_vars
  PROVE  ClientTypes' /\ PipeTypes'
<1> USE DEF TypeOK
<1>1. CASE Submit
  <2>1. Write("search") /\ client' = client /\ newest' = sent + 1
        /\ pending' = pending + 1 /\ shown' = shown
    BY <1>1 DEF Submit
  <2> QED  BY <2>1, WriteStep DEF ClientTypes
<1>2. CASE Poll \/ WaitRead
  <2>1. /\ Read /\ pending' = pending - 1 /\ pending > 0 /\ sent' = sent /\ newest' = newest
        /\ client' \in {client, "ready", "polling"}
        /\ shown' = shown \/ shown' = Head(replies).to
    BY <1>2 DEF Poll, WaitRead
  <2>2. Head(replies).to \in 0 .. MaxRequests
    BY <2>1, ReadStep DEF Replies
  <2> QED  BY <2>1, <2>2, ReadStep DEF ClientTypes
<1>3. CASE Query \/ Share
  <2>1. (Write("search") \/ Write("share")) /\ client' \in {"querying", "sharing"}
        /\ newest' = newest /\ pending' = pending /\ shown' = shown
    BY <1>3 DEF Query, Share
  <2> QED  BY <2>1, WriteStep DEF ClientTypes
<1>4. CASE QueryRead \/ ShareRead
  <2>1. Read /\ client' \in {"ready", "reconnecting"} /\ UNCHANGED <<sent, newest, pending, shown>>
    BY <1>4 DEF QueryRead, ShareRead
  <2> QED  BY <2>1, ReadStep DEF ClientTypes
<1>5. CASE Quiet
  BY <1>5 DEF Quiet, PollNothing, Wait, ShareFails, ReadFails, Disconnect, pipe,
              ClientTypes, PipeTypes
<1>6. CASE Reconnect
  <2>1. /\ UNCHANGED <<sent, newest, pending, shown>> /\ client' \in {"requery", "ready"}
        /\ (requests' = <<>> /\ replies' = <<>>) \/ UNCHANGED pipe
    BY <1>6 DEF Reconnect
  <2>2. CASE requests' = <<>> /\ replies' = <<>>
    <3>1. <<>> \in Seq(Requests) /\ <<>> \in Seq(Replies) /\ Len(<<>>) = 0
      OBVIOUS
    <3> QED  BY <2>1, <2>2, <3>1, ConnectionAssumption DEF ClientTypes, PipeTypes
  <2>3. CASE UNCHANGED pipe
    BY <2>1, <2>3 DEF ClientTypes, PipeTypes, pipe
  <2> QED  BY <2>1, <2>2, <2>3
<1>7. CASE Requery
  <2>1. /\ UNCHANGED <<newest, pending, shown>> /\ client' \in {"querying", "ready"}
        /\ Write("search") \/ UNCHANGED <<sent, pipe>>
    BY <1>7 DEF Requery
  <2>2. CASE Write("search")
    BY <2>1, <2>2, WriteStep DEF ClientTypes
  <2>3. CASE UNCHANGED <<sent, pipe>>
    BY <2>1, <2>3 DEF ClientTypes, PipeTypes, pipe
  <2> QED  BY <2>1, <2>2, <2>3
<1>8. CASE Thread \/ Peeker \/ DaemonExits \/ DaemonStarts \/ UNCHANGED vars
  <2>1. ClientTypes'
    BY <1>8, ClientFrame DEF clientVars, ClientTypes
  <2>2. CASE ReadFrame
    BY <2>1, <2>2, ReadFrameStep
  <2>3. CASE WriteFrame
    <3>1. /\ replies' = Append(replies, reply) /\ Len(replies) < ReplyCapacity
          /\ requests' = requests /\ reply \in Replies
      BY <2>3 DEF WriteFrame, ThreadTypes
    <3>2. Append(replies, reply) \in Seq(Replies) /\ Len(Append(replies, reply)) = Len(replies) + 1
          /\ Len(replies) \in Nat
      BY <3>1, AppendProperties DEF PipeTypes
    <3> QED  BY <2>1, <3>1, <3>2, ConnectionAssumption DEF PipeTypes
  <2>4. CASE DaemonExits
    BY <2>1, <2>4 DEF DaemonExits, PipeTypes
  <2>5. CASE ~ReadFrame /\ ~WriteFrame /\ ~DaemonExits
    <3>1. UNCHANGED pipe
      BY <1>8, <2>5 DEF Thread, BeginRequest, HandleRequest, HangUp, Join, Peeker, PeekerLock,
                        Peek, PeekerPublish, PeekerStops, DaemonStarts, vars
    <3> QED  BY <2>1, <3>1 DEF pipe, PipeTypes
  <2> QED  BY <2>2, <2>3, <2>4, <2>5
<1> QED  BY <1>1, <1>2, <1>3, <1>4, <1>5, <1>6, <1>7, <1>8 DEF Next, Client, Quiet

LEMMA DaemonTypesStep ==
  ASSUME TypeOK, [Next]_vars
  PROVE  ThreadTypes' /\ PeekerTypes' /\ DaemonTypes'
<1> USE DEF TypeOK
<1>1. CASE Client /\ ~Reconnect
  BY <1>1, DaemonFrame DEF threadVars, cancelVars, daemonVars, ThreadTypes, PeekerTypes, DaemonTypes
<1>2. CASE Reconnect
  <2>1. /\ UNCHANGED daemonVars
        /\ \/ thread' = "read" /\ req' = 0 /\ reply' = NoReply /\ peeker' = "check"
           \/ UNCHANGED <<threadVars, cancelVars>>
    BY <1>2 DEF Reconnect
  <2>2. NoReply \in Replies /\ 0 \in 0 .. MaxRequests
    BY ConnectionAssumption DEF NoReply, Replies
  <2> QED  BY <2>1, <2>2 DEF threadVars, cancelVars, daemonVars, ThreadTypes, PeekerTypes, DaemonTypes
<1>3. CASE ReadFrame
  <2>1. thread' = "begin" /\ UNCHANGED <<peeker, daemon, exits>>
    BY <1>3 DEF ReadFrame, cancelVars, daemonVars
  <2>2. req' \in 0 .. MaxRequests /\ reply' \in Replies
    BY <1>3, ReadFrameStep
  <2> QED  BY <2>1, <2>2 DEF ThreadTypes, PeekerTypes, DaemonTypes
<1>4. CASE HandleRequest
  <2>1. /\ thread' \in {"write", "join"} /\ UNCHANGED <<req, peeker, daemon, exits>>
        /\ reply' = reply \/ \E kind \in Outcomes : reply' = [reply EXCEPT !.kind = kind]
    BY <1>4 DEF HandleRequest, cancelVars, daemonVars
  <2>2. Outcomes \subseteq {"results", "superseded", "shared"}
    BY DEF Outcomes
  <2>3. reply' \in Replies
    BY <2>1, <2>2 DEF ThreadTypes, Replies
  <2> QED  BY <2>1, <2>3 DEF ThreadTypes, PeekerTypes, DaemonTypes
<1>5. CASE WriteFrame
  <2>1. /\ thread' = "read" /\ req' = 0 /\ reply' = NoReply /\ UNCHANGED <<peeker, daemon, exits>>
    BY <1>5 DEF WriteFrame, cancelVars, daemonVars
  <2>2. NoReply \in Replies /\ 0 \in 0 .. MaxRequests
    BY ConnectionAssumption DEF NoReply, Replies
  <2> QED  BY <2>1, <2>2 DEF ThreadTypes, PeekerTypes, DaemonTypes
<1>6. CASE BeginRequest \/ HangUp \/ Join
  <2>1. thread' \in {"search", "join", "ended"} /\ UNCHANGED <<req, reply, peeker, daemon, exits>>
    BY <1>6 DEF BeginRequest, HangUp, Join, cancelVars, daemonVars
  <2> QED  BY <2>1 DEF ThreadTypes, PeekerTypes, DaemonTypes
<1>7. CASE Peeker
  <2>1. UNCHANGED <<threadVars, daemonVars>> /\ peeker' \in {"check", "peek", "publish", "ended"}
    BY <1>7 DEF Peeker, PeekerLock, Peek, PeekerPublish, PeekerStops
  <2> QED  BY <2>1 DEF threadVars, daemonVars, ThreadTypes, PeekerTypes, DaemonTypes
<1>8. CASE DaemonExits
  <2>1. /\ thread' = "ended" /\ peeker' = "ended" /\ daemon' = "down" /\ exits' = exits + 1
        /\ exits < MaxExits /\ UNCHANGED <<req, reply>>
    BY <1>8 DEF DaemonExits
  <2> QED  BY <2>1, ConnectionAssumption DEF ThreadTypes, PeekerTypes, DaemonTypes
<1>9. CASE DaemonStarts
  BY <1>9 DEF DaemonStarts, threadVars, cancelVars, ThreadTypes, PeekerTypes, DaemonTypes
<1>10. CASE UNCHANGED vars
  BY <1>10 DEF vars, threadVars, cancelVars, daemonVars, ThreadTypes, PeekerTypes, DaemonTypes
<1> QED
  BY <1>1, <1>2, <1>3, <1>4, <1>5, <1>6, <1>7, <1>8, <1>9, <1>10 DEF Next, Thread

LEMMA FlagTypesStep ==
  ASSUME FlagTypes, [Next]_vars
  PROVE  FlagTypes'
<1>1. CASE Client
  <2>1. mixed' = mixed \/ mixed' = (mixed \/ pending > 0)
    BY <1>1 DEF Client, Submit, Poll, PollNothing, Wait, WaitRead, Query, QueryRead, Share,
                ShareFails, ShareRead, Reconnect, Requery, ReadFails, Disconnect
  <2>2. \/ UNCHANGED <<moved, observation, seen, stop>>
        \/ moved' = FALSE /\ observation' = FALSE /\ seen' = FALSE /\ stop' = FALSE
    BY <1>1, DaemonFrame, Zenon DEF Reconnect, threadVars, cancelVars
  <2> QED  BY <2>1, <2>2, Zenon DEF FlagTypes
<1>2. CASE Thread
  BY <1>2, Zenon DEF Thread, ReadFrame, BeginRequest, HandleRequest, WriteFrame, HangUp, Join,
                     clientVars, cancelVars, FlagTypes
<1>3. CASE Peeker
  <2>1. seen' \in {seen, FALSE, TRUE}
    BY <1>3 DEF Peeker, PeekerLock, Peek, PeekerPublish, PeekerStops
  <2>2. /\ mixed' = mixed /\ stop' = stop /\ observation' \in {observation, TRUE, FALSE}
        /\ moved' = moved \/ moved' = (moved \/ seen)
    BY <1>3, Zenon DEF Peeker, PeekerLock, Peek, PeekerPublish, PeekerStops, clientVars, threadVars
  <2> QED  BY <2>1, <2>2, Zenon DEF FlagTypes
<1>4. CASE DaemonExits \/ DaemonStarts \/ UNCHANGED vars
  BY <1>4, Zenon DEF DaemonExits, DaemonStarts, vars, clientVars, threadVars, cancelVars, FlagTypes
<1> QED  BY <1>1, <1>2, <1>3, <1>4 DEF Next

LEMMA LockStep ==
  ASSUME LockOK, [Next]_vars
  PROVE  LockOK'
<1>1. CASE UNCHANGED <<observation, peeker>>
  <2>1. observation' = observation /\ peeker' = peeker
    BY <1>1
  <2> QED  BY <2>1, Zenon DEF LockOK
<1>2. CASE Peeker /\ ~UNCHANGED <<observation, peeker>>
  <2>1. \/ observation' = TRUE /\ peeker' = "peek"
        \/ observation' = FALSE /\ peeker' \in {"check", "ended"}
        \/ observation' = observation /\ peeker = "peek" /\ peeker' = "publish"
        \/ observation' = observation /\ peeker = "check" /\ peeker' = "ended"
    BY <1>2, Zenon DEF Peeker, PeekerLock, Peek, PeekerPublish, PeekerStops
  <2> QED  BY <2>1 DEF LockOK
<1>3. CASE Reconnect \/ DaemonExits
  <2>1. \/ observation' = FALSE /\ peeker' \in {"check", "ended"}
        \/ UNCHANGED <<observation, peeker>>
    BY <1>3, Zenon DEF Reconnect, DaemonExits, cancelVars
  <2> QED  BY <1>1, <2>1 DEF LockOK
<1>4. CASE Client /\ ~Reconnect
  BY <1>1, <1>4, DaemonFrame, Zenon DEF cancelVars
<1>5. CASE Thread \/ DaemonStarts \/ UNCHANGED vars
  BY <1>1, <1>5, Zenon DEF Thread, ReadFrame, BeginRequest, HandleRequest, WriteFrame, HangUp,
     Join, DaemonStarts, cancelVars, vars
<1> QED  BY <1>1, <1>2, <1>3, <1>4, <1>5 DEF Next

LEMMA WorkStep ==
  ASSUME TypeOK, WorkOK, [Next]_vars
  PROVE  WorkOK'
<1>1. CASE UNCHANGED threadVars
  BY <1>1 DEF threadVars, WorkOK
<1>2. CASE ReadFrame
  <2>1. thread' = "begin"
    BY <1>2 DEF ReadFrame
  <2> QED  BY <1>2, <2>1, ReadFrameStep DEF TypeOK, WorkOK
<1>3. CASE HandleRequest
  <2>1. /\ thread = "search" /\ thread' \in {"write", "join"} /\ req' = req
        /\ reply' = reply \/ \E kind \in Outcomes : reply' = [reply EXCEPT !.kind = kind]
    BY <1>3 DEF HandleRequest
  <2>2. reply'.to = reply.to
    BY <2>1 DEF TypeOK, ThreadTypes, Replies
  <2> QED  BY <2>1, <2>2 DEF WorkOK
<1>4. CASE BeginRequest \/ WriteFrame \/ HangUp \/ Join \/ DaemonExits \/ Reconnect
  BY <1>1, <1>4 DEF BeginRequest, WriteFrame, HangUp, Join, DaemonExits, Reconnect, WorkOK
<1>5. CASE Client /\ ~Reconnect
  BY <1>1, <1>5, DaemonFrame
<1>6. CASE Peeker \/ DaemonStarts \/ UNCHANGED vars
  BY <1>1, <1>6 DEF Peeker, PeekerLock, Peek, PeekerPublish, PeekerStops, DaemonStarts, vars
<1> QED  BY <1>1, <1>2, <1>3, <1>4, <1>5, <1>6 DEF Next, Thread

-----------------------------------------------------------------------------
(* Framing. *)

LEMMA Counts ==
  ASSUME TypeOK
  PROVE  /\ Len(requests) \in Nat /\ Len(replies) \in Nat /\ Working \in {0, 1} /\ Owed \in Nat
         /\ sent \in Nat /\ pending \in Nat /\ newest \in Nat
BY ConnectionAssumption DEF TypeOK, ClientTypes, PipeTypes, Working, Owed

\* A request written is one more on its way, and one more owed.
LEMMA WriteFraming ==
  ASSUME TypeOK, TypeOK', FramesInOrder, NEW kind \in {"search", "share"}, Write(kind),
         thread' = thread, req' = req, client # "gone", client' # "gone",
         ~mixed' => ~mixed /\ Owed' = Owed + 1
  PROVE  FramesInOrder'
<1>1. /\ sent' = sent + 1 /\ replies' = replies /\ Len(requests') = Len(requests) + 1
      /\ \A i \in DOMAIN requests' :
           \/ i \in DOMAIN requests /\ requests'[i] = requests[i]
           \/ i = Len(requests') /\ requests'[i].id = sent'
  BY WriteStep DEF TypeOK
<1>2. Working' = Working /\ (Serving' <=> Serving)
  BY DEF Working, Serving
<1>3. Serving' /\ ~mixed' => InFlight' = Owed'
  <2> SUFFICES ASSUME Serving', ~mixed' PROVE InFlight' = Owed'
    OBVIOUS
  <2>1. InFlight = Owed /\ Owed' = Owed + 1
    BY <1>2 DEF FramesInOrder
  <2>2. Len(requests') = Len(requests) + 1 /\ Len(replies') = Len(replies) /\ Working' = Working
    BY <1>1, <1>2
  <2> QED  BY <2>1, <2>2, Counts DEF InFlight
<1>4. thread' \in {"begin", "search", "write"} => req' = sent' - Len(requests')
  BY <1>1, Counts DEF FramesInOrder
<1>5. \A i \in DOMAIN requests' : requests'[i].id = sent' - Len(requests') + i
  <2> SUFFICES ASSUME NEW i \in DOMAIN requests'
               PROVE  requests'[i].id = sent' - Len(requests') + i
    OBVIOUS
  <2>1. CASE i \in DOMAIN requests /\ requests'[i] = requests[i]
    <3>1. requests[i].id = sent - Len(requests) + i /\ i \in Nat
      BY <2>1 DEF FramesInOrder, TypeOK, PipeTypes
    <3> QED  BY <1>1, <2>1, <3>1, Counts
  <2>2. CASE i = Len(requests') /\ requests'[i].id = sent'
    BY <1>1, <2>2, Counts
  <2> QED  BY <1>1, <2>1, <2>2
<1>6. ~mixed' => \A i \in DOMAIN replies' : replies'[i].to = sent' - Owed' + i
  <2> SUFFICES ASSUME ~mixed', NEW i \in DOMAIN replies
               PROVE  replies[i].to = sent' - Owed' + i
    BY <1>1
  <2>1. replies[i].to = sent - Owed + i /\ i \in Nat
    BY DEF FramesInOrder, TypeOK, PipeTypes
  <2> QED  BY <1>1, <2>1, Counts
<1> QED  BY <1>3, <1>4, <1>5, <1>6 DEF FramesInOrder

\* A reply read is one less on its way, and one less owed.
LEMMA ReadFraming ==
  ASSUME TypeOK, TypeOK', FramesInOrder, Read, thread' = thread, req' = req, sent' = sent,
         client # "gone", client' # "gone", ~mixed' => ~mixed, Owed' = Owed - 1
  PROVE  FramesInOrder'
<1>1. /\ requests' = requests /\ Len(replies') = Len(replies) - 1
      /\ \A i \in DOMAIN replies' : i + 1 \in DOMAIN replies /\ replies'[i] = replies[i + 1]
  BY ReadStep DEF TypeOK
<1>2. Working' = Working /\ (Serving' <=> Serving)
  BY DEF Working, Serving
<1>3. Serving' /\ ~mixed' => InFlight' = Owed'
  BY <1>1, <1>2, Counts DEF InFlight, FramesInOrder
<1>4. /\ thread' \in {"begin", "search", "write"} => req' = sent' - Len(requests')
      /\ \A i \in DOMAIN requests' : requests'[i].id = sent' - Len(requests') + i
  BY <1>1 DEF FramesInOrder
<1>5. ~mixed' => \A i \in DOMAIN replies' : replies'[i].to = sent' - Owed' + i
  <2> SUFFICES ASSUME ~mixed', NEW i \in DOMAIN replies'
               PROVE  replies'[i].to = sent - Owed' + i
    OBVIOUS
  <2>1. replies'[i].to = sent - Owed + (i + 1) /\ i \in Nat
    BY <1>1 DEF FramesInOrder, TypeOK, PipeTypes
  <2> QED  BY <2>1, Counts
<1> QED  BY <1>3, <1>4, <1>5 DEF FramesInOrder

\* A step that leaves the pipe alone disturbs nothing unless it starts a
\* request or undoes what the client counts on.
LEMMA QuietFraming ==
  ASSUME TypeOK, FramesInOrder, UNCHANGED <<requests, replies, sent>>,
         thread' \in {"begin", "search", "write"} => thread \in {"begin", "search", "write"},
         Serving' => Serving /\ req' = req, req' = req,
         ~mixed' => ~mixed, client' # "gone" => client # "gone" /\ (~mixed' => Owed' = Owed)
  PROVE  FramesInOrder'
<1>1. Serving' /\ ~mixed' => InFlight' = Owed'
  <2> SUFFICES ASSUME Serving', ~mixed' PROVE InFlight' = Owed'
    OBVIOUS
  <2>1. Owed' = Owed /\ Working' = Working /\ InFlight = Owed
    BY DEF Serving, FramesInOrder, Working
  <2> QED  BY <2>1 DEF InFlight
<1>2. thread' \in {"begin", "search", "write"} => req' = sent' - Len(requests')
  BY DEF FramesInOrder
<1>3. \A i \in DOMAIN requests' : requests'[i].id = sent' - Len(requests') + i
  BY DEF FramesInOrder
<1>4. client' # "gone" /\ ~mixed' => \A i \in DOMAIN replies' : replies'[i].to = sent' - Owed' + i
  BY DEF FramesInOrder
<1> QED  BY <1>1, <1>2, <1>3, <1>4 DEF FramesInOrder

\* The calls of the client, by what they do to the count of what is owed.
LEMMA ClientFraming ==
  ASSUME TypeOK, TypeOK', OwedOK, FramesInOrder, Client
  PROVE  FramesInOrder'
<1>1. CASE Submit
  <2>1. /\ Write("search") /\ client = "ready" /\ client' = client /\ pending' = pending + 1
        /\ thread' = thread /\ req' = req /\ mixed' = mixed
    BY <1>1 DEF Submit, threadVars
  <2>2. Owed' = Owed + 1
    BY <2>1, Counts DEF Owed
  <2>3. ~mixed' => ~mixed
    BY <2>1, Zenon
  <2> QED  BY <2>1, <2>2, <2>3, WriteFraming
<1>2. CASE Query \/ Share
  <2>1. /\ Write("search") \/ Write("share")
        /\ client = "ready" /\ client' \in {"querying", "sharing"} /\ pending' = pending
        /\ thread' = thread /\ req' = req
    BY <1>2 DEF Query, Share, threadVars
  <2>2. Owed' = Owed + 1
    BY <2>1, Counts DEF Owed
  <2>3. ~mixed' => ~mixed
    BY <1>2, Zenon DEF Query, Share
  <2> QED  BY <2>1, <2>2, <2>3, WriteFraming
<1>3. CASE Requery /\ Write("search")
  <2>1. /\ client = "requery" /\ client' = "querying" /\ pending' = pending
        /\ thread' = thread /\ req' = req
    BY <1>3 DEF Requery, Write, threadVars
  <2>2. Owed' = Owed + 1
    BY <2>1, Counts DEF Owed
  <2>3. ~mixed' => ~mixed
    BY <1>3, Zenon DEF Requery
  <2> QED  BY <1>3, <2>1, <2>2, <2>3, WriteFraming
<1>4. CASE Poll \/ WaitRead
  <2>1. /\ Read /\ sent' = sent /\ thread' = thread /\ req' = req /\ pending' = pending - 1
        /\ client \in {"ready", "polling", "waiting"} /\ client' \in {"ready", "polling", "waiting"}
    BY <1>4 DEF Poll, WaitRead, threadVars
  <2>2. Owed' = Owed - 1
    BY <2>1, Counts DEF Owed
  <2>3. ~mixed' => ~mixed
    BY <1>4, Zenon DEF Poll, WaitRead
  <2> QED  BY <2>1, <2>2, <2>3, ReadFraming
<1>5. CASE QueryRead \/ ShareRead
  <2>1. /\ Read /\ sent' = sent /\ thread' = thread /\ req' = req /\ pending' = pending
        /\ client \in {"querying", "sharing"} /\ client' \in {"ready", "reconnecting"}
    BY <1>5 DEF QueryRead, ShareRead, threadVars
  <2>2. Owed' = Owed - 1
    BY <2>1, Counts DEF Owed
  <2>3. ~mixed' => ~mixed
    BY <1>5, Zenon DEF QueryRead, ShareRead
  <2> QED  BY <2>1, <2>2, <2>3, ReadFraming
<1>6. CASE Reconnect /\ requests' = <<>>
  <2>1. CASE UNCHANGED <<pipe, threadVars, cancelVars>> /\ client' = "ready"
    <3>1. /\ UNCHANGED <<requests, replies, sent, thread, req, pending>> /\ client = "reconnecting"
      BY <1>6, <2>1 DEF Reconnect, pipe, threadVars
    <3>2. Owed' = Owed /\ (Serving' <=> Serving)
      BY <2>1, <3>1, Counts DEF Owed, Serving
    <3>3. ~mixed' => ~mixed
      BY <1>6, Zenon DEF Reconnect
    <3> QED  BY <2>1, <3>1, <3>2, <3>3, QuietFraming
  <2>2. CASE replies' = <<>> /\ thread' = "read" /\ req' = 0 /\ client' = "requery"
    <3>1. client = "reconnecting" /\ pending' = pending /\ (~mixed' => ~mixed)
      BY <1>6, Zenon DEF Reconnect
    <3>2. ~mixed' => Owed' = 0
      BY <2>2, <3>1 DEF Owed, OwedOK
    <3>3. InFlight' = 0
      BY <1>6, <2>2 DEF InFlight, Working
    <3> QED  BY <1>6, <2>2, <3>2, <3>3 DEF FramesInOrder
  <2> QED  BY <1>6, <2>1, <2>2 DEF Reconnect
<1>7. CASE \/ PollNothing \/ Wait \/ ShareFails \/ ReadFails \/ Disconnect
           \/ (Requery /\ ~Write("search")) \/ (Reconnect /\ requests' # <<>>)
  <2>1. UNCHANGED <<requests, replies, sent, thread, req, pending>>
    BY <1>7 DEF PollNothing, Wait, ShareFails, ReadFails, Disconnect, Requery, Reconnect,
                pipe, threadVars
  <2>2. ~mixed' => ~mixed
    BY <1>7, Zenon DEF PollNothing, Wait, ShareFails, ReadFails, Disconnect, Requery, Reconnect
  <2>3. client # "gone"
    BY <1>7 DEF PollNothing, Wait, ShareFails, ReadFails, Disconnect, Requery, Reconnect
  <2>4. Serving' => Serving
    BY <2>1, <2>3 DEF Serving
  <2>5. CASE ~ReadFails
    <3>1. client' # "gone" => Owed' = Owed
      BY <1>7, <2>1, <2>5 DEF PollNothing, Wait, ShareFails, Disconnect, Requery, Reconnect, Owed
    <3> QED  BY <2>1, <2>2, <2>3, <2>4, <3>1, QuietFraming
  <2>6. CASE ReadFails
    <3>1. replies = <<>> /\ thread = "ended"
      BY <2>6 DEF ReadFails, Open
    <3>2. ~Serving' /\ DOMAIN replies' = {} /\ thread' = "ended"
      BY <2>1, <3>1 DEF Serving
    <3> QED  BY <2>1, <3>2 DEF FramesInOrder
  <2> QED  BY <2>5, <2>6
<1>8. CASE Requery
  BY <1>3, <1>7, <1>8
<1>9. CASE Reconnect
  BY <1>6, <1>7, <1>9
<1> QED  BY <1>1, <1>2, <1>4, <1>5, <1>7, <1>8, <1>9 DEF Client

\* The threads: reading takes a request off the pipe, writing puts its reply on.
LEMMA DaemonFraming ==
  ASSUME TypeOK, TypeOK', WorkOK, FramesInOrder,
         Thread \/ Peeker \/ DaemonExits \/ DaemonStarts \/ UNCHANGED vars
  PROVE  FramesInOrder'
<1>1. /\ client' = client /\ sent' = sent /\ pending' = pending /\ newest' = newest
      /\ Owed' = Owed /\ (~mixed' => ~mixed)
  BY ClientFrame DEF clientVars, Owed
<1>2. CASE ReadFrame
  <2>1. /\ thread = "read" /\ thread' = "begin"
        /\ replies' = replies /\ req' = requests[1].id /\ Len(requests) \in Nat \ {0}
        /\ Len(requests') = Len(requests) - 1 /\ req' \in 1 .. MaxRequests
        /\ \A i \in DOMAIN requests' : i + 1 \in DOMAIN requests /\ requests'[i] = requests[i + 1]
    BY <1>2, ReadFrameStep DEF TypeOK, ReadFrame
  <2>2. Working = 0 /\ Working' = 1
    BY <2>1, ConnectionAssumption DEF Working, WorkOK
  <2>3. Serving' /\ ~mixed' => InFlight' = Owed'
    <3> SUFFICES ASSUME Serving', ~mixed' PROVE InFlight' = Owed'
      OBVIOUS
    <3>1. InFlight = Owed
      BY <1>1, <2>1 DEF Serving, FramesInOrder
    <3> QED  BY <1>1, <2>1, <2>2, <3>1, Counts DEF InFlight
  <2>4. req' = sent' - Len(requests')
    <3>1. 1 \in DOMAIN requests
      BY <2>1 DEF TypeOK, PipeTypes
    <3>2. requests[1].id = sent - Len(requests) + 1
      BY <3>1 DEF FramesInOrder
    <3> QED  BY <1>1, <2>1, <3>2, Counts
  <2>5. \A i \in DOMAIN requests' : requests'[i].id = sent' - Len(requests') + i
    <3> SUFFICES ASSUME NEW i \in DOMAIN requests'
                 PROVE  requests'[i].id = sent' - Len(requests') + i
      OBVIOUS
    <3>1. requests'[i].id = sent - Len(requests) + (i + 1) /\ i \in Nat
      BY <2>1 DEF FramesInOrder, TypeOK, PipeTypes
    <3> QED  BY <1>1, <2>1, <3>1, Counts
  <2>6. client' # "gone" /\ ~mixed' => \A i \in DOMAIN replies' : replies'[i].to = sent' - Owed' + i
    BY <1>1, <2>1 DEF FramesInOrder
  <2> QED  BY <2>3, <2>4, <2>5, <2>6 DEF FramesInOrder
<1>3. CASE WriteFrame
  <2>1. /\ thread = "write" /\ thread' = "read" /\ client # "gone" /\ requests' = requests
        /\ replies' = Append(replies, reply) /\ req' = 0
    BY <1>3 DEF WriteFrame
  <2>2. /\ Len(Append(replies, reply)) = Len(replies) + 1
        /\ \A i \in 1 .. Len(replies) : Append(replies, reply)[i] = replies[i]
        /\ Append(replies, reply)[Len(replies) + 1] = reply
        /\ replies \in Seq(Replies) /\ Append(replies, reply) \in Seq(Replies)
    BY <2>1, AppendProperties DEF TypeOK, PipeTypes, ThreadTypes
  <2>3. Working = 1 /\ Working' = 0 /\ reply.to = req
    BY <2>1 DEF Working, WorkOK
  <2>4. ~mixed => InFlight = Owed
    BY <2>1 DEF Serving, FramesInOrder
  <2>5. ~mixed' => InFlight' = Owed'
    BY <1>1, <2>1, <2>2, <2>3, <2>4, Counts DEF InFlight
  <2>6. \A i \in DOMAIN requests' : requests'[i].id = sent' - Len(requests') + i
    BY <1>1, <2>1 DEF FramesInOrder
  <2>7. ~mixed' => \A i \in DOMAIN replies' : replies'[i].to = sent' - Owed' + i
    <3> SUFFICES ASSUME ~mixed', NEW i \in DOMAIN replies'
                 PROVE  replies'[i].to = sent - Owed + i
      BY <1>1
    <3>1. CASE i \in 1 .. Len(replies)
      BY <1>1, <2>1, <2>2, <3>1 DEF FramesInOrder
    <3>2. CASE i = Len(replies) + 1
      <4>1. reply.to = sent - Len(requests)
        BY <2>1, <2>3 DEF FramesInOrder
      <4>2. Len(replies) + 1 + Len(requests) = Owed
        BY <1>1, <2>3, <2>4 DEF InFlight
      <4> QED  BY <2>1, <2>2, <3>2, <4>1, <4>2, Counts
    <3> QED  BY <2>1, <2>2, <3>1, <3>2, Counts
  <2> QED  BY <2>1, <2>5, <2>6, <2>7 DEF FramesInOrder
<1>4. CASE DaemonExits
  <2>1. ~Serving' /\ DOMAIN requests' = {} /\ replies' = replies /\ thread' = "ended"
    BY <1>4 DEF DaemonExits, Serving
  <2> QED  BY <1>1, <2>1 DEF FramesInOrder
<1>5. CASE \/ BeginRequest \/ HandleRequest \/ HangUp \/ Join
           \/ Peeker \/ DaemonStarts \/ UNCHANGED vars
  <2>1. UNCHANGED <<requests, replies, req>>
    BY <1>5 DEF BeginRequest, HandleRequest, HangUp, Join, Peeker, PeekerLock, Peek, PeekerPublish,
                PeekerStops, DaemonStarts, vars, pipe, threadVars
  <2>2. \/ thread' = thread
        \/ thread = "begin" /\ thread' = "search"
        \/ thread = "search" /\ thread' \in {"write", "join"}
        \/ thread' \in {"join", "ended"}
    BY <1>5 DEF BeginRequest, HandleRequest, HangUp, Join, Peeker, PeekerLock, Peek, PeekerPublish,
                PeekerStops, DaemonStarts, vars, threadVars
  <2>3. Serving' => Serving
    BY <1>1, <2>2 DEF Serving
  <2> QED  BY <1>1, <2>1, <2>2, <2>3, QuietFraming
<1> QED  BY <1>2, <1>3, <1>4, <1>5 DEF Thread

LEMMA OwedStep ==
  ASSUME TypeOK, TypeOK', WorkOK, OwedOK, FramesInOrder, [Next]_vars
  PROVE  OwedOK'
<1> USE DEF TypeOK
<1>1. CASE Submit
  <2>1. /\ Write("search") /\ client' = "ready" /\ client = "ready" /\ pending' = pending + 1
        /\ newest' = sent + 1
    BY <1>1 DEF Submit
  <2>2. replies' = replies /\ sent' = sent + 1
    BY <2>1 DEF Write
  <2>3. ~mixed' => ~mixed
    BY <1>1, Zenon DEF Submit
  <2> QED  BY <2>1, <2>2, <2>3, Counts DEF OwedOK, Owed
<1>2. CASE Query \/ Share
  <2>1. /\ client' \in {"querying", "sharing"} /\ client = "ready" /\ pending' = pending
        /\ replies' = replies
    BY <1>2 DEF Query, Share, Write
  <2>2. ~mixed' => ~mixed /\ ~(pending > 0)
    BY <1>2, Zenon DEF Query, Share
  <2> QED  BY <2>1, <2>2, Counts DEF OwedOK, Owed
<1>3. CASE Poll \/ WaitRead
  <2>1. /\ Read /\ client' \in {"ready", "polling", "waiting"} /\ client \in {"ready", "polling", "waiting"}
        /\ pending' = pending - 1 /\ UNCHANGED <<sent, newest>> /\ pending > 0
    BY <1>3 DEF Poll, WaitRead
  <2>2. ~mixed' => ~mixed
    BY <1>3, Zenon DEF Poll, WaitRead
  <2> QED  BY <2>1, <2>2, ReadStep, Counts DEF OwedOK, Owed
<1>4. CASE QueryRead \/ ShareRead
  <2>1. /\ Read /\ client' \in {"ready", "reconnecting"} /\ client \in {"querying", "sharing"}
        /\ UNCHANGED <<sent, newest, pending>>
    BY <1>4 DEF QueryRead, ShareRead
  <2>2. ~mixed' => ~mixed
    BY <1>4, Zenon DEF QueryRead, ShareRead
  <2> QED  BY <2>1, <2>2, ReadStep, Counts DEF OwedOK, Owed
<1>5. CASE ShareFails
  <2>1. /\ client' = "reconnecting" /\ client = "ready" /\ UNCHANGED <<replies, pending>>
    BY <1>5 DEF ShareFails, pipe
  <2>2. ~mixed' => ~mixed /\ ~(pending > 0)
    BY <1>5, Zenon DEF ShareFails
  <2> QED  BY <2>1, <2>2, Counts DEF OwedOK, Owed
<1>6. CASE Reconnect \/ Requery
  <2>1. /\ client \in {"reconnecting", "requery"} /\ client' \in {"ready", "requery", "querying"}
        /\ replies' = replies \/ replies' = <<>>
        /\ pending' = pending
    BY <1>6 DEF Reconnect, Requery, Write, pipe
  <2>2. ~mixed' => ~mixed
    BY <1>6, Zenon DEF Reconnect, Requery
  <2> QED  BY <2>1, <2>2, Counts DEF OwedOK, Owed
<1>7. CASE PollNothing \/ Wait \/ ReadFails \/ Disconnect
  <2>1. /\ UNCHANGED <<sent, newest, pending, replies>>
        /\ \/ client \in {"ready", "polling"} /\ client' \in {"ready", "waiting"}
           \/ client' = "gone"
           \/ client \in {"waiting", "querying"} /\ client' = "ready" /\ replies = <<>>
           \/ client = "sharing" /\ client' = "reconnecting" /\ replies = <<>>
    BY <1>7 DEF PollNothing, Wait, ReadFails, Disconnect, pipe
  <2>2. ~mixed' => ~mixed
    BY <1>7, Zenon DEF PollNothing, Wait, ReadFails, Disconnect
  <2> QED  BY <2>1, <2>2, Counts DEF OwedOK, Owed
<1>8. CASE Thread \/ Peeker \/ DaemonExits \/ DaemonStarts \/ UNCHANGED vars
  <2>1. client' = client /\ UNCHANGED <<sent, newest, pending>> /\ Owed' = Owed /\ (~mixed' => ~mixed)
    BY <1>8, ClientFrame DEF clientVars, Owed
  <2>2. CASE WriteFrame
    <3>1. thread = "write" /\ client # "gone" /\ Len(replies') = Len(replies) + 1
      BY <2>2, AppendProperties DEF WriteFrame, PipeTypes, ThreadTypes
    <3>2. ~mixed => Len(replies) + 1 + Len(requests) = Owed
      BY <3>1 DEF FramesInOrder, Serving, InFlight, Working, WorkOK
    <3> QED  BY <2>1, <3>1, <3>2, Counts DEF OwedOK
  <2>3. CASE ~WriteFrame
    <3>1. replies' = replies
      BY <1>8, <2>3 DEF Thread, ReadFrame, BeginRequest, HandleRequest, HangUp, Join, Peeker,
                  PeekerLock, Peek, PeekerPublish, PeekerStops, DaemonExits, DaemonStarts, vars, pipe
    <3> QED  BY <2>1, <3>1 DEF OwedOK
  <2> QED  BY <2>2, <2>3
<1> QED  BY <1>1, <1>2, <1>3, <1>4, <1>5, <1>6, <1>7, <1>8 DEF Next, Client

-----------------------------------------------------------------------------
(* Cancellation. *)

LEMMA SentGrows ==
  ASSUME TypeOK, [Next]_vars
  PROVE  sent' \in Nat /\ sent <= sent'
<1>1. sent' = sent \/ sent' = sent + 1
  BY ClientFrame DEF Next, Client, Submit, Poll, PollNothing, Wait, WaitRead, Query, QueryRead, Share,
     ShareFails, ShareRead, Reconnect, Requery, ReadFails, Disconnect, Write, clientVars
<1> QED  BY <1>1, Counts

LEMMA MovedStep ==
  ASSUME TypeOK, LockOK, FramesInOrder, MovedOK, [Next]_vars
  PROVE  MovedOK'
<1>1. sent' \in Nat /\ sent <= sent' /\ sent \in Nat /\ req \in Nat
  BY SentGrows, Counts, ConnectionAssumption DEF TypeOK, ThreadTypes
<1>2. CASE thread' # "search"
  BY <1>2 DEF MovedOK
<1>3. CASE UNCHANGED <<thread, req, moved, peeker, seen>>
  <2> SUFFICES ASSUME thread' = "search", moved' \/ (peeker' = "publish" /\ seen')
               PROVE  req' < sent'
    BY DEF MovedOK
  <2>1. thread = "search" /\ (moved \/ (peeker = "publish" /\ seen)) /\ req' = req
    BY <1>3, Zenon
  <2> QED  BY <1>1, <2>1 DEF MovedOK
<1>4. CASE BeginRequest
  <2>1. moved' = FALSE /\ ~observation /\ peeker' = peeker
    BY <1>4 DEF BeginRequest
  <2> QED  BY <2>1, Zenon DEF MovedOK, LockOK
<1>5. CASE Peek
  <2> SUFFICES ASSUME thread' = "search", moved' \/ (peeker' = "publish" /\ seen')
               PROVE  req' < sent'
    BY DEF MovedOK
  <2>1. /\ thread = "search" /\ req' = req
        /\ moved' = moved
        /\ peeker' = "publish" => (seen' = (requests # <<>>))
    BY <1>5 DEF Peek, threadVars
  <2>2. moved \/ requests # <<>>
    BY <2>1, Zenon
  <2>3. requests # <<>> => req < sent
    BY <2>1, <1>1 DEF FramesInOrder, TypeOK, PipeTypes
  <2> QED  BY <1>1, <2>1, <2>2, <2>3 DEF MovedOK
<1>6. CASE PeekerPublish
  <2> SUFFICES ASSUME thread' = "search", moved' \/ (peeker' = "publish" /\ seen')
               PROVE  req' < sent'
    BY DEF MovedOK
  <2>1. thread = "search" /\ req' = req /\ peeker = "publish" /\ peeker' # "publish"
        /\ moved' = (moved \/ seen)
    BY <1>6 DEF PeekerPublish, threadVars
  <2>2. moved \/ seen
    BY <2>1, Zenon
  <2> QED  BY <1>1, <2>1, <2>2 DEF MovedOK
<1>7. CASE PeekerLock \/ PeekerStops
  <2> SUFFICES ASSUME thread' = "search", moved' \/ (peeker' = "publish" /\ seen')
               PROVE  req' < sent'
    BY DEF MovedOK
  <2>1. thread = "search" /\ req' = req /\ peeker' # "publish" /\ moved' = moved
    BY <1>7 DEF PeekerLock, PeekerStops, threadVars
  <2>2. moved
    BY <2>1, Zenon
  <2> QED  BY <1>1, <2>1, <2>2 DEF MovedOK
<1>8. CASE Reconnect \/ DaemonExits
  <2>1. thread' \in {"read", "ended"} \/ UNCHANGED <<threadVars, cancelVars>>
    BY <1>8 DEF Reconnect, DaemonExits
  <2> QED  BY <1>2, <1>3, <2>1, Zenon DEF threadVars, cancelVars
<1>9. CASE ReadFrame \/ HandleRequest \/ WriteFrame \/ HangUp \/ Join
  BY <1>2, <1>9 DEF ReadFrame, HandleRequest, WriteFrame, HangUp, Join
<1>10. CASE (Client /\ ~Reconnect) \/ DaemonStarts \/ UNCHANGED vars
  BY <1>3, <1>10, DaemonFrame, Zenon DEF DaemonStarts, vars, threadVars, cancelVars
<1> QED  BY <1>2, <1>3, <1>4, <1>5, <1>6, <1>7, <1>8, <1>9, <1>10 DEF Next, Thread, Peeker

LEMMA SupersededStep ==
  ASSUME TypeOK, WorkOK, MovedOK, NewestNotSuperseded, [Next]_vars
  PROVE  NewestNotSuperseded'
<1>1. sent' \in Nat /\ sent <= sent' /\ sent \in Nat
  BY SentGrows, Counts
<1>2. /\ \A r \in Replies : r.to \in Nat
      /\ reply \in Replies /\ replies \in Seq(Replies)
  BY ConnectionAssumption DEF TypeOK, ThreadTypes, PipeTypes, Replies
<1>3. ASSUME reply' \in {reply, NoReply} \/ reply'.kind # "superseded" PROVE reply'.kind = "superseded" => reply'.to < sent'
  BY <1>1, <1>2, <1>3 DEF NewestNotSuperseded, NoReply
<1>4. ASSUME replies' \in {replies, <<>>} PROVE \A i \in DOMAIN replies' : replies'[i].kind = "superseded" => replies'[i].to < sent'
  <2>1. CASE replies' = replies
    <3> SUFFICES ASSUME NEW i \in DOMAIN replies, replies[i].kind = "superseded"
                 PROVE  replies[i].to < sent'
      BY <2>1
    <3>1. replies[i].to < sent /\ replies[i].to \in Nat
      BY <1>2 DEF NewestNotSuperseded
    <3> QED  BY <1>1, <3>1
  <2>2. CASE replies' = <<>>
    BY <2>2
  <2> QED  BY <1>4, <2>1, <2>2
<1>5. CASE Poll \/ WaitRead \/ QueryRead \/ ShareRead
  <2>1. Read /\ reply' = reply
    BY <1>5 DEF Poll, WaitRead, QueryRead, ShareRead, threadVars
  <2>2. \A i \in DOMAIN replies' : i + 1 \in DOMAIN replies /\ replies'[i] = replies[i + 1]
    BY <2>1, ReadStep DEF TypeOK
  <2>3. \A i \in DOMAIN replies' : replies'[i].kind = "superseded" => replies'[i].to < sent'
    <3> SUFFICES ASSUME NEW i \in DOMAIN replies', replies'[i].kind = "superseded"
                 PROVE  replies'[i].to < sent'
      OBVIOUS
    <3>1. replies'[i].to < sent /\ replies'[i].to \in Nat
      BY <1>2, <2>2 DEF NewestNotSuperseded
    <3> QED  BY <1>1, <3>1
  <2> QED  BY <1>3, <2>1, <2>3 DEF NewestNotSuperseded
<1>6. CASE WriteFrame
  <2>1. reply' = NoReply /\ replies' = Append(replies, reply)
    BY <1>6 DEF WriteFrame
  <2>2. /\ Len(Append(replies, reply)) = Len(replies) + 1
        /\ \A i \in 1 .. Len(replies) : Append(replies, reply)[i] = replies[i]
        /\ Append(replies, reply)[Len(replies) + 1] = reply
        /\ Append(replies, reply) \in Seq(Replies) /\ Len(replies) \in Nat
    BY <1>2, AppendProperties
  <2>3. \A i \in DOMAIN replies' : replies'[i].kind = "superseded" => replies'[i].to < sent'
    <3> SUFFICES ASSUME NEW i \in DOMAIN replies', replies'[i].kind = "superseded"
                 PROVE  replies'[i].to < sent'
      OBVIOUS
    <3>1. replies'[i] = reply \/ (i \in DOMAIN replies /\ replies'[i] = replies[i])
      BY <1>2, <2>1, <2>2
    <3>2. replies'[i].to < sent /\ replies'[i].to \in Nat
      BY <1>2, <3>1 DEF NewestNotSuperseded
    <3> QED  BY <1>1, <3>2
  <2> QED  BY <1>3, <2>1, <2>3 DEF NewestNotSuperseded
<1>7. CASE HandleRequest
  <2>1. /\ replies' = replies /\ sent' = sent /\ thread = "search"
        /\ reply' = reply \/ \E kind \in Outcomes : reply' = [reply EXCEPT !.kind = kind]
    BY <1>7 DEF HandleRequest, pipe, clientVars
  <2>2. reply'.kind = "superseded" => reply'.to < sent'
    <3>1. CASE reply' = reply
      BY <1>3, <3>1
    <3>2. CASE \E kind \in Outcomes : reply' = [reply EXCEPT !.kind = kind]
      <4>1. PICK kind \in Outcomes : reply' = [reply EXCEPT !.kind = kind]
        BY <3>2
      <4>2. reply'.to = reply.to /\ reply'.kind = kind
        BY <1>2, <4>1 DEF Replies
      <4>3. kind = "superseded" => moved
        BY <4>1, Zenon DEF Outcomes
      <4>4. moved => req < sent
        BY <2>1 DEF MovedOK
      <4> QED  BY <2>1, <4>2, <4>3, <4>4 DEF WorkOK
    <3> QED  BY <2>1, <3>1, <3>2
  <2> QED  BY <1>4, <2>1, <2>2 DEF NewestNotSuperseded
<1>8. CASE ReadFrame
  <2>1. replies' = replies /\ reply'.kind # "superseded"
    BY <1>8, ReadFrameStep DEF TypeOK
  <2> QED  BY <1>3, <1>4, <2>1 DEF NewestNotSuperseded
<1>9. CASE Client /\ ~(Poll \/ WaitRead \/ QueryRead \/ ShareRead)
  <2>1. replies' \in {replies, <<>>} /\ reply' \in {reply, NoReply}
    BY <1>9 DEF Client, Submit, PollNothing, Wait, Query, Share, ShareFails, Reconnect, Requery,
                ReadFails, Disconnect, Write, pipe, threadVars
  <2> QED  BY <1>3, <1>4, <2>1 DEF NewestNotSuperseded
<1>10. CASE \/ BeginRequest \/ HangUp \/ Join \/ Peeker \/ DaemonExits \/ DaemonStarts
            \/ UNCHANGED vars
  <2>1. replies' = replies /\ reply' = reply
    BY <1>10 DEF BeginRequest, HangUp, Join, Peeker, PeekerLock, Peek, PeekerPublish, PeekerStops,
                 DaemonExits, DaemonStarts, vars, pipe, threadVars
  <2> QED  BY <1>3, <1>4, <2>1 DEF NewestNotSuperseded
<1> QED  BY <1>5, <1>6, <1>7, <1>8, <1>9, <1>10 DEF Next, Thread

-----------------------------------------------------------------------------

\* The invariant holds of every behaviour: with Init and each step of Next.
THEOREM ConnectionInvariant == Spec => []ConnectionInv
<1>1. Init => ConnectionInv
  BY InitInv
<1>2. ConnectionInv /\ [Next]_vars => ConnectionInv'
  <2> SUFFICES ASSUME ConnectionInv, [Next]_vars PROVE ConnectionInv'
    OBVIOUS
  <2> USE DEF ConnectionInv
  <2>1. TypeOK'
    BY ClientTypesStep, DaemonTypesStep, FlagTypesStep DEF TypeOK
  <2>2. LockOK' /\ WorkOK'
    BY LockStep, WorkStep
  <2>3. FramesInOrder'
    BY <2>1, ClientFraming, DaemonFraming DEF Next
  <2>4. OwedOK'
    BY <2>1, OwedStep
  <2>5. MovedOK' /\ NewestNotSuperseded'
    BY MovedStep, SupersededStep
  <2> QED  BY <2>1, <2>2, <2>3, <2>4, <2>5
<1> QED  BY <1>1, <1>2, PTL DEF Spec

\* Every variable keeps its type, and the pipe its capacity.
THEOREM TypesKept == Spec => []TypeOK
<1>1. ConnectionInv => TypeOK
  BY DEF ConnectionInv
<1> QED  BY <1>1, ConnectionInvariant, PTL

\* Framing stays one to one and in order, through cancelled searches,
\* refused handshakes and the daemon's exits.
THEOREM FramingKept == Spec => []FramesInOrder
<1>1. ConnectionInv => FramesInOrder
  BY DEF ConnectionInv
<1> QED  BY <1>1, ConnectionInvariant, PTL

\* Draining by count lands on the answer to the newest query.
THEOREM NewestShown == Spec => LatestWins
<1>1. ConnectionInv /\ [Next]_vars => [shown' # shown => mixed \/ shown' = newest]_vars
  <2> SUFFICES ASSUME ConnectionInv, Next, shown' # shown, ~mixed
               PROVE  shown' = newest
    BY DEF vars, clientVars
  <2>1. Poll \/ WaitRead
    BY ClientFrame DEF Next, Client, Submit, PollNothing, Wait, Query, QueryRead, Share,
       ShareFails, ShareRead, Reconnect, Requery, ReadFails, Disconnect, clientVars
  <2>2. /\ pending = 1 /\ replies # <<>> /\ shown' = Head(replies).to
        /\ client \in {"ready", "polling", "waiting"}
    BY <2>1 DEF Poll, WaitRead, Read
  <2>3. Owed = 1 /\ newest = sent
    BY <2>2 DEF ConnectionInv, OwedOK, Owed
  <2>4. 1 \in DOMAIN replies /\ Head(replies) = replies[1]
    BY <2>2 DEF ConnectionInv, TypeOK, PipeTypes
  <2>5. replies[1].to = sent
    BY <2>2, <2>3, <2>4, Counts DEF ConnectionInv, FramesInOrder
  <2> QED  BY <2>2, <2>3, <2>4, <2>5
<1> QED  BY <1>1, ConnectionInvariant, PTL DEF Spec, LatestWins

\* Nothing but a request that a newer one has overtaken is cancelled, however
\* the peeking thread and the request thread interleave.
THEOREM OnlyOvertakenCancelled == Spec => []NewestNotSuperseded
<1>1. ConnectionInv => NewestNotSuperseded
  BY DEF ConnectionInv
<1> QED  BY <1>1, ConnectionInvariant, PTL
=============================================================================
