------------------------- MODULE IdlePersistProofs -------------------------
(***************************************************************************)
(* For every choice of the four periods, a view with something to lose is  *)
(* known to the schedule.                                                  *)
(***************************************************************************)
EXTENDS IdlePersist, TLAPS

IdlePersistInv == TypeOK /\ UnsavedIsScheduled

Types == [structural : BOOLEAN, moved : BOOLEAN]
Schedules == [dirty_since : Age \cup {Unset},
              last_structural_change : Age \cup {Unset},
              last_attempt : Age \cup {Unset}]

-----------------------------------------------------------------------------
(* The schedule's operations. *)

\* observe keeps the schedule's type, dates what it is told of, and forgets nothing.
LEMMA ObserveDates ==
  ASSUME NEW s \in Schedules, NEW c \in BOOLEAN, NEW a \in BOOLEAN
  PROVE  /\ observe(s, c, a) \in Schedules
         /\ c \/ a \/ s.dirty_since # Unset => observe(s, c, a).dirty_since # Unset
         /\ c \/ s.last_structural_change # Unset
              => observe(s, c, a).last_structural_change # Unset
<1>1. 0 \in Age /\ 0 # Unset
  BY IdlePersistAssumption DEF Age, Unset
<1>2. s.dirty_since \in Age \cup {Unset} /\ s.last_structural_change \in Age \cup {Unset}
  BY DEF Schedules
<1>3. observe(s, c, a) \in Schedules
  BY <1>1, <1>2 DEF observe, Schedules
<1>4. /\ observe(s, c, a).dirty_since
           = IF (c \/ a) /\ s.dirty_since = Unset THEN 0 ELSE s.dirty_since
      /\ observe(s, c, a).last_structural_change
           = IF c THEN 0 ELSE s.last_structural_change
  BY DEF observe, Schedules
<1> QED  BY <1>1, <1>3, <1>4

LEMMA IdleType == Idle \in Schedules /\ Durable \in Types
  BY DEF Idle, Schedules, Durable, Types, Age, Unset

\* Time passes without undating anything.
LEMMA OlderDates ==
  ASSUME NEW age \in Age \cup {Unset}
  PROVE  Older(age) \in Age \cup {Unset} /\ (age # Unset => Older(age) # Unset /\ Older(age) \in Age)
  BY IdlePersistAssumption DEF Older, Age, Unset

-----------------------------------------------------------------------------
(* Init and the steps. *)

LEMMA InitInv == Init => IdlePersistInv
<1> SUFFICES ASSUME Init PROVE IdlePersistInv
  OBVIOUS
<1>1. view \in Types /\ Idle \in Schedules /\ view.structural \in BOOLEAN /\ needs_persist \in BOOLEAN
  BY IdleType DEF Init, Types, needs_persist
<1>2. schedule = observe(Idle, view.structural, needs_persist)
  BY DEF Init
<1>3. schedule \in Schedules /\ UnsavedIsScheduled
  BY <1>1, <1>2, ObserveDates DEF UnsavedIsScheduled, needs_persist, Types
<1>4. /\ waited \in 0 .. POLL_INTERVAL /\ ended \in BOOLEAN
      /\ silence \in Age /\ behind \in Age /\ calm \in BOOLEAN
  <2>1. 0 \in 0 .. POLL_INTERVAL /\ 0 \in Age
    BY IdlePersistAssumption DEF Age
  <2> QED  BY <2>1 DEF Init
<1> QED  BY <1>1, <1>3, <1>4 DEF IdlePersistInv, TypeOK, Types, Schedules

\* A write of a snapshot leaves nothing to lose.
LEMMA SavedInv ==
  ASSUME Saved
  PROVE  view' \in Types /\ schedule' \in Schedules /\ behind' \in Age /\ UnsavedIsScheduled'
  BY IdleType, IdlePersistAssumption DEF Saved, UnsavedIsScheduled, needs_persist, Durable, Age

\* A published batch observes what it adds.
LEMMA PublishedInv ==
  ASSUME IdlePersistInv, NEW c \in BOOLEAN, NEW a \in BOOLEAN, Published(c, a)
  PROVE  view' \in Types /\ schedule' \in Schedules /\ behind' \in Age /\ UnsavedIsScheduled'
<1>1. view \in Types /\ schedule \in Schedules /\ behind \in Age
  BY DEF IdlePersistInv, TypeOK, Types, Schedules
<1>2. PICK kept \in BOOLEAN :
        /\ kept => c
        /\ view' = [structural |-> view.structural \/ kept, moved |-> view.moved \/ a]
  BY DEF Published
<1>3. view' \in Types /\ behind' \in Age
  BY <1>1, <1>2 DEF Types, Published
<1>4. schedule' = observe(schedule, c, a) /\ schedule' \in Schedules
  BY <1>1, ObserveDates DEF Published
<1>5. UnsavedIsScheduled'
  <2>1. view'.structural => view.structural \/ c
    BY <1>2
  <2>2. view'.moved => view.moved \/ a
    BY <1>2
  <2> QED
    BY <2>1, <2>2, <1>1, <1>4, ObserveDates DEF IdlePersistInv, UnsavedIsScheduled, needs_persist
<1> QED  BY <1>3, <1>4, <1>5

LEMMA StepInv == IdlePersistInv /\ [Next]_vars => IdlePersistInv'
<1> SUFFICES ASSUME IdlePersistInv, [Next]_vars PROVE IdlePersistInv'
  OBVIOUS
<1>0. /\ view \in Types /\ schedule \in Schedules /\ waited \in 0 .. POLL_INTERVAL
      /\ ended \in BOOLEAN /\ silence \in Age /\ behind \in Age /\ calm \in BOOLEAN /\ UnsavedIsScheduled
  BY DEF IdlePersistInv, TypeOK, Types, Schedules
<1>z. 0 \in Age /\ 0 \in 0 .. POLL_INTERVAL
  BY IdlePersistAssumption DEF Age
<1>i. ASSUME view' \in Types, schedule' \in Schedules, waited' \in 0 .. POLL_INTERVAL,
             ended' \in BOOLEAN, silence' \in Age, behind' \in Age, calm' \in BOOLEAN, UnsavedIsScheduled'
      PROVE  IdlePersistInv'
  BY <1>i DEF IdlePersistInv, TypeOK, Types, Schedules
<1>u. ASSUME UNCHANGED <<view, schedule>> PROVE UnsavedIsScheduled'
  BY <1>u, <1>0 DEF UnsavedIsScheduled, needs_persist
<1>1. CASE Nothing
  BY <1>1, <1>0, <1>z, <1>i, <1>u DEF Nothing, Message
<1>2. CASE Publish
  <2>1. PICK c \in BOOLEAN, a \in BOOLEAN : Published(c, a)
    BY <1>2 DEF Publish
  <2> QED  BY <2>1, <1>2, <1>0, <1>z, <1>i, PublishedInv DEF Publish, Message
<1>3. CASE Rewrite
  BY <1>3, <1>0, <1>z, <1>i, SavedInv DEF Rewrite, Message
<1>4. CASE Poll
  <2>1. CASE UNCHANGED <<view, schedule, behind>>
    BY <2>1, <1>4, <1>0, <1>z, <1>i, <1>u DEF Poll
  <2>2. CASE Saved
    BY <2>2, <1>4, <1>0, <1>z, <1>i, SavedInv DEF Poll
  <2>3. CASE schedule' = attempted(schedule) /\ UNCHANGED <<view, behind>>
    <3>1. schedule' \in Schedules /\ UnsavedIsScheduled'
      BY <2>3, <1>0, <1>z DEF attempted, Schedules, UnsavedIsScheduled, needs_persist
    <3> QED  BY <3>1, <2>3, <1>4, <1>0, <1>z, <1>i DEF Poll
  <2> QED  BY <2>1, <2>2, <2>3, <1>4 DEF Poll
<1>5. CASE HandlerPersists
  <2>1. view' \in Types /\ UnsavedIsScheduled'
    BY <1>5, IdleType DEF HandlerPersists, UnsavedIsScheduled, needs_persist, Durable
  <2> QED  BY <2>1, <1>5, <1>0, <1>z, <1>i DEF HandlerPersists
<1>6. CASE Restart
  <2>1. view' \in Types /\ view'.structural \in BOOLEAN /\ (view'.structural \/ view'.moved) \in BOOLEAN
    BY <1>6 DEF Restart, Types
  <2>2. schedule' \in Schedules /\ UnsavedIsScheduled'
    BY <2>1, <1>6, IdleType, ObserveDates DEF Restart, UnsavedIsScheduled, needs_persist
  <2> QED  BY <2>1, <2>2, <1>6, <1>0, <1>z, <1>i DEF Restart
<1>7. CASE Tick
  <2>1. schedule' \in Schedules
    BY <1>7, <1>0, OlderDates DEF Tick, Schedules
  <2>2. UnsavedIsScheduled'
    BY <1>7, <1>0, OlderDates DEF Tick, Schedules, UnsavedIsScheduled, needs_persist
  <2>3. silence' \in Age /\ behind' \in Age
    <3>1. silence # Unset /\ behind # Unset
      BY <1>0 DEF Age, Unset
    <3> QED  BY <3>1, <1>7, <1>0, <1>z, OlderDates DEF Tick
  <2>4. waited' \in 0 .. POLL_INTERVAL
    BY <1>7, <1>0, IdlePersistAssumption DEF Tick
  <2> QED  BY <2>1, <2>2, <2>3, <2>4, <1>7, <1>0, <1>i DEF Tick
<1>8. CASE GoCalm
  BY <1>8, <1>0, <1>i, <1>u DEF GoCalm
<1>9. CASE Disconnect
  BY <1>9, <1>0, <1>i, <1>u DEF Disconnect
<1>10. CASE UNCHANGED vars
  BY <1>10, <1>0, <1>i, <1>u DEF vars
<1> QED  BY <1>1, <1>2, <1>3, <1>4, <1>5, <1>6, <1>7, <1>8, <1>9, <1>10 DEF Next

-----------------------------------------------------------------------------
(* Theorems. *)

\* The inductive invariant: types, and whatever could be lost has its dates.
THEOREM IdlePersistInvariant == Spec => []IdlePersistInv
<1>1. Init => IdlePersistInv
  BY InitInv
<1>2. IdlePersistInv /\ [Next]_vars => IdlePersistInv'
  BY StepInv
<1> QED  BY <1>1, <1>2, PTL DEF Spec

\* The ages the schedule keeps stay in range, at any length of the periods.
THEOREM TypeCorrect == Spec => []TypeOK
<1>1. IdlePersistInv => TypeOK
  BY DEF IdlePersistInv
<1> QED  BY <1>1, IdlePersistInvariant, PTL

\* A view that differs from its snapshot is never forgotten by the idle-persist
\* schedule, for every choice of the poll, quiet, checkpoint and retry periods.
THEOREM NothingUnscheduled == Spec => []UnsavedIsScheduled
<1>1. IdlePersistInv => UnsavedIsScheduled
  BY DEF IdlePersistInv
<1> QED  BY <1>1, IdlePersistInvariant, PTL

-----------------------------------------------------------------------------
(* The quiet period. *)

\* A change is at least as old as the silence, silence is at least as long as
\* the wait, and a poll that came after the quiet period has made an attempt
\* or found one that was recent enough, as long as there is a worker to poll.
TriedInv ==
  /\ IdlePersistInv
  /\ ~ended => silence >= waited
  /\ view.structural => schedule.last_structural_change >= silence
  /\ ~ended /\ view.structural /\ silence > waited /\ silence - waited >= QUIET_PERIOD =>
       /\ schedule.last_attempt # Unset
       /\ schedule.last_attempt <= RETRY_INTERVAL + waited

LEMMA TriedInit == Init => TriedInv
<1> SUFFICES ASSUME Init PROVE TriedInv
  OBVIOUS
<1>1. IdlePersistInv
  BY InitInv
<1>2. waited = 0 /\ silence = 0
  BY DEF Init
<1>3. view.structural => schedule.last_structural_change >= silence
  <2>1. view.structural => schedule.last_structural_change \in Age
    BY <1>1 DEF IdlePersistInv, TypeOK, UnsavedIsScheduled
  <2> QED  BY <2>1, <1>2 DEF Age
<1> QED  BY <1>1, <1>2, <1>3 DEF TriedInv

\* A step after which there is nothing structural to lose, or no silence.
LEMMA ResetTried ==
  ASSUME IdlePersistInv', ~ended' => silence' >= waited', ~view'.structural \/ (silence' = 0 /\ waited' = 0)
  PROVE  TriedInv'
<1>1. view'.structural => schedule'.last_structural_change \in Age
  BY DEF IdlePersistInv, TypeOK, UnsavedIsScheduled
<1> QED  BY <1>1 DEF TriedInv, Age

LEMMA TriedStep == TriedInv /\ [Next]_vars => TriedInv'
<1> SUFFICES ASSUME TriedInv, [Next]_vars PROVE TriedInv'
  OBVIOUS
<1>0. IdlePersistInv /\ IdlePersistInv'
  BY StepInv DEF TriedInv
<1>t. /\ schedule \in Schedules /\ waited \in 0 .. POLL_INTERVAL /\ silence \in Age
      /\ schedule' \in Schedules /\ waited' \in 0 .. POLL_INTERVAL /\ silence' \in Age
      /\ view \in Types /\ view' \in Types
  BY <1>0 DEF IdlePersistInv, TypeOK, Types, Schedules
<1>1. CASE Message
  BY <1>1, <1>0, ResetTried DEF Message
<1>2. CASE Restart
  BY <1>2, <1>0, ResetTried DEF Restart
<1>3. CASE Poll
  <2>0. /\ waited' = 0 /\ silence' = silence /\ silence >= waited /\ waited = POLL_INTERVAL
        /\ ~ended /\ ~ended'
    BY <1>3 DEF Poll, TriedInv
  <2>1. CASE Saved
    BY <2>0, <2>1, <1>0, <1>t, ResetTried DEF Saved, Durable, Age
  <2>2. CASE ~should_attempt(schedule) /\ UNCHANGED <<view, schedule, behind>>
    <3>1. ASSUME view.structural, silence >= QUIET_PERIOD
          PROVE  schedule.last_attempt # Unset /\ schedule.last_attempt < RETRY_INTERVAL
      <4>1. /\ schedule.last_structural_change # Unset
            /\ schedule.last_structural_change >= silence
            /\ schedule.last_structural_change \in Age \cup {Unset}
            /\ schedule.last_attempt \in Age \cup {Unset}
        BY <3>1, <1>0, <1>t DEF TriedInv, IdlePersistInv, UnsavedIsScheduled, Schedules
      <4>2. due(schedule)
        BY <4>1, <3>1, <1>t, IdlePersistAssumption DEF due, Age, Unset
      <4> QED
        BY <4>1, <4>2, <2>2, IdlePersistAssumption DEF should_attempt, Age, Unset
    <3>2. schedule.last_attempt \in Age \cup {Unset}
      BY <1>t DEF Schedules
    <3> QED
      BY <3>1, <3>2, <2>0, <2>2, <1>0, <1>t, IdlePersistAssumption DEF TriedInv, Age, Unset
  <2>3. CASE schedule' = attempted(schedule) /\ UNCHANGED <<view, behind>>
    <3>1. /\ schedule'.last_attempt = 0
          /\ schedule'.last_structural_change = schedule.last_structural_change
      BY <2>3, <1>t DEF attempted, Schedules
    <3> QED
      BY <3>1, <2>0, <2>3, <1>0, <1>t, IdlePersistAssumption DEF TriedInv, Age, Unset
  <2> QED  BY <2>1, <2>2, <2>3, <1>3 DEF Poll
<1>4. CASE HandlerPersists
  BY <1>4, <1>0, ResetTried DEF HandlerPersists, Durable, TriedInv
<1>5. CASE Tick
  <2>1. /\ view' = view /\ ended' = ended /\ (~ended => waited' = waited + 1)
        /\ silence' = IF silence = Horizon THEN silence ELSE silence + 1
    <3>1. silence # Unset
      BY <1>t DEF Age, Unset
    <3> QED  BY <3>1, <1>5 DEF Tick, Older
  <2>2. ~ended => waited < POLL_INTERVAL
    BY <1>5 DEF Tick
  <2>3. ~ended => silence' >= waited'
    BY <2>1, <2>2, <1>t, IdlePersistAssumption DEF TriedInv, Age
  <2>4. ASSUME view.structural PROVE schedule'.last_structural_change >= silence'
    <3>1. /\ schedule.last_structural_change \in Age
          /\ schedule.last_structural_change >= silence
      BY <2>4, <1>0, <1>t DEF TriedInv, IdlePersistInv, UnsavedIsScheduled, Schedules
    <3>2. schedule'.last_structural_change
            = IF schedule.last_structural_change = Horizon THEN Horizon
              ELSE schedule.last_structural_change + 1
      BY <3>1, <1>5, IdlePersistAssumption DEF Tick, Older, Age, Unset
    <3> QED  BY <3>1, <3>2, <2>1, <1>t, IdlePersistAssumption DEF Age
  <2>5. ASSUME ~ended, view.structural, silence' > waited', silence' - waited' >= QUIET_PERIOD
        PROVE  /\ schedule'.last_attempt # Unset
               /\ schedule'.last_attempt <= RETRY_INTERVAL + waited'
    <3>1. silence > waited /\ silence - waited >= QUIET_PERIOD
      BY <2>1, <2>5, <1>t, IdlePersistAssumption DEF Age
    <3>2. /\ schedule.last_attempt \in Age
          /\ schedule.last_attempt <= RETRY_INTERVAL + waited
      BY <3>1, <2>5, <1>t DEF TriedInv, Schedules
    <3>3. schedule'.last_attempt
            = IF schedule.last_attempt = Horizon THEN Horizon ELSE schedule.last_attempt + 1
      BY <3>2, <1>5, IdlePersistAssumption DEF Tick, Older, Age, Unset
    <3> QED  BY <3>2, <3>3, <2>1, <2>2, <2>5, <1>t, IdlePersistAssumption DEF Age, Unset
  <2> QED  BY <2>1, <2>3, <2>4, <2>5, <1>0 DEF TriedInv
<1>6. CASE Disconnect
  BY <1>6, <1>0 DEF Disconnect, TriedInv
<1>7. CASE UNCHANGED <<view, schedule, waited, ended, silence>>
  BY <1>7, <1>0 DEF TriedInv
<1> QED
  BY <1>1, <1>2, <1>3, <1>4, <1>5, <1>6, <1>7
  DEF Next, Nothing, Publish, Rewrite, GoCalm, vars

\* Whatever the periods are, and however a volume's changes came in: after a
\* silence of the quiet period and one poll they have been tried to be written,
\* and tried again at the retry interval, until the worker returns because its
\* watcher has ended.
THEOREM SilentChangesTried == Spec => []SilentChangesAreTried
<1>1. Init => TriedInv
  BY TriedInit
<1>2. TriedInv /\ [Next]_vars => TriedInv'
  BY TriedStep
<1>3. TriedInv => SilentChangesAreTried
  <2> SUFFICES ASSUME TriedInv, ~ended, view.structural, silence > QUIET_PERIOD + POLL_INTERVAL
               PROVE  /\ schedule.last_attempt # Unset
                      /\ schedule.last_attempt <= RETRY_INTERVAL + POLL_INTERVAL
    BY DEF SilentChangesAreTried
  <2>1. /\ waited \in 0 .. POLL_INTERVAL /\ silence \in Age
        /\ schedule.last_attempt \in Age \cup {Unset}
    BY DEF TriedInv, IdlePersistInv, TypeOK
  <2>2. silence > waited /\ silence - waited >= QUIET_PERIOD
    BY <2>1, IdlePersistAssumption DEF Age
  <2>3. schedule.last_attempt # Unset /\ schedule.last_attempt <= RETRY_INTERVAL + waited
    BY <2>2 DEF TriedInv
  <2> QED  BY <2>1, <2>3, IdlePersistAssumption DEF Age, Unset
<1> QED  BY <1>1, <1>2, <1>3, PTL DEF Spec

-----------------------------------------------------------------------------
(* The checkpoint of the position. *)

\* The schedule's date is no younger than what is behind, and a poll that
\* ended after the checkpoint's age has made an attempt or found one that was
\* recent enough. Only a durable view has nothing behind.
CheckpointInv ==
  /\ TriedInv
  /\ ~needs_persist => behind = 0
  /\ needs_persist => schedule.dirty_since >= behind
  /\ /\ ~ended /\ needs_persist /\ schedule.last_structural_change = Unset
     /\ silence > waited /\ behind > waited /\ behind - waited >= CHECKPOINT_MAX_AGE
     => schedule.last_attempt # Unset /\ schedule.last_attempt <= RETRY_INTERVAL + waited

LEMMA CheckpointInit == Init => CheckpointInv
<1> SUFFICES ASSUME Init PROVE CheckpointInv
  OBVIOUS
<1>1. TriedInv /\ IdlePersistInv
  BY TriedInit, InitInv
<1>2. waited = 0 /\ silence = 0 /\ behind = 0
  BY DEF Init
<1>3. needs_persist => schedule.dirty_since \in Age
  BY <1>1 DEF IdlePersistInv, TypeOK, UnsavedIsScheduled
<1> QED  BY <1>1, <1>2, <1>3 DEF CheckpointInv, Age

\* A step after which nothing is behind.
LEMMA ResetCheckpoint ==
  ASSUME TriedInv', behind' = 0, waited' \in 0 .. POLL_INTERVAL
  PROVE  CheckpointInv'
<1>1. needs_persist' => schedule'.dirty_since \in Age
  BY DEF TriedInv, IdlePersistInv, TypeOK, UnsavedIsScheduled
<1>2. ~(behind' > waited')
  BY IdlePersistAssumption
<1> QED  BY <1>1, <1>2 DEF CheckpointInv, Age

LEMMA CheckpointStep == CheckpointInv /\ [Next]_vars => CheckpointInv'
<1> SUFFICES ASSUME CheckpointInv, [Next]_vars PROVE CheckpointInv'
  OBVIOUS
<1>0. TriedInv /\ TriedInv'
  BY TriedStep DEF CheckpointInv
<1>t. /\ schedule \in Schedules /\ waited \in 0 .. POLL_INTERVAL /\ silence \in Age /\ behind \in Age
      /\ schedule' \in Schedules /\ waited' \in 0 .. POLL_INTERVAL /\ silence' \in Age /\ behind' \in Age
      /\ view \in Types /\ view' \in Types /\ UnsavedIsScheduled
  BY <1>0 DEF TriedInv, IdlePersistInv, TypeOK, Types, Schedules
<1>1. CASE Nothing
  BY <1>0, <1>1, <1>t DEF Nothing, Message, CheckpointInv, needs_persist
<1>2. CASE Publish
  <2>1. PICK c \in BOOLEAN, a \in BOOLEAN : (c \/ a) /\ Published(c, a)
    BY <1>2 DEF Publish
  <2>2. behind' = behind /\ schedule' = observe(schedule, c, a) /\ silence' = 0 /\ waited' = 0
    BY <2>1, <1>2 DEF Publish, Message, Published
  <2>3. schedule.dirty_since # Unset => schedule'.dirty_since = schedule.dirty_since
    BY <2>2, <1>t DEF observe, Schedules
  <2>4. schedule'.dirty_since \in Age
    BY <2>1, <2>2, <1>t, ObserveDates DEF Schedules
  <2>5. schedule'.dirty_since >= behind'
    <3>1. CASE needs_persist
      BY <3>1, <2>2, <2>3, <1>t DEF CheckpointInv, UnsavedIsScheduled
    <3>2. CASE ~needs_persist
      BY <3>2, <2>2, <2>4 DEF CheckpointInv, Age
    <3> QED  BY <3>1, <3>2
  <2>6. ~needs_persist' => behind' = 0
    <3>1. PICK kept \in BOOLEAN :
            view' = [structural |-> view.structural \/ kept, moved |-> view.moved \/ a]
      BY <2>1 DEF Published
    <3>2. needs_persist => needs_persist'
      BY <3>1 DEF needs_persist
    <3> QED  BY <3>2, <2>2 DEF CheckpointInv
  <2> QED  BY <2>2, <2>5, <2>6, <1>0 DEF CheckpointInv
<1>3. CASE Saved
  BY <1>0, <1>3, <1>t, ResetCheckpoint DEF Saved
<1>4. CASE Poll /\ ~Saved
  <2>1. /\ waited' = 0 /\ view' = view /\ behind' = behind /\ silence' = silence /\ waited = POLL_INTERVAL
        /\ ~ended /\ ~ended'
    BY <1>4 DEF Poll
  <2>2. needs_persist' = needs_persist
    BY <2>1 DEF needs_persist
  <2>3. CASE ~should_attempt(schedule) /\ schedule' = schedule
    <3>1. ASSUME needs_persist, schedule.last_structural_change = Unset, behind >= CHECKPOINT_MAX_AGE
          PROVE  schedule.last_attempt # Unset /\ schedule.last_attempt < RETRY_INTERVAL
      <4>1. /\ schedule.dirty_since # Unset /\ schedule.dirty_since >= behind
            /\ schedule.dirty_since \in Age \cup {Unset} /\ schedule.last_attempt \in Age \cup {Unset}
        BY <3>1, <1>t DEF CheckpointInv, UnsavedIsScheduled, Schedules
      <4>2. due(schedule)
        BY <4>1, <3>1, <1>t, IdlePersistAssumption DEF due, Age, Unset
      <4> QED  BY <4>1, <4>2, <2>3, IdlePersistAssumption DEF should_attempt, Age, Unset
    <3>2. schedule.last_attempt \in Age \cup {Unset}
      BY <1>t DEF Schedules
    <3> QED
      BY <3>1, <3>2, <2>1, <2>2, <2>3, <1>0, <1>t, IdlePersistAssumption DEF CheckpointInv, Age, Unset
  <2>4. CASE schedule' = attempted(schedule)
    <3>1. schedule'.last_attempt = 0 /\ schedule'.dirty_since = schedule.dirty_since
      BY <2>4, <1>t DEF attempted, Schedules
    <3> QED  BY <3>1, <2>1, <2>2, <1>0, IdlePersistAssumption DEF CheckpointInv, Unset
  <2> QED  BY <2>3, <2>4, <1>4 DEF Poll
<1>5. CASE HandlerPersists
  BY <1>5, <1>0, <1>t, ResetCheckpoint DEF HandlerPersists
<1>6. CASE Restart
  BY <1>6, <1>0, <1>t, ResetCheckpoint DEF Restart
<1>7. CASE Tick
  <2>1. /\ view' = view /\ ended' = ended
        /\ ~ended => waited' = waited + 1 /\ waited < POLL_INTERVAL
        /\ silence' = IF silence = Horizon THEN silence ELSE silence + 1
        /\ behind' = IF ~needs_persist THEN 0 ELSE IF behind = Horizon THEN behind ELSE behind + 1
    <3>1. silence # Unset /\ behind # Unset
      BY <1>t DEF Age, Unset
    <3> QED  BY <3>1, <1>7 DEF Tick, Older
  <2>2. needs_persist' = needs_persist
    BY <2>1 DEF needs_persist
  <2>3. CASE ~needs_persist
    BY <2>1, <2>3, <1>0, <1>t, ResetCheckpoint
  <2>4. CASE needs_persist
    <3>1. schedule.dirty_since \in Age /\ schedule.dirty_since >= behind
      BY <2>4, <1>t DEF CheckpointInv, UnsavedIsScheduled, Schedules
    <3>2. schedule'.dirty_since
            = IF schedule.dirty_since = Horizon THEN Horizon ELSE schedule.dirty_since + 1
      BY <3>1, <1>7, IdlePersistAssumption DEF Tick, Older, Age, Unset
    <3>3. schedule'.dirty_since >= behind'
      BY <3>1, <3>2, <2>1, <2>4, <1>t, IdlePersistAssumption DEF Age
    <3>4. ASSUME ~ended, schedule'.last_structural_change = Unset, silence' > waited', behind' > waited',
                 behind' - waited' >= CHECKPOINT_MAX_AGE
          PROVE  schedule'.last_attempt # Unset /\ schedule'.last_attempt <= RETRY_INTERVAL + waited'
      <4>1. schedule.last_structural_change = Unset
        <5>1. schedule'.last_structural_change = Older(schedule.last_structural_change)
          BY <1>7 DEF Tick
        <5> QED  BY <5>1, <3>4, <1>t, OlderDates DEF Schedules
      <4>2. silence > waited /\ behind > waited /\ behind - waited >= CHECKPOINT_MAX_AGE
        BY <2>1, <2>4, <3>4, <1>t, IdlePersistAssumption DEF Age
      <4>3. schedule.last_attempt \in Age /\ schedule.last_attempt <= RETRY_INTERVAL + waited
        BY <4>1, <4>2, <3>4, <2>4, <1>t DEF CheckpointInv, Schedules
      <4>4. schedule'.last_attempt
              = IF schedule.last_attempt = Horizon THEN Horizon ELSE schedule.last_attempt + 1
        BY <4>3, <1>7, IdlePersistAssumption DEF Tick, Older, Age, Unset
      <4> QED  BY <4>3, <4>4, <3>4, <2>1, <1>t, IdlePersistAssumption DEF Age, Unset
    <3> QED  BY <3>3, <3>4, <2>1, <2>2, <2>4, <1>0 DEF CheckpointInv
  <2> QED  BY <2>3, <2>4
<1>8. CASE Disconnect
  BY <1>8, <1>0 DEF Disconnect, CheckpointInv, needs_persist
<1>9. CASE UNCHANGED <<view, schedule, waited, ended, silence, behind>>
  BY <1>9, <1>0 DEF CheckpointInv, needs_persist
<1> QED
  BY <1>1, <1>2, <1>3, <1>4, <1>5, <1>6, <1>7, <1>8, <1>9 DEF Next, Rewrite, GoCalm, vars

\* Whatever the periods are: a position that moved without changes has been
\* tried to be written once it is a checkpoint's age and a poll behind, and is
\* tried again at the retry interval, until the worker returns.
THEOREM PositionCheckpointed == Spec => []PositionIsCheckpointed
<1>1. CheckpointInv => PositionIsCheckpointed
  <2> SUFFICES ASSUME CheckpointInv, ~ended, view.moved,
                      schedule.last_structural_change = Unset,
                      behind > CHECKPOINT_MAX_AGE + POLL_INTERVAL, silence > POLL_INTERVAL
               PROVE  /\ schedule.last_attempt # Unset
                      /\ schedule.last_attempt <= RETRY_INTERVAL + POLL_INTERVAL
    BY DEF PositionIsCheckpointed
  <2>1. /\ waited \in 0 .. POLL_INTERVAL /\ silence \in Age /\ behind \in Age
        /\ schedule.last_attempt \in Age \cup {Unset}
    BY DEF CheckpointInv, TriedInv, IdlePersistInv, TypeOK
  <2>2. silence > waited /\ behind > waited /\ behind - waited >= CHECKPOINT_MAX_AGE
    BY <2>1, IdlePersistAssumption DEF Age
  <2>3. schedule.last_attempt # Unset /\ schedule.last_attempt <= RETRY_INTERVAL + waited
    BY <2>2 DEF CheckpointInv, needs_persist
  <2> QED  BY <2>1, <2>3, IdlePersistAssumption DEF Age, Unset
<1> QED  BY <1>1, CheckpointInit, CheckpointStep, PTL DEF Spec
=============================================================================
