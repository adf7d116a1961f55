---------------------------- MODULE IdlePersist ----------------------------
(***************************************************************************)
(* When the worker of a volume writes a snapshot although nothing forces   *)
(* it to: IdlePersistSchedule and the two waits of reindex_on_changes.     *)
(* An instant is kept as the time passed since it, in ticks of the poll    *)
(* interval's unit, and Unset where the code has None.                     *)
(***************************************************************************)
EXTENDS Integers

CONSTANTS
  POLL_INTERVAL,       \* IDLE_PERSIST_POLL_INTERVAL
  QUIET_PERIOD,        \* STRUCTURAL_PERSIST_QUIET_PERIOD
  CHECKPOINT_MAX_AGE,  \* CURSOR_CHECKPOINT_MAX_AGE
  RETRY_INTERVAL,      \* IDLE_PERSIST_RETRY_INTERVAL
  Horizon              \* bound: an age beyond it is not told from it

ASSUME IdlePersistAssumption ==
  /\ POLL_INTERVAL \in Nat \ {0} /\ QUIET_PERIOD \in Nat /\ CHECKPOINT_MAX_AGE \in Nat
  /\ RETRY_INTERVAL \in Nat /\ Horizon \in Nat
  /\ Horizon > QUIET_PERIOD + POLL_INTERVAL
  /\ Horizon > CHECKPOINT_MAX_AGE + POLL_INTERVAL
  /\ Horizon > RETRY_INTERVAL + POLL_INTERVAL

VARIABLES
  view,      \* how the published view differs from the snapshot it rests on
  schedule,  \* IdlePersistSchedule
  waited,    \* since the worker began to wait for a message
  ended,     \* the worker has returned: its channel was disconnected
  silence,   \* history: since the last message
  behind,    \* history: since the view was last durable
  calm       \* history: from now on no message comes and no write fails

vars == <<view, schedule, waited, ended, silence, behind, calm>>

Unset == -1
Age == 0 .. Horizon
Idle == [dirty_since |-> Unset, last_structural_change |-> Unset, last_attempt |-> Unset]
Durable == [structural |-> FALSE, moved |-> FALSE]

needs_persist == view.structural \/ view.moved

TypeOK ==
  /\ view \in [structural : BOOLEAN, moved : BOOLEAN]
  /\ schedule \in [dirty_since : Age \cup {Unset},
                   last_structural_change : Age \cup {Unset},
                   last_attempt : Age \cup {Unset}]
  /\ waited \in 0 .. POLL_INTERVAL /\ ended \in BOOLEAN
  /\ silence \in Age /\ behind \in Age /\ calm \in BOOLEAN

-----------------------------------------------------------------------------
(* IdlePersistSchedule. *)

\* Mutant: every observation renews the date of the first one.
observe_Renewed(s, structural_change, cursor_advanced) ==
  [s EXCEPT
     !.dirty_since = IF structural_change \/ cursor_advanced THEN 0 ELSE @,
     !.last_structural_change = IF structural_change THEN 0 ELSE @]

observe(s, structural_change, cursor_advanced) ==
  [s EXCEPT
     !.dirty_since = IF (structural_change \/ cursor_advanced) /\ @ = Unset THEN 0 ELSE @,
     !.last_structural_change = IF structural_change THEN 0 ELSE @]

\* Mutant: changes wait for the checkpoint's age as well.
due_Both(s) ==
  /\ s.last_structural_change = Unset \/ s.last_structural_change >= QUIET_PERIOD
  /\ s.dirty_since # Unset /\ s.dirty_since >= CHECKPOINT_MAX_AGE

due(s) ==
  IF s.last_structural_change # Unset
  THEN s.last_structural_change >= QUIET_PERIOD
  ELSE s.dirty_since # Unset /\ s.dirty_since >= CHECKPOINT_MAX_AGE

\* Mutant: is_some_and for is_none_or.
should_attempt_Retries(s) ==
  due(s) /\ s.last_attempt # Unset /\ s.last_attempt >= RETRY_INTERVAL

should_attempt(s) ==
  due(s) /\ (s.last_attempt = Unset \/ s.last_attempt >= RETRY_INTERVAL)

\* Mutant: a failed attempt is taken for a success.
attempted_Persisted(s) == Idle

attempted(s) == [s EXCEPT !.last_attempt = 0]

-----------------------------------------------------------------------------
(* The worker. *)

\* A start resumes or builds a view, and observes how far it is from its snapshot.
Init ==
  /\ view \in [structural : BOOLEAN, moved : BOOLEAN]
  /\ schedule = observe(Idle, view.structural, needs_persist)
  /\ waited = 0 /\ ended = FALSE
  /\ silence = 0 /\ behind = 0 /\ calm = FALSE

\* The outcome of any write of a snapshot, compaction or build.
Saved ==
  /\ view' = Durable /\ schedule' = Idle /\ behind' = 0

\* A drained batch of messages. It holds changes, the position moved, or
\* neither; changes need not leave anything in the delta.
Published(changes, advanced) ==
  /\ \E kept \in BOOLEAN :
       /\ kept => changes
       /\ view' = [structural |-> view.structural \/ kept, moved |-> view.moved \/ advanced]
  /\ schedule' = observe(schedule, changes, advanced)
  /\ UNCHANGED behind

Message ==
  /\ ~ended /\ ~calm
  /\ silence' = 0 /\ waited' = 0
  /\ UNCHANGED <<ended, calm>>

Nothing ==     \* own writes only and no overflow, or a rebuild that fails
  /\ Message
  /\ UNCHANGED <<view, schedule, behind>>

Publish ==     \* below the threshold, or the compaction it asked for failed
  /\ Message
  /\ \E changes, advanced \in BOOLEAN :
       (changes \/ advanced) /\ Published(changes, advanced)

Rewrite ==     \* a compaction over the threshold, or a rebuild
  /\ Message
  /\ Saved

\* recv_timeout gives up: the only place that asks the schedule.
Poll ==
  /\ ~ended /\ waited = POLL_INTERVAL
  /\ waited' = 0
  /\ \/ /\ ~should_attempt(schedule)
        /\ UNCHANGED <<view, schedule, behind>>
     \/ should_attempt(schedule) /\ Saved
     \/ /\ should_attempt(schedule) /\ needs_persist /\ ~calm
        /\ schedule' = attempted(schedule) /\ UNCHANGED <<view, behind>>
  /\ UNCHANGED <<ended, silence, calm>>

\* The watcher has ended, and with it the channel: the worker returns for good,
\* and the daemon goes on serving the view as it is.
Disconnect ==
  /\ ~ended /\ ended' = TRUE
  /\ UNCHANGED <<view, schedule, waited, silence, behind, calm>>

-----------------------------------------------------------------------------
(* Everything else. *)

\* The shutdown handler publishes a compacted view and leaves the schedule.
HandlerPersists ==
  /\ needs_persist
  /\ view' = Durable /\ behind' = 0
  /\ UNCHANGED <<schedule, waited, ended, silence, calm>>

Restart ==
  /\ ~calm
  /\ view' \in [structural : BOOLEAN, moved : BOOLEAN]
  /\ schedule' = observe(Idle, view'.structural, view'.structural \/ view'.moved)
  /\ waited' = 0 /\ ended' = FALSE
  /\ silence' = 0 /\ behind' = 0 /\ UNCHANGED calm

Older(age) == IF age = Unset \/ age = Horizon THEN age ELSE age + 1

\* Mutant: the wait is not bounded by the poll interval.
Tick_Unbounded ==
  /\ waited' = IF ended THEN waited ELSE waited + 1
  /\ schedule' = [dirty_since |-> Older(schedule.dirty_since),
                  last_structural_change |-> Older(schedule.last_structural_change),
                  last_attempt |-> Older(schedule.last_attempt)]
  /\ silence' = Older(silence)
  /\ behind' = IF needs_persist THEN Older(behind) ELSE 0
  /\ UNCHANGED <<view, ended, calm>>

\* recv_timeout wakes up in time, so time waits for a poll that is due; once
\* the worker has returned nobody waits.
Tick ==
  /\ ended \/ waited < POLL_INTERVAL
  /\ waited' = IF ended THEN waited ELSE waited + 1
  /\ schedule' = [dirty_since |-> Older(schedule.dirty_since),
                  last_structural_change |-> Older(schedule.last_structural_change),
                  last_attempt |-> Older(schedule.last_attempt)]
  /\ silence' = Older(silence)
  /\ behind' = IF needs_persist THEN Older(behind) ELSE 0
  /\ UNCHANGED <<view, ended, calm>>

GoCalm ==
  /\ ~calm /\ calm' = TRUE
  /\ UNCHANGED <<view, schedule, waited, ended, silence, behind>>

Next ==
  \/ Nothing \/ Publish \/ Rewrite \/ Poll \/ Disconnect
  \/ HandlerPersists \/ Restart \/ Tick \/ GoCalm

Spec == Init /\ [][Next]_vars

\* The clock goes on, and the worker's wait ends while there is a worker.
LiveSpec == Spec /\ WF_vars(Tick) /\ WF_vars(Poll)

-----------------------------------------------------------------------------
(* Properties. *)

\* Whatever could be lost is known to the schedule: after any mix of failed
\* compactions, failed rebuilds, resets and starts, a view that differs from
\* its snapshot has a date, and one with changes a date of its last change.
\* Were one missing, nothing would ever write that view.
UnsavedIsScheduled ==
  /\ needs_persist => schedule.dirty_since # Unset
  /\ view.structural => schedule.last_structural_change # Unset

\* Once a volume has been silent for the quiet period and a poll, its changes
\* have been tried to be written, and were they refused, not long ago. A volume
\* whose worker has returned is exempt: nobody polls for it any more, and only
\* the shutdown handler or another start will write its changes.
SilentChangesAreTried ==
  ~ended /\ view.structural /\ silence > QUIET_PERIOD + POLL_INTERVAL =>
    schedule.last_attempt # Unset /\ schedule.last_attempt <= RETRY_INTERVAL + POLL_INTERVAL

\* A position that moved without changes is written within the checkpoint's
\* age and a poll, if the worker has been left alone since long enough to poll.
\* Here too only a worker that has not returned can do it.
PositionIsCheckpointed ==
  /\ ~ended /\ view.moved /\ schedule.last_structural_change = Unset
  /\ behind > CHECKPOINT_MAX_AGE + POLL_INTERVAL /\ silence > POLL_INTERVAL
  => schedule.last_attempt # Unset /\ schedule.last_attempt <= RETRY_INTERVAL + POLL_INTERVAL

\* When messages stop and writes succeed, what the daemon knows is on disk in
\* the end, however the schedule was left; unless the worker returns, after
\* which nothing is written before the shutdown.
EventuallyDurable == calm ~> ~needs_persist \/ ended
=============================================================================
