---------------------------- MODULE VisibleIndex ----------------------------
(***************************************************************************)
(* What the daemon promises the users of one volume's index, with no       *)
(* journal, channel, snapshot or process in sight: changes happen on the   *)
(* volume, the index shows some of them, and what it has once shown it     *)
(* goes on showing, whatever is rebuilt, compacted, persisted or restarted *)
(* underneath. The one exception is an index that has become lossy, until  *)
(* it is rebuilt.                                                          *)
(***************************************************************************)
VARIABLES
  changes,  \* every structural change made to the volume so far
  shown,    \* the changes the index served to queries reflects
  lossy     \* the index is known to miss records

vars == <<changes, shown, lossy>>

Init ==
  /\ changes = {}
  /\ shown = {}
  /\ lossy = FALSE

\* The volume changes; nobody asks the index.
Change ==
  /\ changes \subseteq changes'
  /\ UNCHANGED <<shown, lossy>>

\* A new index is published: it shows at least what the last one did and
\* nothing that did not happen. It may turn out lossy, or be whole again.
Publish ==
  /\ lossy' \in BOOLEAN
  /\ shown \subseteq shown' \/ lossy'
  /\ shown' \subseteq changes
  /\ UNCHANGED changes

Spec == Init /\ [][Change \/ Publish]_vars
=============================================================================
