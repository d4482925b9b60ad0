---------------------------- MODULE ResumableStream ----------------------------
(***************************************************************************)
(* What the recovery loop of doc/RECOVERY.md promises over any backend: a  *)
(* log carries reversible events at increasing positions, the worker       *)
(* replays their compensating operations one by one, and after each one    *)
(* saves its checkpoint.  A restarted worker goes on from the saved        *)
(* checkpoint: the operations it replays are those of the log, in log      *)
(* order, none left out, and the only one ever repeated is the one that    *)
(* was replayed but not yet saved.                                         *)
(***************************************************************************)
EXTENDS Naturals

VARIABLES
  steps,    \* the positions of the log that hold a reversible event
  cursor,   \* the position of the last operation replayed by this worker
  saved     \* the position of the saved checkpoint, 0 when there is none

vars == <<steps, cursor, saved>>

Init ==
  /\ steps = {}
  /\ cursor = 0
  /\ saved = 0

(* The log grows at its end: new positions lie above the old ones and      *)
(* above what was replayed.                                                *)
Extend ==
  /\ steps \subseteq steps'
  /\ \A new \in steps' \ steps :
        /\ new > cursor
        /\ \A old \in steps : new > old
  /\ UNCHANGED <<cursor, saved>>

(* dblog.RecoveryPlan yields the next reversible event and the worker      *)
(* replays it; the previous one has been saved.                            *)
Replay ==
  /\ cursor = saved
  /\ cursor' \in steps
  /\ cursor' > cursor
  /\ \A s \in steps : s > cursor => s >= cursor'
  /\ UNCHANGED <<steps, saved>>

(* saveCheckpoint(step.Checkpoint).                                        *)
Save ==
  /\ cursor > saved
  /\ saved' = cursor
  /\ UNCHANGED <<steps, cursor>>

(* The worker stops and a new one reopens the log WithCheckpoint(saved).   *)
Restart ==
  /\ cursor' = saved
  /\ UNCHANGED <<steps, saved>>

Next == Extend \/ Replay \/ Save \/ Restart

Spec == Init /\ [][Next]_vars

================================================================================
