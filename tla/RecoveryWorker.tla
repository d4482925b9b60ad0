----------------------------- MODULE RecoveryWorker -----------------------------
(***************************************************************************)
(* dblog.RecoveryPlan and the loop of doc/RECOVERY.md around it: replay    *)
(* the compensating operation of a step, then save the step's checkpoint.  *)
(* The replayed operations and the checkpoint are durable, everything else *)
(* is lost when the process dies.                                          *)
(***************************************************************************)
EXTENDS EventStream

CONSTANTS
  MaxCrashes,  \* bound on the crashes of the process
  MaxRanges    \* how many loops range over the Events() of one decoder

VARIABLES
  worker,   \* "idle", or "replayed" between the replay and the save
  ranges,   \* loops begun over the open decoder
  saved,    \* the position of the saved checkpoint, 0 when there is none
  applied,  \* the records whose operation was replayed
  repeats,  \* replays of an operation that had been replayed before
  crashes   \* crashes so far

durableVars == <<saved, applied, repeats>>
workerVars  == <<worker, ranges, durableVars, crashes>>

WorkerInit ==
  /\ phase = "closed"
  /\ out = Nothing
  /\ worker = "idle"
  /\ ranges = 0
  /\ saved = 0
  /\ applied = {}
  /\ repeats = 0
  /\ crashes = 0

(* for step, err := range dblog.RecoveryPlan(decoder.Events())             *)
BeginLoop ==
  /\ phase = "open"
  /\ ranges < MaxRanges
  /\ phase' = "decoding"
  /\ ranges' = ranges + 1
  /\ UNCHANGED <<out, worker, durableVars, crashes>>

(* The worker tails a growing log: it ranges again over a decoder whose    *)
(* Events() came to the end of it.                                         *)
RangeAgain ==
  /\ phase = "done"
  /\ ranges < MaxRanges
  /\ phase' = "decoding"
  /\ ranges' = ranges + 1
  /\ UNCHANGED <<out, worker, durableVars, crashes>>

(* RecoveryPlan: an event without a compensating operation.                *)
PassOver ==
  /\ Continue
  /\ out.kind = "info"
  /\ UNCHANGED workerVars

(* RecoveryPlan yields a step and the loop replays step.Operation.         *)
Replay ==
  /\ phase = "yielding"
  /\ out.kind = "step"
  /\ worker = "idle"
  /\ worker' = "replayed"
  /\ applied' = applied \cup {out.rec}
  /\ repeats' = IF out.rec \in applied THEN repeats + 1 ELSE repeats
  /\ UNCHANGED <<streamVars, ranges, saved, crashes>>

(* saveCheckpoint(step.Checkpoint), and the loop goes on or breaks.        *)
SaveCheckpoint ==
  /\ worker = "replayed"
  /\ saved' = out.pos
  /\ worker' = "idle"
  /\ Continue \/ BreakOut
  /\ UNCHANGED <<ranges, applied, repeats, crashes>>

(* The process is gone: only what is durable remains.                      *)
Die ==
  /\ phase' = "closed"
  /\ out' = Nothing
  /\ worker' = "idle"
  /\ ranges' = 0
  /\ UNCHANGED durableVars

(* if err != nil { panic(err) }                                            *)
PanicOnError ==
  /\ phase = "yielding"
  /\ out.kind = "error"
  /\ Die
  /\ UNCHANGED crashes

(* The loop ended or broke, the decoder is closed and the process leaves.  *)
Leave ==
  /\ phase = "done" \/ (phase = "open" /\ ranges > 0)
  /\ Die
  /\ UNCHANGED crashes

Crash ==
  /\ phase # "closed"
  /\ crashes < MaxCrashes
  /\ Die
  /\ crashes' = crashes + 1

WorkerTypeOK ==
  /\ StreamTypeOK
  /\ worker \in {"idle", "replayed"}
  /\ ranges \in Nat
  /\ saved \in Nat
  /\ applied \subseteq Nat
  /\ repeats \in Nat
  /\ crashes \in Nat

================================================================================
