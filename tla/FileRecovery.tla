------------------------------ MODULE FileRecovery ------------------------------
(***************************************************************************)
(* The recovery worker over an offline log file: the file grows, one of    *)
(* the offline decoders reads it, the worker replays and saves, and every  *)
(* new process opens the file WithCheckpoint(saved).  A worker that ranges *)
(* again over the same decoder counts its positions from 1 again while the *)
(* reader goes on: what a worker gets is stated up to its first such loop. *)
(***************************************************************************)
EXTENDS LineDecoder, RespDecoder, RecoveryWorker

VARIABLE again   \* history: a decoder was ranged over a second time

vars == <<fileVars, cursorVars, streamVars, workerVars, again>>

Init == LogInit /\ WorkerInit /\ again = FALSE

(* The decoder's fields are gone with the process.                         *)
ForgetCursor == read' = 0 /\ position' = 0 /\ start' = 0 /\ place' = "between"

(* Registry.Open(driver, WithPath(path), WithCheckpoint(saved)).           *)
Open == NewDecoder(saved) /\ UNCHANGED <<workerVars, again>>

(* Events() starts its closure: position is a new variable, the reader is  *)
(* the decoder's and stays where it is.                                    *)
RangeOver ==
  /\ BeginLoop \/ RangeAgain
  /\ position' = 0
  /\ again' = (again \/ ranges > 0)
  /\ UNCHANGED <<fileVars, read, start, place>>

Decode == (LineStep \/ RespStep) /\ UNCHANGED <<workerVars, again>>

Consume ==
  /\ PassOver \/ Replay \/ SaveCheckpoint
  /\ UNCHANGED <<fileVars, cursorVars, again>>

Stop == (PanicOnError \/ Leave) /\ ForgetCursor /\ UNCHANGED <<fileVars, again>>

(* What the process does by itself; one goroutine runs it.                 *)
Program == Open \/ RangeOver \/ Decode \/ Consume \/ Stop

Fail == Crash /\ ForgetCursor /\ UNCHANGED <<fileVars, again>>

Grow ==
  /\ \/ \E k \in Kinds : AppendRecord(k)
     \/ \E how \in {"header", "payload"} : TearRecord(how)
  /\ UNCHANGED <<workerVars, again>>

Next == Program \/ Fail \/ Grow

Spec == Init /\ [][Next]_vars

(* The scheduler runs the process; nothing makes the log grow or the       *)
(* process crash.                                                          *)
FairSpec == Spec /\ WF_vars(Program)

--------------------------------------------------------------------------------

(* The records that hold a reversible event.                               *)
Steps == {i \in 1..Len(log) : log[i] = "step"}

TypeOK == LogTypeOK /\ WorkerTypeOK /\ again \in BOOLEAN

(* The position an event carries, which its checkpoint saves, names the    *)
(* record it was decoded from: "Checkpoint stores the last consumed event  *)
(* location for a source" (dblog.go).  Positions are counted by a variable *)
(* of the Events() closure, the reader is the decoder's: a second loop     *)
(* over a decoder counts from 1 where the reader stands further on.        *)
PositionNamesRecord == out.kind \in EventKinds => out.pos = out.rec

(* No operation is lost: whatever crashed or failed, every reversible      *)
(* event at or before the saved checkpoint was replayed.  A start position *)
(* that skips too much, a blank line not counted, a torn record counted    *)
(* would each lose one, and a second loop over a decoder does.             *)
NoStepLost == again \/ \A i \in Steps : i <= saved => i \in applied

(* An operation is repeated only because a crash fell between its replay   *)
(* and the save of its checkpoint: never more repeats than crashes.        *)
RepeatsNeedCrashes == again \/ repeats <= crashes

(* Only what the log holds complete is replayed: a record torn at the end  *)
(* of an AOF file, or one that fails to parse, never yields an operation,  *)
(* in a further loop that begins inside the torn record neither.           *)
OnlyStepsApplied == applied \subseteq Steps

(* The worker implements the abstract promise of ResumableStream, its      *)
(* cursor being the operation replayed and not yet saved.                  *)
Cursor == IF worker = "replayed" THEN out.rec ELSE saved

Stream == INSTANCE ResumableStream WITH steps <- Steps, cursor <- Cursor

ImplementsStream == Stream!Init /\ [][~again' => Stream!Next]_(Stream!vars)

(* Every reversible event is replayed in the end, however the file grows   *)
(* and the process crashes, unless a record before it fails to decode.     *)
Reachable(i) ==
  /\ i \in Steps
  /\ \A j \in 1..(i - 1) : log[j] \notin Faulty

EveryStepApplied == \A i \in 1..MaxLog : Reachable(i) ~> i \in applied \/ again

================================================================================
