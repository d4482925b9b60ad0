------------------------------ MODULE MySQLRecovery ------------------------------
(***************************************************************************)
(* The recovery worker over a live MySQL stream: it replays rows events,   *)
(* saves their checkpoints, file:pos, and reopens the stream with the      *)
(* saved one, while the server goes from file to file.                     *)
(***************************************************************************)
EXTENDS MySQLLive, RecoveryWorker

VARIABLES
  savedFile,   \* the file of the saved checkpoint
  origin       \* history: the first record since the worker, without a
               \* checkpoint, last joined the stream

vars == <<serverVars, streamerVars, liveVars, streamVars, workerVars, savedFile, origin>>

Init ==
  /\ BinlogInit /\ StreamerInit /\ LiveInit /\ WorkerInit
  /\ savedFile = 0
  /\ origin = 1

(* The decoder and its streamer are gone.                                  *)
Disconnect ==
  /\ next' = 1
  /\ prologue' = <<>>
  /\ refused' = FALSE
  /\ source' = 0
  /\ start' = 0
  /\ verify' = FALSE
  /\ cancelled' = FALSE
  /\ UNCHANGED <<serverVars, reconnects, savedFile, origin>>

Open ==
  /\ OpenLive(savedFile, saved)
  /\ origin' = IF saved = 0 THEN next' ELSE origin
  /\ UNCHANGED <<workerVars, savedFile>>

RangeOver ==
  /\ BeginLoop \/ RangeAgain
  /\ UNCHANGED <<serverVars, streamerVars, liveVars, savedFile, origin>>

Decode == LiveStep /\ UNCHANGED <<workerVars, savedFile, origin>>

(* PositionString is d.source.Name and the LogPos of the event.            *)
SaveFile == savedFile' = source

Consume ==
  /\ \/ (PassOver \/ Replay) /\ UNCHANGED savedFile
     \/ SaveCheckpoint /\ SaveFile
  /\ UNCHANGED <<serverVars, streamerVars, liveVars, origin>>

Stop == (PanicOnError \/ Leave) /\ Disconnect

Program == Open \/ RangeOver \/ Decode \/ Consume \/ Stop

Fail == Crash /\ Disconnect

Server ==
  /\ (\E kind \in {"rows", "other", "garbled"} : WriteEvent(kind)) \/ RotateLog \/ Reconnect
  /\ UNCHANGED <<workerVars, savedFile, origin>>

Lose == LoseStream /\ UNCHANGED <<workerVars, savedFile, origin>>

CancelContext == Cancel /\ UNCHANGED <<workerVars, savedFile, origin>>

Next == Program \/ Fail \/ Server \/ Lose \/ CancelContext

(* The process runs, the server and its connection owe it nothing, and the *)
(* select in GetEvent, which chooses at random, does not pass over a       *)
(* cancelled context for ever.                                             *)
Spec ==
  /\ Init /\ [][Next]_vars
  /\ WF_vars(Program)
  /\ SF_vars(EndCancelled /\ UNCHANGED <<workerVars, savedFile, origin>>)

----------------------------------------------------------------------------------

(* NewLiveDecoder and Backend.Open: the types of their fields and locals,  *)
(* and an open decoder knows the file it began with.                       *)
TypeOK ==
  /\ LiveTypeOK
  /\ WorkerTypeOK
  /\ savedFile \in 0..MaxFiles
  /\ origin \in 1..(Len(binlog) + 1)

(* The record that is being handed over or reported as an error.           *)
InHand == IF out.kind = "error" THEN next - 1 ELSE out.rec

(* The steps behind the point where the worker joined the stream, which    *)
(* the decoder is done with.                                               *)
Passed == {i \in origin..(next - 1) : binlog[i].kind = "rows" /\ i # InHand}

(* No operation of the file the decoder names is lost: the position the    *)
(* dump begins at and the LogPos filter of Events() agree with the         *)
(* checkpoint, whatever the DSN says, and a reconnection changes nothing.  *)
NoStepLostInFile == \A i \in Passed : binlog[i].file = source => i \in applied

(* No operation is lost.                                                   *)
NoStepLost == Passed \subseteq applied

(* In one file an operation is repeated only because a crash fell between  *)
(* its replay and the save of its checkpoint.                              *)
RepeatsNeedCrashes == End.file = 1 => repeats <= crashes

(* Cancelling the context ends a loop, also with events waiting.           *)
CancelEndsLoop == cancelled ~> phase \notin {"decoding", "yielding"}

==================================================================================
