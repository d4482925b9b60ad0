----------------------------- MODULE BinlogRecovery -----------------------------
(***************************************************************************)
(* The recovery worker over a binlog file opened through mysql/backend:    *)
(* the server appends to the file, the worker replays the reverse rows     *)
(* events and saves their checkpoints, tails the file by ranging again     *)
(* over the same decoder, and reopens it WithCheckpoint(saved).            *)
(***************************************************************************)
EXTENDS BinlogDecoder, RecoveryWorker

vars == <<binlogVars, fileDecoderVars, streamVars, workerVars>>

Init == BinlogInit /\ WorkerInit

(* The decoder, with its EventContext, is gone with the process.           *)
ForgetDecoder ==
  /\ read' = 0
  /\ skewed' = FALSE
  /\ desc' = FALSE
  /\ tables' = {}
  /\ start' = 0

Open == OpenBinlog(saved) /\ UNCHANGED workerVars

(* The position, the context and the table maps are the decoder's and      *)
(* outlive a loop over it.                                                 *)
RangeOver ==
  /\ BeginLoop \/ RangeAgain
  /\ UNCHANGED <<binlogVars, fileDecoderVars>>

Decode == BinlogStep /\ UNCHANGED workerVars

Consume ==
  /\ PassOver \/ Replay \/ SaveCheckpoint
  /\ UNCHANGED <<binlogVars, fileDecoderVars>>

Stop == (PanicOnError \/ Leave) /\ ForgetDecoder /\ UNCHANGED binlogVars

Program == Open \/ RangeOver \/ Decode \/ Consume \/ Stop

Fail == Crash /\ ForgetDecoder /\ UNCHANGED binlogVars

Grow ==
  /\ \/ \E t \in Tables : WriteMap(t) \/ WriteRows(t)
     \/ \E k \in PlainKinds : WritePlain(k)
     \/ TearEvent
  /\ UNCHANGED workerVars

Next == Program \/ Fail \/ Grow

Spec == Init /\ [][Next]_vars

(* The scheduler runs the process; the server and the crashes are free.    *)
FairSpec == Spec /\ WF_vars(Program)

--------------------------------------------------------------------------------

Steps == {i \in 1..Len(log) : log[i].kind = "rows"}

TypeOK == BinlogTypeOK /\ WorkerTypeOK

(* The events a loop that began inside an event consumed, and those whose  *)
(* table map it consumed.                                                  *)
PassedAstray == astray \cup {i + 1 : i \in astray}

(* Whatever was skipped, torn or reopened, every complete rows event at or *)
(* before the saved checkpoint was replayed, and so was every one the      *)
(* decoder read and is not handing over right now.  The one way to lose an *)
(* operation is to tail a file that ended inside an event: the loops after *)
(* that read astray up to the end of the file and decode on from there.    *)
NoStepLost ==
  \A i \in Steps :
    i <= saved \/ (i <= read /\ i # out.rec) => i \in applied \/ i \in PassedAstray

(* An operation is repeated only because a crash fell between its replay   *)
(* and the save of its checkpoint.                                         *)
RepeatsNeedCrashes == repeats <= crashes

(* As long as no decoder has read astray, the worker implements the        *)
(* abstract promise of ResumableStream.                                    *)
Cursor == IF worker = "replayed" THEN out.rec ELSE saved

Stream == INSTANCE ResumableStream WITH steps <- Steps, cursor <- Cursor

ImplementsStream == Stream!Init /\ [][astray' = {} => Stream!Next]_(Stream!vars)

(* Every rows event is replayed in the end unless an event before it fails *)
(* to decode or a loop read astray over it: a torn event, an error or a    *)
(* skipped prefix delay it only.                                           *)
Reachable(i) ==
  /\ i \in Steps
  /\ \A j \in 1..(i - 1) : log[j].kind \notin Faulty

EveryStepApplied == \A i \in 1..MaxLog : Reachable(i) ~> i \in applied \/ i \in PassedAstray

================================================================================
