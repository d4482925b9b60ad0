------------------------------ MODULE RedisRecovery ------------------------------
(***************************************************************************)
(* The recovery worker over a live Redis replication stream: a worker that *)
(* restarts opens a new connection WithCheckpoint(saved), and every        *)
(* connection begins with PSYNC ? -1, a full synchronisation.              *)
(***************************************************************************)
EXTENDS RedisLive, RecoveryWorker

vars == <<serverVars, socketVars, decoderVars, contextVars, streamVars, workerVars>>

Init == LiveInit /\ WorkerInit

Open == Dial(saved) /\ UNCHANGED workerVars

RangeOver == BeginLoop /\ EnterEvents

Decode == (Handshake \/ Replicate) /\ UNCHANGED workerVars

Consume ==
  /\ PassOver \/ Replay \/ SaveCheckpoint
  /\ UNCHANGED <<serverVars, socketVars, decoderVars, contextVars>>

(* The connection and everything the process knows is gone; the server and *)
(* what it executed stay.                                                  *)
Disconnect ==
  /\ conn' = "none"
  /\ wire' = <<>>
  /\ streaming' = FALSE
  /\ owed' = 0
  /\ psync' = FALSE
  /\ step' = "port"
  /\ asked' = FALSE
  /\ handshook' = FALSE
  /\ position' = 0
  /\ start' = 0
  /\ garbled' = FALSE
  /\ loop' = 0
  /\ watchers' = {}
  /\ UNCHANGED <<executed, base, ctx, late>>

Stop == (PanicOnError \/ Leave) /\ Disconnect

Fail == Crash /\ Disconnect

Environment == (Server \/ Watchers) /\ UNCHANGED workerVars

Program == Open \/ RangeOver \/ Decode \/ Consume \/ Stop

Next == Program \/ Fail \/ Environment

Spec == Init /\ [][Next]_vars

--------------------------------------------------------------------------------

(* "WithCheckpoint resumes an opened backend after a previously consumed   *)
(* event" (dblog.go): a reversible command the decoder passes over because *)
(* of the checkpoint is one whose operation was replayed before.           *)
SkippedWereReplayed ==
  [][SkipCommand =>
       (Head(wire).kind = "step" => Head(wire).rec \in applied)]_vars

================================================================================
