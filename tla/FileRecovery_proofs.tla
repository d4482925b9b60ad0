-------------------------- MODULE FileRecovery_proofs --------------------------
(***************************************************************************)
(* Proofs about FileRecovery for logs of any length and any number of      *)
(* crashes and loops.  What is handed over is in the log however often a   *)
(* decoder is ranged over; what the worker is promised holds until one is  *)
(* ranged over a second time, which the properties say with again.         *)
(***************************************************************************)
EXTENDS FileRecovery, TLAPS

--------------------------------------------------------------------------------
(***************************************************************************)
(* The inductive invariant.  Until a decoder is ranged over a second time, *)
(* the reader and the position move together, every reversible record      *)
(* behind the reader is saved already, and beyond the saved checkpoint at  *)
(* most the next reversible record was replayed.                           *)
(***************************************************************************)

Fresh == phase \in {"closed", "open"} /\ ranges = 0

CursorInv ==
  /\ phase = "closed" => ranges = 0
  /\ Fresh => read = 0
  /\ ranges = 0 => phase \in {"closed", "open"}
  /\ ranges \in {0, 1}
  /\ read <= Len(log)
  /\ saved <= Len(log)
  /\ start <= saved
  /\ phase \in {"decoding", "yielding"} => position = read
  /\ phase = "open" /\ ranges = 0 => start = saved

OutInv ==
  /\ phase # "yielding" => out = Nothing
  /\ phase = "yielding" => out.kind \in EventKinds \cup {"error"}
  /\ out.kind \in EventKinds =>
        /\ out.rec = read
        /\ out.pos = read
        /\ read \in 1..Len(log)
        /\ out.kind = log[read]
        /\ saved < read
        /\ \A i \in Steps : i < read => i <= saved

DecodingInv ==
  phase = "decoding" =>
    /\ \A i \in Steps : i <= read => i <= saved
    /\ saved <= read \/ saved = start

WorkerInv ==
  worker = "replayed" =>
    /\ out.kind = "step"
    /\ out.rec \in applied

AheadInv ==
  \A i \in applied : i > saved => \A j \in Steps : j > saved => i <= j

(* An operation was replayed, its checkpoint not saved, and its worker is  *)
(* gone: the replay that will repeat it is still to come.                  *)
Owed == worker = "idle" /\ \E i \in applied : i > saved

RepeatsInv ==
  /\ repeats <= crashes
  /\ Owed => repeats < crashes

(* Every reversible record at or before the checkpoint was replayed.       *)
SavedInv == \A i \in Steps : i <= saved => i \in applied

(* What a second loop over a decoder breaks.                               *)
OnceInv ==
  /\ TypeOK
  /\ CursorInv
  /\ OutInv
  /\ DecodingInv
  /\ WorkerInv
  /\ AheadInv
  /\ RepeatsInv
  /\ SavedInv
  /\ OnlyStepsApplied

IInv == again \/ OnceInv

--------------------------------------------------------------------------------

LEMMA OutputTypes ==
  /\ Nothing \in Outputs
  /\ [kind |-> "error", pos |-> 0, rec |-> 0] \in Outputs
BY DEF Nothing, Outputs, EventKinds

LEMMA InitIInv == Init => OnceInv
<1> SUFFICES ASSUME Init PROVE OnceInv
  OBVIOUS
<1>0. again \in BOOLEAN /\ LogInit /\ WorkerInit
  BY DEF Init
<1>1. TypeOK
  BY <1>0 DEF LogInit, WorkerInit, TypeOK, LogTypeOK, WorkerTypeOK,
     StreamTypeOK, Phases, Outputs, EventKinds, Nothing, Kinds, LineKinds, RespKinds, Places
<1>2. Steps = {}
  BY DEF Init, LogInit, Steps
<1>3. CursorInv /\ OutInv /\ DecodingInv /\ WorkerInv
  BY <1>2 DEF Init, LogInit, WorkerInit, CursorInv, Fresh, OutInv, DecodingInv,
     WorkerInv, Nothing, EventKinds
<1>4. AheadInv /\ RepeatsInv /\ SavedInv /\ OnlyStepsApplied
  BY <1>2 DEF Init, WorkerInit, AheadInv, RepeatsInv, Owed, SavedInv,
     OnlyStepsApplied
<1>. QED
  BY <1>1, <1>3, <1>4 DEF OnceInv

(***************************************************************************)
(* Whatever the format, one turn of Events() has one of four effects.      *)
(***************************************************************************)

(* A record is passed over that is not reversible or lies before start.    *)
Skips ==
  /\ phase = "decoding"
  /\ read < Len(log)
  /\ log[read + 1] = "step" => position + 1 <= start
  /\ read' = read + 1
  /\ position' = position + 1
  /\ UNCHANGED <<fileVars, start, place, streamVars, workerVars, again>>

(* The event of a record beyond start is yielded.                          *)
Delivers ==
  /\ phase = "decoding"
  /\ read < Len(log)
  /\ position + 1 > start
  /\ read' = read + 1
  /\ position' = position + 1
  /\ log[read + 1] \in EventKinds
  /\ Yield(log[read + 1], position + 1, read + 1)
  /\ UNCHANGED <<fileVars, start, place, workerVars, again>>

(* An error is yielded, with its record consumed or not.                   *)
Fails ==
  /\ phase = "decoding"
  /\ \/ read' = read /\ position' = position
     \/ read < Len(log) /\ read' = read + 1 /\ position' = position + 1
  /\ YieldError
  /\ place' \in Places
  /\ UNCHANGED <<fileVars, start, workerVars, again>>

(* Events() returns.                                                       *)
Ends ==
  /\ phase = "decoding"
  /\ Return
  /\ place' \in Places
  /\ UNCHANGED <<fileVars, read, position, start, workerVars, again>>

LEMMA DecodeEffect ==
  ASSUME TypeOK, Decode PROVE Skips \/ Delivers \/ Fails \/ Ends
<1>. USE DEF fileVars, cursorVars, streamVars, workerVars, TypeOK, LogTypeOK
<1>0. \A p \in {"between", "ended", "inside"} : p \in Places
  BY DEF Places
<1>1. CASE LineStep
  <2>1. CASE SkipLine
    BY <2>1 DEF Decode, SkipLine, ScanLine, Skipped, Skips
  <2>2. CASE DecodeLine
    BY <2>2 DEF Decode, DecodeLine, ScanLine, Skipped, Delivers
  <2>3. CASE FailLine
    BY <2>3 DEF Decode, FailLine, ScanLine, Fails
  <2>4. CASE EndOfLines
    BY <1>0, <2>4 DEF Decode, EndOfLines, Fails, Ends
  <2>5. CASE StayEnded
    BY <2>5 DEF Decode, StayEnded, Ends
  <2>. QED
    BY <1>1, <2>1, <2>2, <2>3, <2>4, <2>5 DEF LineStep
<1>2. CASE RespStep
  <2>1. CASE SkipCommand
    BY <2>1 DEF Decode, SkipCommand, ParseCommand, Skips
  <2>2. CASE DecodeCommand
    BY <2>2 DEF Decode, DecodeCommand, ParseCommand, Delivers
  <2>3. CASE RefuseCommand
    BY <2>3 DEF Decode, RefuseCommand, ParseCommand, Fails
  <2>4. CASE FailFrame
    BY <2>4 DEF Decode, FailFrame, Fails
  <2>5. CASE EndOfFrames
    BY <1>0, <2>5 DEF Decode, EndOfFrames, Fails, Ends
  <2>6. CASE ResumeInside
    BY <2>6 DEF Decode, ResumeInside, Fails, Ends
  <2>. QED
    BY <1>2, <2>1, <2>2, <2>3, <2>4, <2>5, <2>6 DEF RespStep
<1>. QED
  BY <1>1, <1>2 DEF Decode

(***************************************************************************)
(* However often a worker ranges over a decoder, what it is handed is in   *)
(* the log.                                                                *)
(***************************************************************************)

HandedInv ==
  phase = "yielding" /\ out.kind \in EventKinds => out.rec \in 1..Len(log) /\ log[out.rec] = out.kind

LEMMA TypeStep == ASSUME TypeOK, [Next]_vars PROVE TypeOK'
<1>. USE DEF TypeOK, LogTypeOK, WorkerTypeOK, StreamTypeOK, Phases, fileVars, cursorVars,
             streamVars, workerVars, durableVars
<1>1. CASE Open
  BY <1>1 DEF Open, NewDecoder
<1>2. CASE RangeOver
  <2>1. again' \in BOOLEAN
    BY <1>2, Zenon DEF RangeOver
  <2>2. (BeginLoop \/ RangeAgain) /\ position' = 0 /\ UNCHANGED <<fileVars, read, start, place>>
    BY <1>2, Zenon DEF RangeOver
  <2>3. phase' = "decoding" /\ ranges' = ranges + 1
        /\ UNCHANGED <<format, log, torn, read, start, place, out, worker, saved, applied, repeats, crashes>>
    BY <2>2 DEF BeginLoop, RangeAgain
  <2>4. ranges' \in Nat /\ position' \in Nat /\ phase' \in Phases
    BY <2>2, <2>3
  <2>5. LogTypeOK'
    BY <2>3, <2>4
  <2>6. WorkerTypeOK'
    BY <2>3, <2>4
  <2>. QED
    BY <2>1, <2>5, <2>6, Zenon
<1>3. CASE Decode
  <2>1. CASE Skips
    BY <2>1 DEF Skips
  <2>2. CASE Delivers
    <3>1. out' \in Outputs
      BY <2>2 DEF Delivers, Yield, Outputs, EventKinds
    <3>. QED
      BY <2>2, <3>1 DEF Delivers, Yield
  <2>3. CASE Fails
    BY <2>3, OutputTypes DEF Fails, YieldError
  <2>4. CASE Ends
    BY <2>4 DEF Ends, Return
  <2>. QED
    BY <1>3, <2>1, <2>2, <2>3, <2>4, DecodeEffect
<1>4. CASE Consume
  <2>1. out.pos \in Nat /\ out.rec \in Nat
    BY DEF Outputs
  <2>2. CASE PassOver
    BY <1>4, <2>2, OutputTypes DEF Consume, PassOver, Continue
  <2>3. CASE Replay
    <3>1. applied' = applied \cup {out.rec} /\ repeats' \in {repeats, repeats + 1}
      BY <2>3 DEF Replay
    <3>2. applied \subseteq Nat /\ repeats \in Nat
      OBVIOUS
    <3>3. applied' \subseteq Nat
      BY <2>1, <3>1, <3>2
    <3>4. repeats' \in Nat
      BY <3>1, <3>2
    <3>. QED
      BY <1>4, <2>3, <3>3, <3>4 DEF Consume, Replay
  <2>4. CASE SaveCheckpoint
    BY <1>4, <2>1, <2>4, OutputTypes DEF Consume, SaveCheckpoint, Continue, BreakOut
  <2>. QED
    BY <1>4, <2>2, <2>3, <2>4 DEF Consume
<1>5. CASE Stop \/ Fail
  <2>1. Die /\ ForgetCursor /\ UNCHANGED fileVars /\ crashes' \in {crashes, crashes + 1}
    BY <1>5 DEF Stop, PanicOnError, Leave, Fail, Crash
  <2>2. place' \in Places /\ again' = again
    BY <1>5 DEF Stop, Fail, ForgetCursor, Places
  <2>. QED
    BY <2>1, <2>2, OutputTypes DEF Die, ForgetCursor
<1>6. CASE Grow
  <2>1. log' \in Seq(Kinds) /\ torn' \in {"no", "header", "payload"}
    BY <1>6 DEF Grow, AppendRecord, TearRecord
  <2>. QED
    BY <1>6, <2>1 DEF Grow, AppendRecord, TearRecord
<1>7. CASE UNCHANGED vars
  BY <1>7 DEF vars
<1>. QED
  BY <1>1, <1>2, <1>3, <1>4, <1>5, <1>6, <1>7 DEF Next, Program

LEMMA HandedStep ==
  ASSUME TypeOK, HandedInv, OnlyStepsApplied, [Next]_vars
  PROVE  HandedInv' /\ OnlyStepsApplied'
<1>. USE DEF HandedInv, OnlyStepsApplied, Steps, fileVars, cursorVars, streamVars, workerVars, durableVars
<1>1. CASE Open \/ RangeOver \/ UNCHANGED vars
  BY <1>1 DEF Open, NewDecoder, RangeOver, BeginLoop, RangeAgain, vars
<1>2. CASE Decode
  <2>1. CASE Skips
    BY <2>1 DEF Skips
  <2>2. CASE Delivers
    BY <2>2 DEF Delivers, Yield, EventKinds, TypeOK, LogTypeOK
  <2>3. CASE Fails
    BY <2>3 DEF Fails, YieldError, EventKinds
  <2>4. CASE Ends
    BY <2>4 DEF Ends, Return
  <2>. QED
    BY <1>2, <2>1, <2>2, <2>3, <2>4, DecodeEffect
<1>3. CASE Consume
  <2>1. CASE Replay
    <3>1. applied' = applied \cup {out.rec} /\ out.rec \in Steps
      BY <2>1 DEF Replay, EventKinds
    <3>. QED
      BY <1>3, <2>1, <3>1 DEF Consume, Replay
  <2>2. CASE PassOver \/ SaveCheckpoint
    BY <1>3, <2>2 DEF Consume, PassOver, SaveCheckpoint, Continue, BreakOut
  <2>. QED
    BY <1>3, <2>1, <2>2 DEF Consume
<1>4. CASE Stop \/ Fail
  BY <1>4 DEF Stop, PanicOnError, Leave, Fail, Crash, Die
<1>5. CASE Grow
  <2>1. \A i \in 1..Len(log) : i \in 1..Len(log') /\ log'[i] = log[i]
    BY <1>5 DEF Grow, AppendRecord, TearRecord, TypeOK, LogTypeOK
  <2>. QED
    BY <1>5, <2>1 DEF Grow, AppendRecord, TearRecord
<1>. QED
  BY <1>1, <1>2, <1>3, <1>4, <1>5 DEF Next, Program

LEMMA OpenIInv == ASSUME OnceInv, TypeOK', Open PROVE OnceInv'
<1>. QED
  BY DEF OnceInv, Open, NewDecoder, CursorInv, OutInv, DecodingInv, WorkerInv,
     AheadInv, RepeatsInv, SavedInv, OnlyStepsApplied, Steps, Fresh, Owed,
     TypeOK, LogTypeOK, WorkerTypeOK, StreamTypeOK, Nothing,
     fileVars, workerVars, durableVars

(* A decoder that is ranged over for the first time is fresh, so reader    *)
(* and position start even.                                                *)
LEMMA RangeOverIInv == ASSUME OnceInv, TypeOK', RangeOver, ~again' PROVE OnceInv'
<1>0. ~(ranges > 0)
  BY Zenon DEF RangeOver
<1>1. ranges = 0
  BY <1>0 DEF OnceInv, TypeOK, WorkerTypeOK
<1>2. BeginLoop /\ position' = 0 /\ UNCHANGED <<fileVars, read, start>>
  BY <1>1 DEF RangeOver, RangeAgain, OnceInv, CursorInv
<1>. QED
  BY <1>1, <1>2 DEF OnceInv, CursorInv, OutInv, DecodingInv, WorkerInv, AheadInv,
     RepeatsInv, SavedInv, OnlyStepsApplied, Steps, Fresh, Owed, Nothing, EventKinds,
     TypeOK, LogTypeOK, WorkerTypeOK, StreamTypeOK, BeginLoop,
     fileVars, cursorVars, streamVars, workerVars, durableVars

LEMMA SkipsIInv == ASSUME OnceInv, TypeOK', Skips PROVE OnceInv'
<1>. QED
  BY DEF OnceInv, CursorInv, OutInv, DecodingInv, WorkerInv, AheadInv,
     RepeatsInv, SavedInv, OnlyStepsApplied, Steps, Fresh, Owed, Nothing, EventKinds,
     TypeOK, LogTypeOK, WorkerTypeOK, StreamTypeOK,
     Skips,
     fileVars, cursorVars, streamVars, workerVars, durableVars

LEMMA DeliversIInv == ASSUME OnceInv, TypeOK', Delivers PROVE OnceInv'
<1>. QED
  BY DEF OnceInv, CursorInv, OutInv, DecodingInv, WorkerInv, AheadInv,
     RepeatsInv, SavedInv, OnlyStepsApplied, Steps, Fresh, Owed, Nothing, EventKinds,
     TypeOK, LogTypeOK, WorkerTypeOK, StreamTypeOK,
     Delivers, Yield, fileVars, workerVars, durableVars

LEMMA FailsIInv == ASSUME OnceInv, TypeOK', Fails PROVE OnceInv'
<1>. QED
  BY DEF OnceInv, CursorInv, OutInv, DecodingInv, WorkerInv, AheadInv,
     RepeatsInv, SavedInv, OnlyStepsApplied, Steps, Fresh, Owed, Nothing, EventKinds,
     TypeOK, LogTypeOK, WorkerTypeOK, StreamTypeOK,
     Fails, YieldError,
     fileVars, cursorVars, streamVars, workerVars, durableVars

LEMMA EndsIInv == ASSUME OnceInv, TypeOK', Ends PROVE OnceInv'
<1>. QED
  BY DEF OnceInv, CursorInv, OutInv, DecodingInv, WorkerInv, AheadInv,
     RepeatsInv, SavedInv, OnlyStepsApplied, Steps, Fresh, Owed, Nothing, EventKinds,
     TypeOK, LogTypeOK, WorkerTypeOK, StreamTypeOK,
     Ends, Return,
     fileVars, cursorVars, streamVars, workerVars, durableVars

LEMMA PassOverIInv == ASSUME OnceInv, TypeOK', PassOver, UNCHANGED <<fileVars, cursorVars>> PROVE OnceInv'
<1>. QED
  BY DEF OnceInv, CursorInv, OutInv, DecodingInv, WorkerInv, AheadInv,
     RepeatsInv, SavedInv, OnlyStepsApplied, Steps, Fresh, Owed, Nothing, EventKinds,
     TypeOK, LogTypeOK, WorkerTypeOK, StreamTypeOK,
     PassOver, Continue,
     fileVars, cursorVars, streamVars, workerVars, durableVars

LEMMA ReplayIInv ==
  ASSUME OnceInv, TypeOK', Replay, UNCHANGED <<fileVars, cursorVars>> PROVE OnceInv'
<1>a. out.rec \in Nat
  BY DEF OnceInv, TypeOK, WorkerTypeOK, StreamTypeOK, Outputs, EventKinds
<1>b. applied' = applied \cup {out.rec} /\ repeats' \in {repeats, repeats + 1}
  BY DEF Replay
<1>c. out.rec \in Steps /\ saved < out.rec
  BY DEF OnceInv, OutInv, Replay, Steps, EventKinds
<1>d. Steps' = Steps
  BY DEF Replay, Steps, fileVars
<1>2. CursorInv' /\ OutInv' /\ DecodingInv' /\ WorkerInv'
  BY <1>d DEF OnceInv, Replay, CursorInv, Fresh, OutInv, DecodingInv, WorkerInv,
     EventKinds, fileVars, cursorVars, streamVars
<1>3. AheadInv'
  BY <1>c, <1>d DEF OnceInv, AheadInv, OutInv, Replay, Steps, TypeOK, WorkerTypeOK
<1>4. RepeatsInv'
  <2>1. repeats \in Nat /\ crashes \in Nat /\ crashes' = crashes /\ ~Owed'
    BY DEF OnceInv, TypeOK, WorkerTypeOK, Owed, Replay
  <2>2. CASE out.rec \in applied
    BY <1>c, <2>1, <2>2 DEF OnceInv, RepeatsInv, Owed, Replay
  <2>3. CASE out.rec \notin applied
    BY <2>1, <2>3 DEF OnceInv, RepeatsInv, Replay
  <2>. QED
    BY <2>2, <2>3
<1>5. SavedInv' /\ OnlyStepsApplied'
  BY <1>b, <1>c, <1>d DEF OnceInv, SavedInv, OnlyStepsApplied, Replay
<1>. QED
  BY <1>2, <1>3, <1>4, <1>5 DEF OnceInv

LEMMA SaveCheckpointIInv == ASSUME OnceInv, TypeOK', SaveCheckpoint, UNCHANGED <<fileVars, cursorVars>> PROVE OnceInv'
<1>a. out.pos \in Nat /\ out.rec \in Nat
  BY DEF OnceInv, TypeOK, WorkerTypeOK, StreamTypeOK, Outputs, EventKinds
<1>. QED
  BY DEF OnceInv, CursorInv, OutInv, DecodingInv, WorkerInv, AheadInv,
     RepeatsInv, SavedInv, OnlyStepsApplied, Steps, Fresh, Owed, Nothing, EventKinds,
     TypeOK, LogTypeOK, WorkerTypeOK, StreamTypeOK,
     SaveCheckpoint, Continue, BreakOut,
     fileVars, cursorVars, streamVars, workerVars, durableVars

LEMMA StopIInv == ASSUME OnceInv, TypeOK', Stop PROVE OnceInv'
<1>a. Die /\ crashes' = crashes /\ worker = "idle"
  BY DEF OnceInv, OutInv, WorkerInv, TypeOK, WorkerTypeOK, Stop, PanicOnError, Leave,
     Nothing
<1>. QED
  BY <1>a DEF OnceInv, CursorInv, OutInv, DecodingInv, WorkerInv, AheadInv,
     RepeatsInv, SavedInv, OnlyStepsApplied, Steps, Fresh, Owed, Nothing, EventKinds,
     TypeOK, LogTypeOK, WorkerTypeOK, StreamTypeOK,
     Stop, Die, ForgetCursor, fileVars, durableVars

LEMMA FailIInv == ASSUME OnceInv, TypeOK', Fail PROVE OnceInv'
<1>. QED
  BY DEF OnceInv, CursorInv, OutInv, DecodingInv, WorkerInv, AheadInv,
     RepeatsInv, SavedInv, OnlyStepsApplied, Steps, Fresh, Owed, Nothing, EventKinds,
     TypeOK, LogTypeOK, WorkerTypeOK, StreamTypeOK,
     Fail, Crash, Die, ForgetCursor,
     fileVars, cursorVars, streamVars, workerVars, durableVars

(* The log grows behind everything the decoder and the worker know.        *)
LEMMA GrowIInv == ASSUME OnceInv, TypeOK', Grow PROVE OnceInv'
<1>1. CASE \E k \in Kinds : AppendRecord(k)
  <2>1. PICK k \in Kinds : AppendRecord(k)
    BY <1>1
  <2>2. log' = Append(log, k) /\ log \in Seq(Kinds)
    BY <2>1 DEF AppendRecord, OnceInv, TypeOK, LogTypeOK
  <2>3. /\ log' \in Seq(Kinds)
        /\ Len(log') = Len(log) + 1
        /\ \A i \in 1..Len(log) : log'[i] = log[i]
    BY <2>2
  <2>4. /\ Steps \subseteq Steps'
        /\ \A i \in Steps' : i \in Steps \/ i = Len(log) + 1
    BY <2>2, <2>3 DEF Steps
  <2>5. UNCHANGED <<format, cursorVars, streamVars, workerVars>> /\ torn' = "no"
    BY <2>1 DEF Grow, AppendRecord
  <2>7. Len(log) \in Nat /\ Steps \subseteq 1..Len(log)
    BY <2>2 DEF Steps
  <2>8. CursorInv' /\ DecodingInv' /\ WorkerInv' /\ OutInv'
    BY <2>3, <2>4, <2>5, <2>7 DEF OnceInv, CursorInv, Fresh, OutInv, DecodingInv,
       WorkerInv, TypeOK, LogTypeOK, WorkerTypeOK, Nothing, EventKinds,
       cursorVars, streamVars, workerVars, durableVars
  <2>9. AheadInv' /\ RepeatsInv' /\ SavedInv' /\ OnlyStepsApplied'
    BY <2>3, <2>4, <2>5, <2>7 DEF OnceInv, CursorInv, AheadInv, RepeatsInv, Owed,
       SavedInv, OnlyStepsApplied, TypeOK, LogTypeOK, WorkerTypeOK,
       workerVars, durableVars
  <2>. QED
    BY <2>8, <2>9 DEF OnceInv
<1>2. CASE \E how \in {"header", "payload"} : TearRecord(how)
  <2>1. /\ torn' \in {"header", "payload"}
        /\ UNCHANGED <<format, log, cursorVars, streamVars, workerVars>>
    BY <1>2 DEF Grow, TearRecord
  <2>. QED
    BY <2>1 DEF OnceInv, CursorInv, OutInv, DecodingInv, WorkerInv, AheadInv,
       RepeatsInv, SavedInv, OnlyStepsApplied, Steps, Fresh, Owed,
       TypeOK, LogTypeOK, WorkerTypeOK, StreamTypeOK,
       cursorVars, streamVars, workerVars, durableVars
<1>. QED
  BY <1>1, <1>2 DEF Grow

LEMMA StepIInv == ASSUME OnceInv, [Next]_vars, ~again' PROVE OnceInv'
<1>0. TypeOK'
  BY TypeStep DEF OnceInv
<1>1. CASE Open
  BY <1>0, <1>1, OpenIInv
<1>2. CASE RangeOver
  BY <1>0, <1>2, RangeOverIInv
<1>3. CASE Decode
  BY <1>0, <1>3, DecodeEffect, SkipsIInv, DeliversIInv, FailsIInv, EndsIInv DEF OnceInv
<1>4. CASE Consume
  BY <1>0, <1>4, PassOverIInv, ReplayIInv, SaveCheckpointIInv DEF Consume
<1>5. CASE Stop
  BY <1>0, <1>5, StopIInv
<1>6. CASE Fail
  BY <1>0, <1>6, FailIInv
<1>7. CASE Grow
  BY <1>0, <1>7, GrowIInv
<1>8. CASE UNCHANGED vars
  BY <1>8 DEF OnceInv, CursorInv, OutInv, DecodingInv, WorkerInv, AheadInv,
     RepeatsInv, SavedInv, OnlyStepsApplied, Steps, Fresh, Owed,
     TypeOK, LogTypeOK, WorkerTypeOK, StreamTypeOK,
     vars, fileVars, cursorVars, streamVars, workerVars, durableVars
<1>. QED
  BY <1>1, <1>2, <1>3, <1>4, <1>5, <1>6, <1>7, <1>8 DEF Next, Program

(* The invariant holds in every behaviour, up to the first second loop.    *)
THEOREM Invariance == Spec => []IInv
<1>1. Init => IInv
  BY InitIInv DEF IInv
<1>2. IInv /\ [Next]_vars => IInv'
  <2>1. ASSUME IInv, [Next]_vars, ~again' PROVE OnceInv'
    <3>1. ~again
      BY <2>1 DEF Next, Program, Open, RangeOver, Decode, Consume, Stop, Fail, Grow, vars
    <3>. QED
      BY <2>1, <3>1, StepIInv DEF IInv
  <2>. QED
    BY <2>1 DEF IInv
<1>. QED
  BY <1>1, <1>2, PTL DEF Spec

--------------------------------------------------------------------------------

(* Every variable keeps its type, however often a decoder is ranged over.  *)
THEOREM TypeCorrect == Spec => []TypeOK
<1>1. Init => TypeOK
  BY InitIInv DEF OnceInv
<1>2. TypeOK /\ [Next]_vars => TypeOK'
  BY TypeStep
<1>. QED
  BY <1>1, <1>2, PTL DEF Spec

(* Every reversible event at or before the saved checkpoint was replayed.  *)
THEOREM NothingLost == Spec => []NoStepLost
<1>1. IInv => NoStepLost
  BY DEF IInv, OnceInv, SavedInv, NoStepLost
<1>. QED
  BY <1>1, Invariance, PTL

(* Operations are repeated at most once per crash.                         *)
THEOREM RepeatsBounded == Spec => []RepeatsNeedCrashes
<1>1. IInv => RepeatsNeedCrashes
  BY DEF IInv, OnceInv, RepeatsInv, RepeatsNeedCrashes
<1>. QED
  BY <1>1, Invariance, PTL

(* Nothing is replayed that the log does not hold as a complete reversible *)
(* record, however often a decoder is ranged over.                         *)
THEOREM OnlyRealSteps == Spec => []OnlyStepsApplied
<1>1. Init => HandedInv /\ OnlyStepsApplied
  BY DEF Init, WorkerInit, HandedInv, OnlyStepsApplied
<1>2. TypeOK /\ HandedInv /\ OnlyStepsApplied /\ [Next]_vars => (HandedInv /\ OnlyStepsApplied)'
  BY HandedStep
<1>. QED
  BY <1>1, <1>2, TypeCorrect, PTL DEF Spec

--------------------------------------------------------------------------------
(***************************************************************************)
(* The refinement: growing the file extends the log, a replay and a save   *)
(* are the abstract ones, a crash is a restart, and the rest stutters.     *)
(***************************************************************************)

LEMMA InitRefines == Init => Stream!Init
BY DEF Init, LogInit, WorkerInit, Steps, Cursor, Stream!Init

(* A step that leaves the log, the checkpoint and the worker alone.        *)
LEMMA StutterRefines ==
  ASSUME UNCHANGED <<log, saved, worker>>, worker = "replayed" => UNCHANGED out
  PROVE  UNCHANGED Stream!vars
BY DEF Stream!vars, Steps, Cursor

LEMMA StepRefines ==
  ASSUME OnceInv, [Next]_vars, ~again' PROVE [Stream!Next]_(Stream!vars)
<1>. USE DEF fileVars, cursorVars, streamVars, workerVars, durableVars
<1>1. CASE Open \/ RangeOver \/ Decode \/ UNCHANGED vars
  <2>1. UNCHANGED <<log, saved, worker>>
    BY <1>1, DecodeEffect DEF OnceInv, Open, NewDecoder, RangeOver, BeginLoop, RangeAgain, Skips,
       Delivers, Fails, Ends, vars
  <2>2. worker = "replayed" => UNCHANGED out
    BY <1>1 DEF OnceInv, WorkerInv, OutInv, EventKinds, Nothing, Open, NewDecoder,
       RangeOver, BeginLoop, RangeAgain, Decode, LineStep, SkipLine, DecodeLine, FailLine,
       EndOfLines, StayEnded, ScanLine, RespStep, SkipCommand, DecodeCommand,
       RefuseCommand, FailFrame, EndOfFrames, ResumeInside, ParseCommand, vars
  <2>. QED
    BY <2>1, <2>2, StutterRefines
<1>2. CASE Consume
  <2>1. CASE PassOver
    <3>1. UNCHANGED <<log, saved, worker>> /\ worker # "replayed"
      BY <1>2, <2>1 DEF Consume, PassOver, OnceInv, WorkerInv
    <3>. QED
      BY <3>1, StutterRefines
  <2>2. CASE Replay
    <3>1. /\ Cursor = saved /\ Cursor' = out.rec /\ saved' = saved
          /\ Steps' = Steps
      BY <1>2, <2>2 DEF Consume, Replay, Cursor, Steps
    <3>2. /\ out.rec \in Steps /\ out.rec > saved
          /\ \A s \in Steps : s > saved => s >= out.rec
      BY <2>2 DEF Replay, OnceInv, OutInv, Steps, EventKinds, TypeOK, WorkerTypeOK,
         LogTypeOK
    <3>. QED
      BY <3>1, <3>2 DEF Stream!Next, Stream!Replay
  <2>3. CASE SaveCheckpoint
    <3>1. /\ Cursor = out.rec /\ Cursor' = out.pos /\ saved' = out.pos
          /\ Steps' = Steps
      BY <1>2, <2>3 DEF Consume, SaveCheckpoint, Cursor, Steps
    <3>2. out.pos = out.rec /\ out.rec > saved
      BY <2>3 DEF SaveCheckpoint, OnceInv, WorkerInv, OutInv, EventKinds, TypeOK,
         WorkerTypeOK, LogTypeOK
    <3>. QED
      BY <3>1, <3>2 DEF Stream!Next, Stream!Save
  <2>. QED
    BY <1>2, <2>1, <2>2, <2>3 DEF Consume
<1>3. CASE Stop \/ Fail
  <2>1. /\ worker' = "idle" /\ saved' = saved /\ log' = log
    BY <1>3 DEF Stop, PanicOnError, Leave, Fail, Crash, Die
  <2>2. Cursor' = saved /\ Steps' = Steps
    BY <2>1 DEF Cursor, Steps
  <2>. QED
    BY <2>1, <2>2 DEF Stream!Next, Stream!Restart
<1>4. CASE Grow
  <2>1. UNCHANGED <<saved, worker, out>>
    BY <1>4 DEF Grow, AppendRecord, TearRecord
  <2>2. CASE log' = log
    BY <2>1, <2>2, StutterRefines
  <2>3. CASE \E k \in Kinds : log' = Append(log, k)
    <3>1. /\ Steps \subseteq Steps'
          /\ \A new \in Steps' \ Steps : new = Len(log) + 1
      BY <2>3 DEF OnceInv, TypeOK, LogTypeOK, Steps
    <3>2. Cursor <= Len(log) /\ Cursor' = Cursor /\ Cursor \in Nat
      BY <2>1 DEF Cursor, OnceInv, CursorInv, WorkerInv, OutInv, EventKinds, TypeOK,
         LogTypeOK, WorkerTypeOK
    <3>3. Stream!Extend
      BY <2>1, <3>1, <3>2 DEF Stream!Extend, Steps, OnceInv, TypeOK, LogTypeOK
    <3>. QED
      BY <3>3 DEF Stream!Next
  <2>. QED
    BY <1>4, <2>2, <2>3 DEF Grow, AppendRecord, TearRecord
<1>. QED
  BY <1>1, <1>2, <1>3, <1>4 DEF Next, Program

(* Over any log and any crashes, and until a decoder is ranged over again, *)
(* what the worker does is a behaviour of the abstract stream: operations  *)
(* in log order, none left out.                                            *)
THEOREM Refinement == Spec => ImplementsStream
<1>1. Init => Stream!Init
  BY InitRefines
<1>2. IInv /\ [Next]_vars => [~again' => Stream!Next]_(Stream!vars)
  <2>1. ASSUME IInv, [Next]_vars, ~again' PROVE [Stream!Next]_(Stream!vars)
    <3>1. ~again
      BY <2>1 DEF Next, Program, Open, RangeOver, Decode, Consume, Stop, Fail, Grow, vars
    <3>. QED
      BY <2>1, <3>1, StepRefines DEF IInv
  <2>. QED
    BY <2>1
<1>. QED
  BY <1>1, <1>2, Invariance, PTL DEF Spec, ImplementsStream

================================================================================
