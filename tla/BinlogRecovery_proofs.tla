-------------------------- MODULE BinlogRecovery_proofs --------------------------
(***************************************************************************)
(* Proofs about BinlogRecovery for files of any length, any tables, loops  *)
(* and crashes, under the one condition the decoder needs: a rows event    *)
(* comes straight after the table map it is decoded with.                  *)
(***************************************************************************)
EXTENDS BinlogRecovery, SequenceTheorems, FiniteSetTheorems, TLAPS

(* Every statement writes one table with one rows event.                   *)
SingleLayout == Layout = "single"

----------------------------------------------------------------------------------
(* The inductive invariant.                                                *)

(* The file begins with its format description, and a rows event stands    *)
(* behind its own table map.                                               *)
LogInv ==
  /\ Len(log) > 0 /\ log[1].kind = "fde"
  /\ \A i \in 1..Len(log) : log[i].kind = "fde" => i = 1
  /\ \A i \in 1..Len(log) : log[i].kind = "rows" =>
       i > 1 /\ log[i - 1].kind = "map" /\ log[i - 1].table = log[i].table
  /\ log[Len(log)].kind = "map" => group = {log[Len(log)].table}

(* Whatever was skipped, the decoder knows the format description, and the *)
(* map of the event it reads next if that one was neither skipped nor      *)
(* consumed astray.                                                        *)
ContextInv ==
  /\ read <= Len(log)
  /\ read > 0 => desc
  /\ skewed => read > 0
  /\ read > start /\ log[read].kind = "map" /\ read \notin astray => log[read].table \in tables

(* A checkpoint is the position of a rows event, and a decoder begins      *)
(* behind the checkpoint it was opened with.                               *)
CursorInv ==
  /\ saved <= Len(log)
  /\ saved > 0 => log[saved].kind = "rows"
  /\ start <= saved
  /\ start > 0 => log[start].kind = "rows"
  /\ phase = "closed" => read = 0 /\ start = 0
  /\ phase # "closed" => saved <= read \/ saved = start

OutInv ==
  /\ phase # "yielding" => out = Nothing
  /\ out.kind \in EventKinds => out.rec = read /\ out.pos = read /\ read > 0
  /\ out.kind = "step" => read \in Steps /\ saved < read
  /\ out.kind = "info" => read \notin Steps \/ read \in PassedAstray
  /\ out.kind = "error" => out.rec = 0

(* All steps the decoder is done with are at or before the checkpoint, or  *)
(* were passed astray.                                                     *)
PassedInv ==
  \A i \in Steps : i <= read /\ ~(out.kind = "step" /\ i = read) => i <= saved \/ i \in PassedAstray

WorkerInv ==
  /\ worker = "replayed" => out.kind = "step" /\ out.rec \in applied
  /\ applied \subseteq Steps
  /\ \A i \in Steps : i <= saved => i \in applied \/ i \in PassedAstray

(* The replays whose checkpoint is not saved: each was cut off by a crash, *)
(* but for the one going on.                                               *)
Ahead == {i \in applied : i > saved}

RepeatsInv ==
  repeats + Cardinality(Ahead) <= crashes + (IF worker = "replayed" THEN 1 ELSE 0)

IInv ==
  /\ TypeOK
  /\ LogInv
  /\ ContextInv
  /\ CursorInv
  /\ OutInv
  /\ PassedInv
  /\ WorkerInv
  /\ RepeatsInv

----------------------------------------------------------------------------------

LEMMA OutputTypes ==
  /\ Nothing \in Outputs
  /\ [kind |-> "error", pos |-> 0, rec |-> 0] \in Outputs
  /\ \A kind \in EventKinds, n \in Nat : [kind |-> kind, pos |-> n, rec |-> n] \in Outputs
  BY DEF Nothing, Outputs, EventKinds

LEMMA RecordTypes ==
  /\ \A k \in PlainKinds : Plain(k) \in Records /\ Plain(k).kind = k
  /\ \A k \in {"map", "rows"}, t \in Tables :
       OfTable(k, t) \in Records /\ OfTable(k, t).kind = k /\ OfTable(k, t).table = t
  BY DEF Plain, OfTable, Records

LEMMA InitLemma == Init => IInv
  <1>. SUFFICES ASSUME Init PROVE IInv
    OBVIOUS
  <1>. USE DEF Init, BinlogInit, WorkerInit
  <1>1. log = <<Plain("fde")>> /\ Plain("fde") \in Records /\ Plain("fde").kind = "fde"
    BY RecordTypes DEF PlainKinds
  <1>2. log \in Seq(Records) /\ Len(log) = 1 /\ log[1].kind = "fde"
    BY <1>1
  <1>3. Steps = {}
    BY <1>2 DEF Steps
  <1>4. TypeOK
    BY <1>2, OutputTypes DEF TypeOK, BinlogTypeOK, WorkerTypeOK, StreamTypeOK, Phases
  <1>5. LogInv
    BY <1>2 DEF LogInv
  <1>6. ContextInv /\ CursorInv /\ OutInv /\ PassedInv /\ WorkerInv
    BY <1>2, <1>3 DEF ContextInv, CursorInv, OutInv, PassedInv, WorkerInv, Nothing, EventKinds
  <1>7. RepeatsInv
    <2>1. Ahead = {}
      BY DEF Ahead
    <2>. QED BY <2>1, FS_EmptySet DEF RepeatsInv
  <1>. QED BY <1>4, <1>5, <1>6, <1>7 DEF IInv

(***************************************************************************)
(* One turn of Events() has one of four effects.                           *)
(***************************************************************************)

(* An event that is no step, or not behind the start, is passed over.      *)
Passes ==
  /\ phase = "decoding" /\ read < Len(log) /\ read' = read + 1
  /\ log[read + 1].kind = "rows" => read + 1 <= start \/ read + 1 \in PassedAstray
  /\ UNCHANGED <<streamVars, astray>>

(* The event behind the start is handed over, a rows event as a step       *)
(* unless its table map was passed astray.                                 *)
Delivers ==
  /\ phase = "decoding" /\ read < Len(log) /\ read' = read + 1
  /\ read + 1 > start
  /\ \E kind \in EventKinds :
       /\ Yield(kind, read + 1, read + 1)
       /\ kind = "step" => log[read + 1].kind = "rows"
       /\ log[read + 1].kind = "rows" => kind = "step" \/ read + 1 \in PassedAstray
  /\ UNCHANGED astray

(* Events() yields an error or returns; no step is read on the way.        *)
Stops ==
  /\ phase = "decoding"
  /\ \/ read' = read
     \/ read < Len(log) /\ read' = read + 1 /\ log[read + 1].kind # "rows"
  /\ YieldError \/ Return
  /\ UNCHANGED astray

(* What there is of the file is passed astray.                             *)
Strays ==
  /\ phase = "decoding"
  /\ Return
  /\ read' = Len(log)
  /\ astray' = astray \cup ((read + 1)..Len(log))

LEMMA DecodeLemma ==
  ASSUME IInv, Decode
  PROVE  /\ Passes \/ Delivers \/ Stops \/ Strays
         /\ ContextInv'
         /\ desc' \in BOOLEAN /\ skewed' \in BOOLEAN /\ tables' \subseteq Tables
         /\ UNCHANGED <<log, torn, group, start, workerVars>>
  <1>. USE DEF binlogVars, streamVars
  <1>t. /\ log \in Seq(Records) /\ Len(log) \in Nat /\ read \in Nat /\ start \in Nat /\ desc \in BOOLEAN
        /\ tables \subseteq Tables /\ skewed \in BOOLEAN /\ torn \in BOOLEAN
    BY DEF IInv, TypeOK, BinlogTypeOK
  <1>k. /\ PlainKinds = {"fde", "other", "garbled", "corrupt"} /\ EventKinds = {"step", "info"}
        /\ \A r \in Records : r.kind \in PlainKinds \/ (r.kind \in {"map", "rows"} /\ r.table \in Tables)
    <2>1. ASSUME NEW r \in Records PROVE r.kind \in PlainKinds \/ (r.kind \in {"map", "rows"} /\ r.table \in Tables)
      <3>1. CASE r \in [kind : PlainKinds]
        <4>1. \E k \in PlainKinds : r = [kind |-> k]
          BY <3>1
        <4>. QED BY <4>1
      <3>2. CASE r \in [kind : {"map", "rows"}, table : Tables]
        BY <3>2
      <3>. QED BY <2>1, <3>1, <3>2 DEF Records
    <2>. QED BY <2>1 DEF PlainKinds, EventKinds
  <1>0. Next1 = read + 1 /\ Kind1 = log[read + 1].kind /\ UNCHANGED workerVars
    BY DEF Next1, Kind1, Decode
  <1>1. read < Len(log) => log[read + 1] \in Records
    BY <1>t
  (* With its description set, and its own map read just before. *)
  <1>2. ASSUME read < Len(log), ~CheckSkip, Kind1 = "rows"
        PROVE  desc /\ (log[read + 1].table \in tables \/ read + 1 \in PassedAstray)
    <2>1. read + 1 > 1 /\ log[read].kind = "map" /\ log[read].table = log[read + 1].table
      <3>1. read + 1 \in 1..Len(log)
        BY <1>t, <1>2
      <3>2. \A i \in 1..Len(log) : log[i].kind = "rows" =>
               i > 1 /\ log[i - 1].kind = "map" /\ log[i - 1].table = log[i].table
        BY DEF IInv, LogInv
      <3>3. log[read + 1].kind = "rows" /\ (read + 1) - 1 = read
        BY <1>t, <1>0, <1>2
      <3>. QED BY <3>1, <3>2, <3>3
    <2>2. read > 0 /\ read # start
      <3>1. start > 0 => log[start].kind = "rows"
        BY DEF IInv, CursorInv
      <3>. QED BY <1>t, <2>1, <3>1
    <2>3. read > start
      BY <1>t, <1>0, <1>2, <2>2 DEF CheckSkip
    <2>4. read \in astray => read + 1 \in PassedAstray
      <3>1. (read + 1) - 1 = read
        BY <1>t
      <3>. QED BY <3>1 DEF PassedAstray
    <2>. QED BY <1>t, <2>1, <2>2, <2>3, <2>4 DEF IInv, ContextInv
  <1>3. Emit("info") => UNCHANGED streamVars \/ (read + 1 > start /\ Yield("info", read + 1, read + 1))
    BY <1>t, <1>0 DEF Emit
  <1>4. CASE SkipEvent
    <2>1. /\ phase = "decoding" /\ read < Len(log) /\ read' = read + 1 /\ read + 1 <= start
          /\ Kind1 # "fde" /\ UNCHANGED <<log, torn, group, astray, start, skewed, desc, tables, phase, out>>
      BY <1>t, <1>0, <1>4 DEF SkipEvent, ReadEvent, CheckSkip
    <2>2. read > 0
      BY <1>t, <1>0, <2>1 DEF IInv, LogInv
    <2>3. ContextInv'
      BY <1>t, <2>1, <2>2 DEF IInv, ContextInv
    <2>. QED BY <1>t, <1>0, <2>1, <2>3 DEF Passes
  <1>5. CASE DecodeFormat \/ DecodeTableMap \/ DecodeOther
    <2>1. /\ phase = "decoding" /\ read < Len(log) /\ read' = read + 1 /\ Kind1 # "rows" /\ Emit("info")
          /\ UNCHANGED <<log, torn, group, astray, start, skewed>>
      BY <1>0, <1>5 DEF DecodeFormat, DecodeTableMap, DecodeOther, ReadEvent
    <2>2. /\ desc' = (desc \/ Kind1 = "fde")
          /\ tables' = IF Kind1 = "map" THEN tables \cup {log[read + 1].table} ELSE tables
      BY <1>t, <1>0, <1>5 DEF DecodeFormat, DecodeTableMap, DecodeOther
    <2>3. tables' \subseteq Tables /\ desc' \in BOOLEAN
      BY <1>t, <1>k, <1>0, <1>1, <2>1, <2>2
    <2>4. read = 0 => Kind1 = "fde"
      BY <1>t, <1>0 DEF IInv, LogInv
    <2>5. ContextInv'
      <3>1. desc'
        <4>1. desc \/ Kind1 = "fde"
          BY <1>t, <2>4 DEF IInv, ContextInv
        <4>. QED BY <2>2, <4>1, Zenon
      <3>2. log'[read'].kind = "map" => log'[read'].table \in tables'
        BY <1>0, <2>1, <2>2
      <3>. QED BY <1>t, <2>1, <3>1, <3>2 DEF ContextInv
    <2>6. Passes \/ Delivers
      BY <1>t, <1>k, <1>0, <1>3, <2>1 DEF Passes, Delivers
    <2>. QED BY <1>t, <1>0, <2>1, <2>3, <2>5, <2>6
  <1>6. CASE DecodeRows
    <2>1. /\ phase = "decoding" /\ read < Len(log) /\ read' = read + 1 /\ Kind1 = "rows" /\ ~CheckSkip
          /\ UNCHANGED <<log, torn, group, astray, start, skewed, desc, tables>>
      BY <1>0, <1>6 DEF DecodeRows, ReadEvent
    <2>2. desc /\ (log[read + 1].table \in tables \/ read + 1 \in PassedAstray)
      BY <1>2, <2>1
    <2>3. read + 1 > start
      BY <1>t, <1>0, <2>1 DEF CheckSkip
    <2>4. \/ Yield("step", read + 1, read + 1)
          \/ Yield("info", read + 1, read + 1) /\ read + 1 \in PassedAstray
      BY <1>t, <1>0, <1>6, <2>2, <2>3 DEF DecodeRows, Emit
    <2>5. ContextInv'
      <3>1. read' > 0 /\ read' <= Len(log')
        BY <1>t, <2>1
      <3>2. log'[read'].kind = "rows"
        BY <1>0, <2>1
      <3>3. "rows" # "map"
        OBVIOUS
      <3>4. desc'
        BY <2>1, <2>2
      <3>. QED BY <3>1, <3>2, <3>3, <3>4, Zenon DEF ContextInv
    <2>6. Delivers
      BY <1>k, <1>0, <2>1, <2>3, <2>4 DEF Delivers
    <2>. QED BY <1>t, <1>0, <2>1, <2>5, <2>6
  <1>7. CASE FailBody \/ FailHeader
    <2>1. Kind1 = "rows" /\ ~CheckSkip /\ read < Len(log) => desc
      BY <1>2
    <2>2. /\ phase = "decoding" /\ read < Len(log) /\ read' = read + 1 /\ Kind1 \in {"garbled", "corrupt"}
          /\ YieldError \/ Return
          /\ UNCHANGED <<log, torn, group, astray, start, skewed, desc, tables>>
      BY <1>0, <1>7, <2>1 DEF FailBody, FailHeader, ReadEvent
    <2>3. read > 0
      BY <1>t, <1>0, <2>2 DEF IInv, LogInv
    <2>4. ContextInv'
      BY <1>t, <1>0, <2>2, <2>3 DEF IInv, ContextInv
    <2>5. Stops
      BY <1>0, <2>2 DEF Stops
    <2>. QED BY <1>t, <1>0, <2>2, <2>4, <2>5
  <1>8. CASE EndOfBinlog
    <2>1. /\ phase = "decoding" /\ read' = read /\ Return /\ skewed' = torn /\ read = Len(log)
          /\ UNCHANGED <<log, torn, group, astray, start, desc, tables>>
      BY <1>8 DEF EndOfBinlog
    <2>2. ContextInv'
      BY <1>t, <2>1 DEF IInv, ContextInv, LogInv
    <2>. QED BY <1>t, <1>0, <2>1, <2>2 DEF Stops
  <1>9. CASE ReadAstray
    <2>1. /\ phase = "decoding" /\ skewed
          /\ UNCHANGED <<log, torn, group, start, desc, tables>>
      BY <1>9 DEF ReadAstray
    <2>2. CASE YieldError /\ UNCHANGED <<read, skewed, astray>>
      <3>1. ContextInv'
        BY <2>1, <2>2 DEF IInv, ContextInv
      <3>. QED BY <1>t, <1>0, <2>1, <2>2, <3>1 DEF Stops
    <2>3. CASE /\ Return /\ read' = Len(log) /\ skewed' = torn
               /\ astray' = astray \cup ((read + 1)..Len(log))
      <3>1. desc /\ Len(log) > 0 /\ read <= Len(log)
        BY <2>1 DEF IInv, ContextInv, LogInv
      <3>2. read < Len(log) => Len(log) \in astray'
        BY <1>t, <2>3
      <3>3. ContextInv'
        <4>1. CASE read < Len(log)
          BY <1>t, <2>1, <2>3, <3>1, <3>2, <4>1 DEF ContextInv
        <4>2. CASE read = Len(log)
          <5>1. astray' = astray
            BY <1>t, <2>3, <4>2
          <5>. QED BY <1>t, <2>1, <2>3, <3>1, <4>2, <5>1 DEF IInv, ContextInv
        <4>. QED BY <1>t, <3>1, <4>1, <4>2
      <3>. QED BY <1>t, <1>0, <2>1, <2>3, <3>3 DEF Strays
    <2>. QED BY <1>9, <2>2, <2>3 DEF ReadAstray
  <1>. QED BY <1>4, <1>5, <1>6, <1>7, <1>8, <1>9 DEF Decode, BinlogStep

(* What the invariant says of numbers, for the steps below.                *)
LEMMA Facts ==
  ASSUME IInv
  PROVE  /\ log \in Seq(Records) /\ Len(log) \in Nat /\ read \in Nat /\ start \in Nat /\ saved \in Nat
         /\ repeats \in Nat /\ crashes \in Nat /\ ranges \in Nat /\ out.rec \in Nat /\ out.pos \in Nat
         /\ applied \subseteq Nat /\ Steps \subseteq 1..Len(log) /\ astray \subseteq 1..Len(log)
         /\ \A i \in 1..Len(log) : i \in Steps <=> log[i].kind = "rows"
  BY DEF IInv, TypeOK, BinlogTypeOK, WorkerTypeOK, StreamTypeOK, Outputs, Steps

(* A step that leaves the file alone keeps what is known of it.            *)
LEMMA FileLemma ==
  ASSUME IInv, UNCHANGED <<log, torn, group>> PROVE LogInv' /\ Steps' = Steps
  BY DEF IInv, LogInv, Steps

(* Nothing is unread: what was passed astray stays so.                     *)
LEMMA AstrayStays ==
  ASSUME astray \subseteq astray' PROVE PassedAstray \subseteq PassedAstray'
  BY DEF PassedAstray

LEMMA AheadFinite == ASSUME IInv PROVE IsFiniteSet(Ahead) /\ Cardinality(Ahead) \in Nat
  <1>1. Ahead \in SUBSET (1..Len(log))
    BY Facts DEF Ahead, IInv, WorkerInv
  <1>2. IsFiniteSet(1..Len(log))
    BY Facts, FS_Interval
  <1>. QED BY <1>1, <1>2, FS_Subset, FS_CardinalityType

(* Without a replay nothing more is ahead of the checkpoint.               *)
LEMMA RepeatsKept ==
  ASSUME IInv, UNCHANGED <<applied, saved, repeats>>,
         \/ crashes' = crashes /\ (worker = "replayed" => worker' = "replayed")
         \/ crashes' = crashes + 1
  PROVE  RepeatsInv'
  <1>1. Ahead' = Ahead
    BY DEF Ahead
  <1>. QED BY <1>1, AheadFinite, Facts DEF IInv, RepeatsInv

LEMMA OpenLemma == ASSUME IInv, Open \/ RangeOver PROVE IInv'
  <1>. USE DEF binlogVars, fileDecoderVars, streamVars, workerVars, durableVars
  <1>f. LogInv' /\ Steps' = Steps
    BY FileLemma DEF Open, OpenBinlog, RangeOver
  <1>1. /\ start' \in {start, saved} /\ (phase = "closed" => start' = saved) /\ (phase # "closed" => start' = start)
        /\ phase \in {"closed", "open", "done"} /\ phase' \in {"open", "decoding"} /\ ranges' \in {ranges, ranges + 1}
        /\ UNCHANGED <<log, torn, group, astray, read, skewed, desc, tables, out, worker, saved, applied, repeats, crashes>>
    BY DEF Open, OpenBinlog, RangeOver, BeginLoop, RangeAgain
  <1>2. out = Nothing
    BY <1>1 DEF IInv, OutInv
  <1>3. TypeOK'
    BY <1>1, Facts DEF IInv, TypeOK, BinlogTypeOK, WorkerTypeOK, StreamTypeOK, Phases
  <1>4. ContextInv' /\ CursorInv'
    BY <1>1, Facts DEF IInv, ContextInv, CursorInv
  <1>5. OutInv' /\ PassedInv' /\ WorkerInv'
    BY <1>f, <1>1, <1>2, AstrayStays DEF IInv, OutInv, PassedInv, WorkerInv, Nothing, EventKinds
  <1>6. RepeatsInv'
    BY <1>1, RepeatsKept
  <1>. QED BY <1>f, <1>3, <1>4, <1>5, <1>6 DEF IInv

LEMMA DecodeInv == ASSUME IInv, Decode PROVE IInv'
  <1>. USE DEF streamVars, workerVars, durableVars
  <1>0. /\ Passes \/ Delivers \/ Stops \/ Strays
        /\ ContextInv' /\ desc' \in BOOLEAN /\ skewed' \in BOOLEAN /\ tables' \subseteq Tables
        /\ UNCHANGED <<log, torn, group, start, worker, ranges, saved, applied, repeats, crashes>>
    BY DecodeLemma
  <1>f. LogInv' /\ Steps' = Steps
    BY <1>0, FileLemma
  <1>a. astray \subseteq astray' /\ astray' \subseteq 1..Len(log)
    BY <1>0, Facts DEF Passes, Delivers, Stops, Strays
  <1>b. PassedAstray \subseteq PassedAstray'
    BY <1>a, AstrayStays
  <1>1. phase = "decoding" /\ out = Nothing /\ worker = "idle"
    BY <1>0 DEF Passes, Delivers, Stops, Strays, IInv, OutInv, WorkerInv, TypeOK, WorkerTypeOK, Nothing
  <1>2. read' \in Nat /\ out' \in Outputs /\ phase' \in {"decoding", "yielding", "done"}
    BY <1>0, <1>1, Facts, OutputTypes DEF Passes, Delivers, Stops, Strays, Yield, YieldError, Return
  <1>3. TypeOK'
    BY <1>0, <1>a, <1>2 DEF IInv, TypeOK, BinlogTypeOK, WorkerTypeOK, StreamTypeOK, Phases
  <1>4. CursorInv'
    <2>1. read' >= read /\ phase' # "closed" /\ phase # "closed"
      BY <1>0, <1>1, <1>2, Facts DEF Passes, Delivers, Stops, Strays, IInv, ContextInv
    <2>. QED BY <1>0, <1>2, <2>1, Facts DEF IInv, CursorInv
  <1>5. \A i \in Steps : i <= read => i <= saved \/ i \in PassedAstray'
    BY <1>b, <1>1 DEF IInv, PassedInv, Nothing
  <1>6. RepeatsInv' /\ WorkerInv'
    BY <1>0, <1>f, <1>b, <1>1, RepeatsKept DEF IInv, WorkerInv
  <1>7. CASE Passes
    <2>1. /\ read' = read + 1 /\ out' = out /\ phase' = phase /\ read + 1 \in 1..Len(log)
          /\ (read + 1 \in Steps => read + 1 <= start \/ read + 1 \in PassedAstray)
      BY <1>7, Facts DEF Passes
    <2>2. read + 1 \in Steps => read + 1 <= saved \/ read + 1 \in PassedAstray'
      BY <1>0, <1>b, <1>1, <2>1, Facts DEF IInv, CursorInv
    <2>3. PassedInv'
      BY <1>0, <1>f, <1>5, <2>1, <2>2, Facts DEF PassedInv
    <2>4. OutInv'
      BY <1>1, <2>1 DEF OutInv, Nothing, EventKinds
    <2>. QED BY <1>0, <1>f, <1>3, <1>4, <1>6, <2>3, <2>4 DEF IInv
  <1>8. CASE Delivers
    <2>1. PICK kind \in EventKinds : /\ Yield(kind, read + 1, read + 1)
                                     /\ kind = "step" => log[read + 1].kind = "rows"
                                     /\ log[read + 1].kind = "rows" => kind = "step" \/ read + 1 \in PassedAstray
      BY <1>8 DEF Delivers
    <2>2. /\ read' = read + 1 /\ phase' = "yielding" /\ read + 1 > start /\ read + 1 \in 1..Len(log)
          /\ out'.kind = kind /\ out'.rec = read + 1 /\ out'.pos = read + 1
          /\ (kind = "step" => read + 1 \in Steps)
          /\ (read + 1 \in Steps => kind = "step" \/ read + 1 \in PassedAstray')
      BY <1>b, <1>8, <2>1, Facts DEF Delivers, Yield
    <2>3. saved < read + 1
      BY <1>1, <2>2, Facts DEF IInv, CursorInv
    <2>4. OutInv'
      BY <1>0, <1>f, <2>2, <2>3 DEF OutInv, EventKinds
    <2>5. PassedInv'
      BY <1>0, <1>f, <1>5, <2>2, Facts DEF PassedInv
    <2>. QED BY <1>0, <1>f, <1>3, <1>4, <1>6, <2>4, <2>5 DEF IInv
  <1>9. CASE Stops
    <2>1. /\ read' = read \/ (read' = read + 1 /\ read + 1 \notin Steps)
          /\ \/ phase' = "yielding" /\ out'.kind = "error" /\ out'.rec = 0
             \/ phase' = "done" /\ out' = Nothing
      BY <1>1, <1>9, Facts DEF Stops, YieldError, Return
    <2>2. OutInv'
      BY <2>1 DEF OutInv, Nothing, EventKinds
    <2>3. PassedInv'
      BY <1>0, <1>f, <1>5, <2>1, Facts DEF PassedInv, Nothing
    <2>. QED BY <1>0, <1>f, <1>3, <1>4, <1>6, <2>2, <2>3 DEF IInv
  <1>10. CASE Strays
    <2>1. read' = Len(log) /\ phase' = "done" /\ out' = Nothing
      BY <1>1, <1>10 DEF Strays, Return
    <2>2. OutInv'
      BY <2>1 DEF OutInv, Nothing, EventKinds
    <2>3. \A i \in Steps : i > read => i \in PassedAstray'
      <3>1. \A i \in Steps : i > read => i \in astray'
        BY <1>10, Facts DEF Strays
      <3>. QED BY <3>1 DEF PassedAstray
    <2>4. PassedInv'
      BY <1>0, <1>f, <1>5, <2>3, Facts DEF PassedInv
    <2>. QED BY <1>0, <1>f, <1>3, <1>4, <1>6, <2>2, <2>4 DEF IInv
  <1>. QED BY <1>0, <1>7, <1>8, <1>9, <1>10

(* The replay: all steps before it are behind the checkpoint.              *)
LEMMA ConsumeLemma == ASSUME IInv, Consume PROVE IInv'
  <1>. USE DEF binlogVars, fileDecoderVars, streamVars, workerVars, durableVars
  <1>0. UNCHANGED <<log, torn, group, astray, read, skewed, desc, tables, start, ranges, crashes>>
    BY DEF Consume, PassOver, Replay, SaveCheckpoint
  <1>a. PassedAstray \subseteq PassedAstray'
    BY <1>0, AstrayStays
  <1>f. LogInv' /\ ContextInv' /\ Steps' = Steps
    BY <1>0, FileLemma DEF IInv, ContextInv
  <1>1. CASE PassOver
    <2>1. /\ phase = "yielding" /\ out.kind = "info" /\ phase' = "decoding" /\ out' = Nothing
          /\ UNCHANGED <<worker, saved, applied, repeats>>
      BY <1>1 DEF PassOver, Continue
    <2>2. worker # "replayed" /\ (read \notin Steps \/ read \in PassedAstray)
      BY <2>1 DEF IInv, WorkerInv, OutInv
    <2>3. TypeOK'
      BY <1>0, <2>1, OutputTypes DEF IInv, TypeOK, BinlogTypeOK, WorkerTypeOK, StreamTypeOK, Phases
    <2>4. RepeatsInv'
      BY <1>0, <2>1, RepeatsKept
    <2>. QED BY <1>0, <1>a, <1>f, <2>1, <2>2, <2>3, <2>4 DEF IInv, CursorInv, OutInv, PassedInv, WorkerInv,
                Nothing, EventKinds
  <1>2. CASE Replay
    <2>1. /\ phase = "yielding" /\ out.kind = "step" /\ worker = "idle" /\ worker' = "replayed"
          /\ applied' = applied \cup {out.rec}
          /\ repeats' = IF out.rec \in applied THEN repeats + 1 ELSE repeats
          /\ UNCHANGED <<phase, out, saved>>
      BY <1>2 DEF Replay
    <2>2. out.rec = read /\ read \in Steps /\ saved < read
      BY <2>1 DEF IInv, OutInv, EventKinds
    <2>3. TypeOK'
      <3>1. applied' \subseteq Nat /\ repeats' \in Nat
        BY <2>1, Facts
      <3>. QED BY <1>0, <2>1, <3>1 DEF IInv, TypeOK, BinlogTypeOK, WorkerTypeOK, StreamTypeOK
    <2>4. CursorInv' /\ OutInv' /\ PassedInv' /\ WorkerInv'
      BY <1>0, <1>a, <1>f, <2>1, <2>2 DEF IInv, CursorInv, OutInv, PassedInv, WorkerInv
    <2>5. RepeatsInv'
      <3>1. Ahead' = Ahead \cup {out.rec} /\ (out.rec \in Ahead <=> out.rec \in applied)
        BY <2>1, <2>2, Facts DEF Ahead
      <3>2. Cardinality(Ahead') = IF out.rec \in applied THEN Cardinality(Ahead) ELSE Cardinality(Ahead) + 1
        BY <3>1, AheadFinite, FS_AddElement
      <3>3. repeats + Cardinality(Ahead) <= crashes
        <4>1. worker # "replayed"
          BY <2>1
        <4>2. repeats + Cardinality(Ahead) <= crashes + 0
          BY <4>1, Zenon DEF IInv, RepeatsInv
        <4>. QED BY <4>2, Facts
      <3>4. repeats' + Cardinality(Ahead') <= crashes + 1
        <4>1. CASE out.rec \in applied
          BY <2>1, <3>2, <3>3, <4>1, AheadFinite, Facts
        <4>2. CASE out.rec \notin applied
          BY <2>1, <3>2, <3>3, <4>2, AheadFinite, Facts
        <4>. QED BY <4>1, <4>2
      <3>5. worker' = "replayed" /\ crashes' = crashes
        BY <1>0, <2>1
      <3>. QED BY <3>4, <3>5 DEF RepeatsInv
    <2>. QED BY <1>f, <2>3, <2>4, <2>5 DEF IInv
  <1>3. CASE SaveCheckpoint
    <2>1. /\ worker = "replayed" /\ saved' = out.pos /\ worker' = "idle" /\ out' = Nothing
          /\ phase = "yielding" /\ phase' \in {"decoding", "open"} /\ UNCHANGED <<applied, repeats>>
      BY <1>3 DEF SaveCheckpoint, Continue, BreakOut
    <2>2. out.kind = "step" /\ out.rec \in applied /\ out.rec = read /\ out.pos = read /\ read \in Steps /\ saved < read
      BY <2>1 DEF IInv, WorkerInv, OutInv, EventKinds
    <2>3. TypeOK'
      BY <1>0, <2>1, Facts, OutputTypes DEF IInv, TypeOK, BinlogTypeOK, WorkerTypeOK, StreamTypeOK, Phases
    <2>4. CursorInv' /\ OutInv' /\ PassedInv'
      BY <1>0, <1>a, <1>f, <2>1, <2>2, Facts DEF IInv, CursorInv, OutInv, PassedInv, Nothing, EventKinds
    <2>5. WorkerInv'
      BY <1>0, <1>a, <1>f, <2>1, <2>2, Facts DEF IInv, WorkerInv, PassedInv
    <2>6. RepeatsInv'
      <3>1. Ahead' \in SUBSET (Ahead \ {read}) /\ read \in Ahead
        BY <2>1, <2>2, Facts DEF Ahead
      <3>2. IsFiniteSet(Ahead \ {read}) /\ Cardinality(Ahead \ {read}) = Cardinality(Ahead) - 1
        BY <3>1, AheadFinite, FS_RemoveElement
      <3>3. IsFiniteSet(Ahead') /\ Cardinality(Ahead') <= Cardinality(Ahead) - 1
        BY <3>1, <3>2, FS_Subset
      <3>4. Cardinality(Ahead') \in Nat
        BY <3>3, FS_CardinalityType
      <3>5. repeats + Cardinality(Ahead) <= crashes + 1
        BY <2>1 DEF IInv, RepeatsInv
      <3>. QED BY <1>0, <2>1, <3>3, <3>4, <3>5, AheadFinite, Facts DEF RepeatsInv
    <2>. QED BY <1>f, <2>3, <2>4, <2>5, <2>6 DEF IInv
  <1>. QED BY <1>1, <1>2, <1>3 DEF Consume

(* A process that is gone: an error ends it between two steps, a crash may *)
(* fall between a replay and its save.                                     *)
LEMMA DieLemma == ASSUME IInv, Stop \/ Fail PROVE IInv'
  <1>. USE DEF binlogVars, fileDecoderVars, streamVars, workerVars, durableVars
  <1>0. /\ phase' = "closed" /\ out' = Nothing /\ worker' = "idle" /\ ranges' = 0
        /\ read' = 0 /\ skewed' = FALSE /\ desc' = FALSE /\ tables' = {} /\ start' = 0
        /\ UNCHANGED <<log, torn, group, astray, saved, applied, repeats>>
    BY DEF Stop, Fail, PanicOnError, Leave, Crash, Die, ForgetDecoder
  <1>f. LogInv' /\ Steps' = Steps
    BY <1>0, FileLemma
  <1>1. (crashes' = crashes /\ worker = "idle") \/ crashes' = crashes + 1
    <2>1. Stop => worker # "replayed"
      BY DEF Stop, PanicOnError, Leave, IInv, WorkerInv, OutInv, Nothing
    <2>. QED BY <2>1 DEF Stop, PanicOnError, Leave, Fail, Crash, IInv, TypeOK, WorkerTypeOK
  <1>2. TypeOK'
    <2>1. crashes' \in Nat /\ read' \in Nat /\ start' \in Nat /\ ranges' \in Nat
      BY <1>0, <1>1, Facts
    <2>2. skewed' \in BOOLEAN /\ desc' \in BOOLEAN /\ tables' \subseteq Tables
      BY <1>0
    <2>. QED BY <1>0, <2>1, <2>2, OutputTypes DEF IInv, TypeOK, BinlogTypeOK, WorkerTypeOK, StreamTypeOK, Phases
  <1>a. PassedAstray \subseteq PassedAstray'
    BY <1>0, AstrayStays
  <1>3. ContextInv' /\ CursorInv' /\ OutInv' /\ PassedInv' /\ WorkerInv'
    BY <1>0, <1>a, <1>f, Facts DEF IInv, ContextInv, CursorInv, OutInv, PassedInv, WorkerInv, Nothing, EventKinds
  <1>4. RepeatsInv'
    BY <1>0, <1>1, RepeatsKept
  <1>. QED BY <1>f, <1>2, <1>3, <1>4 DEF IInv

(* The server goes on behind all that the decoder and the worker know.     *)
LEMMA AppendLemma ==
  ASSUME IInv, NEW r \in Records, log' = Append(log, r), torn' \in BOOLEAN, group' \subseteq Tables,
         LogInv', UNCHANGED <<astray, fileDecoderVars, streamVars, workerVars>>
  PROVE  IInv'
  <1>. USE DEF fileDecoderVars, streamVars, workerVars, durableVars
  <1>1. /\ log' \in Seq(Records) /\ Len(log') = Len(log) + 1
        /\ \A i \in 1..Len(log) : log'[i] = log[i]
    BY Facts
  <1>2. Steps \subseteq Steps' /\ \A i \in Steps' : i \in Steps \/ i = Len(log) + 1
    BY <1>1, Facts DEF Steps
  <1>3. TypeOK'
    BY <1>1 DEF IInv, TypeOK, BinlogTypeOK, WorkerTypeOK, StreamTypeOK
  <1>a. PassedAstray \subseteq PassedAstray'
    BY AstrayStays
  <1>4. ContextInv' /\ CursorInv' /\ OutInv'
    BY <1>a, <1>1, <1>2, Facts DEF IInv, ContextInv, CursorInv, OutInv
  <1>5. PassedInv' /\ WorkerInv'
    <2>1. read <= Len(log) /\ saved <= Len(log) /\ applied \subseteq 1..Len(log)
      BY Facts DEF IInv, ContextInv, CursorInv, WorkerInv
    <2>. QED BY <1>a, <1>1, <1>2, <2>1, Facts DEF IInv, PassedInv, WorkerInv
  <1>6. RepeatsInv'
    BY RepeatsKept
  <1>. QED BY <1>3, <1>4, <1>5, <1>6 DEF IInv

LEMMA GrowLemma == ASSUME SingleLayout, IInv, Grow PROVE IInv'
  <1>. USE DEF binlogVars, fileDecoderVars, streamVars, workerVars, durableVars
  <1>t. group \subseteq Tables /\ Len(log) > 0
    BY DEF IInv, LogInv, TypeOK, BinlogTypeOK
  <1>a. ASSUME NEW r \in Records, log' = Append(log, r)
        PROVE  /\ Len(log') = Len(log) + 1 /\ log'[Len(log) + 1] = r
               /\ \A i \in 1..Len(log) : log'[i] = log[i]
    BY <1>a, Facts
  <1>1. ASSUME NEW t \in Tables, WriteMap(t), UNCHANGED workerVars PROVE IInv'
    <2>. DEFINE r == OfTable("map", t)
    <2>1. /\ log' = Append(log, r) /\ r \in Records /\ r.kind = "map" /\ r.table = t
          /\ group' = {t} /\ torn' = FALSE /\ UNCHANGED <<astray, fileDecoderVars, streamVars>>
      BY <1>1, RecordTypes DEF WriteMap, CanMap, Write, SingleLayout
    <2>. HIDE DEF r
    <2>2. LogInv'
      BY <1>t, <1>a, <2>1, Facts DEF IInv, LogInv
    <2>. QED BY <1>1, <2>1, <2>2, AppendLemma
  <1>2. ASSUME NEW t \in Tables, WriteRows(t), UNCHANGED workerVars PROVE IInv'
    <2>. DEFINE r == OfTable("rows", t)
    <2>1. /\ log' = Append(log, r) /\ r \in Records /\ r.kind = "rows" /\ r.table = t
          /\ group' = group /\ torn' = FALSE /\ UNCHANGED <<astray, fileDecoderVars, streamVars>>
      BY <1>2, RecordTypes DEF WriteRows, Write
    <2>. HIDE DEF r
    <2>2. log[Len(log)].kind = "map" /\ log[Len(log)].table = t
      BY <1>2 DEF WriteRows, CanRows, LastKind, SingleLayout, IInv, LogInv
    <2>3. LogInv'
      <3>1. /\ Len(log') = Len(log) + 1 /\ log'[Len(log) + 1] = r
            /\ \A i \in 1..Len(log) : log'[i] = log[i]
        BY <1>a, <2>1
      <3>2. \A i \in 1..Len(log') : log'[i].kind = "rows" =>
               i > 1 /\ log'[i - 1].kind = "map" /\ log'[i - 1].table = log'[i].table
        <4>. SUFFICES ASSUME NEW i \in 1..Len(log'), log'[i].kind = "rows"
             PROVE  i > 1 /\ log'[i - 1].kind = "map" /\ log'[i - 1].table = log'[i].table
          OBVIOUS
        <4>1. CASE i \in 1..Len(log)
          <5>1. log'[i] = log[i]
            BY <3>1, <4>1
          <5>2. i > 1 /\ log[i - 1].kind = "map" /\ log[i - 1].table = log[i].table
            BY <4>1, <5>1 DEF IInv, LogInv
          <5>3. i - 1 \in 1..Len(log)
            BY <4>1, <5>2, Facts
          <5>4. log'[i - 1] = log[i - 1]
            BY <3>1, <5>3
          <5>. QED BY <5>1, <5>2, <5>4
        <4>2. CASE i = Len(log) + 1
          <5>1. i - 1 = Len(log) /\ Len(log) \in 1..Len(log)
            BY <1>t, <4>2, Facts
          <5>. QED BY <1>t, <2>1, <2>2, <3>1, <4>2, <5>1
        <4>. QED BY <3>1, <4>1, <4>2, Facts
      <3>. QED BY <1>t, <2>1, <3>1, <3>2, Facts DEF IInv, LogInv
    <2>. QED BY <1>t, <1>2, <2>1, <2>3, AppendLemma
  <1>3. ASSUME NEW k \in PlainKinds, WritePlain(k), UNCHANGED workerVars PROVE IInv'
    <2>. DEFINE r == Plain(k)
    <2>1. /\ log' = Append(log, r) /\ r \in Records /\ r.kind = k /\ k \notin {"fde", "map", "rows"}
          /\ group' = {} /\ torn' = FALSE /\ UNCHANGED <<astray, fileDecoderVars, streamVars>>
      BY <1>3, RecordTypes DEF WritePlain, Write, PlainKinds
    <2>. HIDE DEF r
    <2>2. LogInv'
      BY <1>t, <1>a, <2>1, Facts DEF IInv, LogInv
    <2>. QED BY <1>3, <2>1, <2>2, AppendLemma
  <1>4. CASE TearEvent /\ UNCHANGED workerVars
    <2>1. torn' = TRUE /\ UNCHANGED <<log, group, astray, fileDecoderVars, streamVars, workerVars>>
      BY <1>4 DEF TearEvent
    <2>2. LogInv' /\ Steps' = Steps
      BY <2>1 DEF IInv, LogInv, Steps
    <2>3. TypeOK'
      BY <2>1 DEF IInv, TypeOK, BinlogTypeOK, WorkerTypeOK, StreamTypeOK
    <2>4. RepeatsInv'
      BY <2>1, RepeatsKept
    <2>. QED BY <2>1, <2>2, <2>3, <2>4, AstrayStays DEF IInv, ContextInv, CursorInv, OutInv, PassedInv, WorkerInv
  <1>. QED BY <1>1, <1>2, <1>3, <1>4 DEF Grow

LEMMA NextLemma == ASSUME SingleLayout, IInv, [Next]_vars PROVE IInv'
  <1>1. CASE UNCHANGED vars
    <2>. USE <1>1 DEF vars, binlogVars, fileDecoderVars, streamVars, workerVars, durableVars
    <2>1. LogInv' /\ Steps' = Steps
      BY FileLemma
    <2>2. TypeOK'
      BY DEF IInv, TypeOK, BinlogTypeOK, WorkerTypeOK, StreamTypeOK
    <2>3. RepeatsInv'
      BY RepeatsKept
    <2>. QED BY <2>1, <2>2, <2>3, AstrayStays DEF IInv, ContextInv, CursorInv, OutInv, PassedInv, WorkerInv
  <1>. QED BY <1>1, OpenLemma, DecodeInv, ConsumeLemma, DieLemma, GrowLemma DEF Next, Program

(* The inductive invariant holds in every reachable state.                 *)
THEOREM Invariance == ASSUME SingleLayout PROVE Spec => []IInv
  BY InitLemma, NextLemma, PTL DEF Spec

(* Every field of the decoder and of the worker keeps its type.            *)
THEOREM TypeCorrect == ASSUME SingleLayout PROVE Spec => []TypeOK
  <1>1. IInv => TypeOK
    BY DEF IInv
  <1>. QED BY <1>1, Invariance, PTL

(* A checkpoint never stands behind a rows event that was not replayed,    *)
(* although the decoder skips table maps with everything before its start: *)
(* any number of loops lose only what one of them passed astray.           *)
THEOREM NoStepLostHolds == ASSUME SingleLayout PROVE Spec => []NoStepLost
  <1>1. IInv => NoStepLost
    BY Facts DEF IInv, OutInv, PassedInv, WorkerInv, NoStepLost, EventKinds
  <1>. QED BY <1>1, Invariance, PTL

(* Operations are repeated at most once per crash.                         *)
THEOREM RepeatsNeedCrashesHolds == ASSUME SingleLayout PROVE Spec => []RepeatsNeedCrashes
  <1>1. IInv => RepeatsNeedCrashes
    <2>. SUFFICES ASSUME IInv PROVE repeats <= crashes
      BY DEF RepeatsNeedCrashes
    <2>1. repeats + Cardinality(Ahead) <= crashes + (IF worker = "replayed" THEN 1 ELSE 0)
      BY DEF IInv, RepeatsInv
    <2>2. worker = "replayed" => Cardinality(Ahead) # 0
      <3>. SUFFICES ASSUME worker = "replayed" PROVE Cardinality(Ahead) # 0
        OBVIOUS
      <3>1. out.rec \in Ahead
        BY Facts DEF IInv, WorkerInv, OutInv, EventKinds, Ahead
      <3>. QED BY <3>1, AheadFinite, FS_EmptySet
    <2>. QED BY <2>1, <2>2, AheadFinite, Facts
  <1>. QED BY <1>1, Invariance, PTL

----------------------------------------------------------------------------------
(* The refinement.                                                         *)

LEMMA InitRefines == Init => Stream!Init
  <1>1. Init => Steps = {} /\ Cursor = 0 /\ saved = 0
    <2>. SUFFICES ASSUME Init PROVE Steps = {} /\ Cursor = 0 /\ saved = 0
      OBVIOUS
    <2>1. log = <<Plain("fde")>> /\ Plain("fde").kind = "fde"
      BY RecordTypes DEF Init, BinlogInit, PlainKinds
    <2>2. Len(log) = 1 /\ log[1].kind = "fde"
      BY <2>1
    <2>3. Steps = {}
      BY <2>2 DEF Steps
    <2>. QED BY <2>3 DEF Cursor, Init, WorkerInit
  <1>. QED BY <1>1 DEF Stream!Init

(* A step that leaves the file, the checkpoint and the replay alone.       *)
LEMMA StutterRefines ==
  ASSUME Steps' = Steps, UNCHANGED <<saved, worker>>, worker = "replayed" => out' = out
  PROVE  UNCHANGED Stream!vars
  BY DEF Stream!vars, Cursor

(* Without losses a turn of the program is a step of the stream.           *)
LEMMA StepRefines ==
  ASSUME SingleLayout, IInv, [Next]_vars, astray' = {} PROVE [Stream!Next]_(Stream!vars)
  <1>. USE DEF binlogVars, fileDecoderVars, streamVars, workerVars, durableVars
  <1>w. worker = "replayed" => out.kind = "step" /\ phase = "yielding" /\ out.rec = read /\ out.pos = read /\ saved < read
    BY DEF IInv, WorkerInv, OutInv, Nothing, EventKinds
  <1>1. CASE Open \/ RangeOver \/ Decode \/ UNCHANGED vars
    <2>1. UNCHANGED <<log, saved, worker>>
      BY <1>1, DecodeLemma DEF Open, OpenBinlog, RangeOver, BeginLoop, RangeAgain, vars
    <2>2. worker = "replayed" => out' = out
      BY <1>1, <1>w, DecodeLemma DEF Open, OpenBinlog, RangeOver, BeginLoop, RangeAgain, vars, Passes, Delivers, Stops, Strays
    <2>. QED BY <2>1, <2>2, StutterRefines DEF Steps
  <1>2. CASE Consume
    <2>0. Steps' = Steps
      BY <1>2 DEF Consume, Steps
    <2>1. CASE PassOver
      BY <1>w, <2>0, <2>1, StutterRefines DEF PassOver
    <2>2. CASE Replay
      <3>1. Cursor = saved /\ Cursor' = out.rec /\ saved' = saved
        BY <2>2 DEF Replay, Cursor
      <3>2. out.rec = read /\ read \in Steps /\ read > saved
        BY <2>2, Facts DEF Replay, IInv, OutInv, EventKinds
      <3>3. \A s \in Steps : s > saved => s >= read
        <4>1. PassedAstray = {}
          BY <1>2 DEF Consume, PassedAstray
        <4>2. \A s \in Steps : s <= read /\ s # read => s <= saved
          BY <3>2, <4>1 DEF IInv, PassedInv
        <4>. QED BY <3>2, <4>2, Facts
      <3>. QED BY <2>0, <3>1, <3>2, <3>3 DEF Stream!Next, Stream!Replay
    <2>3. CASE SaveCheckpoint
      <3>1. Cursor = out.rec /\ Cursor' = out.pos /\ saved' = out.pos /\ worker = "replayed"
        BY <2>3 DEF SaveCheckpoint, Cursor
      <3>. QED BY <1>w, <2>0, <3>1, Facts DEF Stream!Next, Stream!Save
    <2>. QED BY <1>2, <2>1, <2>2, <2>3 DEF Consume
  <1>3. CASE Stop \/ Fail
    <2>1. worker' = "idle" /\ saved' = saved /\ Steps' = Steps
      BY <1>3 DEF Stop, PanicOnError, Leave, Fail, Crash, Die, Steps
    <2>. QED BY <2>1 DEF Cursor, Stream!Next, Stream!Restart
  <1>4. CASE Grow
    <2>1. UNCHANGED <<saved, worker, out>>
      BY <1>4 DEF Grow, WriteMap, WriteRows, WritePlain, TearEvent, Write
    <2>2. log' = log \/ \E r \in Records : log' = Append(log, r)
      BY <1>4, RecordTypes DEF Grow, WriteMap, WriteRows, WritePlain, TearEvent, Write
    <2>3. CASE log' = log
      BY <2>1, <2>3, StutterRefines DEF Steps
    <2>4. CASE \E r \in Records : log' = Append(log, r)
      <3>1. Steps \subseteq Steps' /\ \A i \in Steps' : i \in Steps \/ i = Len(log) + 1
        BY <2>4, Facts DEF Steps
      <3>2. Cursor' = Cursor /\ Cursor \in Nat /\ Cursor <= Len(log)
        BY <1>w, <2>1, Facts DEF Cursor, IInv, CursorInv, ContextInv
      <3>3. Stream!Extend
        BY <2>1, <3>1, <3>2, Facts DEF Stream!Extend
      <3>. QED BY <3>3 DEF Stream!Next
    <2>. QED BY <2>2, <2>3, <2>4
  <1>. QED BY <1>1, <1>2, <1>3, <1>4 DEF Next, Program

(* Over any binlog file and any crashes, and until a decoder reads astray, *)
(* what the worker does is a behaviour of the abstract stream: steps in    *)
(* log order, none left out.                                               *)
THEOREM Refinement == ASSUME SingleLayout PROVE Spec => ImplementsStream
  <1>1. Init => Stream!Init
    BY InitRefines
  <1>2. IInv /\ [Next]_vars => [astray' = {} => Stream!Next]_(Stream!vars)
    BY StepRefines
  <1>. QED BY <1>1, <1>2, Invariance, PTL DEF Spec, ImplementsStream

==================================================================================
