-------------------------- MODULE MySQLRecovery_proofs --------------------------
(***************************************************************************)
(* Proofs about MySQLRecovery for servers with any number of files and     *)
(* events, and any number of reconnections, loops and crashes.             *)
(***************************************************************************)
EXTENDS MySQLRecovery, FiniteSetTheorems, SequenceTheorems, TLAPS

----------------------------------------------------------------------------------
(* The inductive invariant.                                                *)

(* Record i comes before record j in the files.                            *)
Before(i, j) ==
  \/ binlog[i].file < binlog[j].file
  \/ binlog[i].file = binlog[j].file /\ binlog[i].pos < binlog[j].pos

OrderInv ==
  /\ Len(binlog) \in 1..MaxLog
  /\ \A i \in 1..Len(binlog) : binlog[i].pos <= i + 1
  /\ \A i, j \in 1..Len(binlog) : i < j => Before(i, j)

Rows == {i \in 1..Len(binlog) : binlog[i].kind = "rows"}

(* A decoder that is open and was not refused.                             *)
Streams == phase # "closed" /\ ~refused

(* The file of the stream never changes once a checkpoint was saved, and a *)
(* checkpoint is the position of a record of that file or a later one.     *)
SavedInv ==
  /\ saved = 0 <=> savedFile = 0
  /\ saved > 0 => /\ dsn.file # 0 => savedFile = dsn.file
                  /\ \E r \in 1..Len(binlog) : binlog[r].pos = saved /\ binlog[r].file >= savedFile
                  /\ phase # "closed" => source = savedFile
  /\ phase # "closed" => start <= saved /\ (dsn.file # 0 => source = dsn.file)
  /\ phase = "closed" => next = 1

(* A stream is behind the position the DSN names, and so is all that comes.*)
StreamInv ==
  Streams =>
    /\ source <= End.file
    /\ dsn.pos > 1 => \E r \in 1..Len(binlog) : binlog[r].file = source /\ binlog[r].pos = dsn.pos
    /\ \A i \in next..Len(binlog) :
         binlog[i].file > source \/ (binlog[i].file = source /\ binlog[i].pos > dsn.pos)

(* The worker joined the stream there.                                     *)
OriginInv ==
  LET file == IF saved > 0 THEN savedFile ELSE source
  IN  saved > 0 \/ Streams =>
        /\ dsn.pos > 1 => \E r \in 1..Len(binlog) : binlog[r].file = file /\ binlog[r].pos = dsn.pos
        /\ \A i \in origin..Len(binlog) : binlog[i].file = file => binlog[i].pos > dsn.pos

OutInv ==
  /\ phase # "yielding" => out = Nothing
  /\ phase = "yielding" => out.kind \in {"step", "info", "error"}
  /\ out.kind \in {"step", "info"} => ~refused
  /\ out.kind = "step" =>
       /\ out.rec = next - 1 /\ out.rec \in Rows
       /\ out.pos = binlog[out.rec].pos /\ out.pos > start
       /\ binlog[out.rec].file > source \/ (binlog[out.rec].file = source /\ out.pos > dsn.pos)
  /\ out.kind = "info" => out.rec < next /\ out.rec \notin Rows

WorkerInv ==
  /\ worker = "replayed" => out.kind = "step" /\ out.rec \in applied
  /\ applied \subseteq Rows

(* What the checkpoint covers of its file was replayed.                    *)
CoveredInv ==
  saved > 0 => \A i \in Rows : i >= origin /\ binlog[i].file = savedFile /\ binlog[i].pos <= saved => i \in applied

(* While there is one file: the steps the stream is past lie at or before  *)
(* the checkpoint or the position of the DSN.                              *)
Resumable == saved > 0 \/ dsn.pos > 0

SingleFileInv ==
  End.file = 1 /\ Streams =>
    /\ saved = start \/ \E r \in 1..(next - 1) : binlog[r].pos = saved /\ ~(out.kind = "step" /\ r = out.rec)
    /\ Resumable => \A j \in Rows : j < next /\ j # InHand => binlog[j].pos <= saved \/ binlog[j].pos <= dsn.pos
    /\ ~Resumable => \A i \in applied : i < next /\ (out.kind = "step" /\ i = out.rec => worker = "replayed")

(* Beyond the checkpoint at most the next step was replayed.               *)
AheadInv ==
  End.file = 1 /\ Resumable =>
    \A i \in applied : binlog[i].pos > saved =>
      \A j \in Rows : binlog[j].pos > saved /\ binlog[j].pos > dsn.pos => i <= j

(* A replay that a crash cut off from its checkpoint is to be repeated.    *)
Owed == worker = "idle" /\ Resumable /\ \E i \in applied : binlog[i].pos > saved

RepeatsInv == End.file = 1 => repeats <= crashes /\ (Owed => repeats < crashes)

IInv ==
  /\ TypeOK
  /\ OrderInv
  /\ SavedInv
  /\ StreamInv
  /\ OriginInv
  /\ OutInv
  /\ WorkerInv
  /\ CoveredInv
  /\ NoStepLostInFile
  /\ SingleFileInv
  /\ AheadInv
  /\ RepeatsInv

----------------------------------------------------------------------------------

LEMMA OutputTypes ==
  /\ Nothing \in Outputs
  /\ [kind |-> "error", pos |-> 0, rec |-> 0] \in Outputs
  /\ \A kind \in {"step", "info"}, pos, rec \in Nat : [kind |-> kind, pos |-> pos, rec |-> rec] \in Outputs
  BY DEF Nothing, Outputs, EventKinds

(* The artificial events are a rotation, a description, or both.           *)
Prologues == {<<>>, <<"rotate">>, <<"fde">>, <<"rotate", "fde">>}

LEMMA PrologueTypes ==
  /\ \A pos : Prologue(pos) \in Prologues
  /\ \A p \in Prologues : p # <<>> => Tail(p) \in Prologues
  <1>1. \A pos : Prologue(pos) \in Prologues
    BY DEF Prologue, Prologues
  <1>2. Tail(<<"rotate">>) = <<>> /\ Tail(<<"fde">>) = <<>> /\ Tail(<<"rotate", "fde">>) = <<"fde">>
    OBVIOUS
  <1>. QED BY <1>1, <1>2 DEF Prologues

LEMMA IntervalLemma ==
  ASSUME NEW a \in Nat, NEW b \in Nat
  PROVE  /\ \A k : k \in a..(b - 1) <=> k \in Nat /\ a <= k /\ k < b
         /\ \A c \in Nat : b <= c => a..(b - 1) \subseteq a..(c - 1)
         /\ \A n \in Nat : 0 < a /\ b <= n + 1 => a..(b - 1) \subseteq 1..n
  OBVIOUS

(* What the invariant says of numbers, for the steps below.                *)
LEMMA Facts ==
  ASSUME IInv
  PROVE  /\ binlog \in Seq(Records) /\ Len(binlog) \in Nat \ {0}
         /\ \A i \in 1..Len(binlog) :
              /\ binlog[i].file \in Nat /\ binlog[i].pos \in Nat
              /\ 1 <= binlog[i].file /\ binlog[i].file <= MaxFiles
              /\ 2 <= binlog[i].pos /\ binlog[i].pos <= MaxLog + 1
              /\ binlog[i].kind \in Kinds
         /\ MaxFiles \in Nat \ {0} /\ MaxLog \in Nat \ {0}
         /\ End = binlog[Len(binlog)]
         /\ dsn.file \in 0..MaxFiles /\ dsn.pos \in Nat
         /\ next \in 1..(Len(binlog) + 1) /\ origin \in 1..(Len(binlog) + 1)
         /\ start \in Nat /\ source \in 0..MaxFiles /\ (phase # "closed" => source \in 1..MaxFiles)
         /\ saved \in Nat /\ savedFile \in 0..MaxFiles
         /\ repeats \in Nat /\ crashes \in Nat /\ out.rec \in Nat /\ out.pos \in Nat
         /\ Rows \subseteq 1..Len(binlog) /\ applied \subseteq Rows
  <1>1. binlog \in Seq(Records) /\ Len(binlog) \in Nat \ {0}
    BY DEF IInv, TypeOK, LiveTypeOK, OrderInv
  <1>2. ASSUME NEW i \in 1..Len(binlog)
        PROVE  /\ binlog[i].file \in Nat /\ binlog[i].pos \in Nat
               /\ 1 <= binlog[i].file /\ binlog[i].file <= MaxFiles
               /\ 2 <= binlog[i].pos /\ binlog[i].pos <= MaxLog + 1
               /\ binlog[i].kind \in Kinds
    <2>1. binlog[i] \in Records
      BY <1>1, <1>2
    <2>2. \A r \in Records : r.file \in 1..MaxFiles /\ r.pos \in 2..(MaxLog + 1) /\ r.kind \in Kinds
      BY DEF Records
    <2>3. binlog[i].file \in 1..MaxFiles /\ binlog[i].pos \in 2..(MaxLog + 1) /\ binlog[i].kind \in Kinds
      BY <2>1, <2>2
    <2>. QED BY <2>3, ConstantsAssumption
  <1>3. dsn.file \in DsnFiles /\ dsn.pos \in DsnPositions
    BY DEF IInv, TypeOK, LiveTypeOK
  <1>4. out.rec \in Nat /\ out.pos \in Nat
    BY DEF IInv, TypeOK, WorkerTypeOK, StreamTypeOK, Outputs
  <1>5. start \in Nat /\ source \in 0..MaxFiles /\ (phase # "closed" => source \in 1..MaxFiles)
    BY ConstantsAssumption DEF IInv, TypeOK, LiveTypeOK
  <1>. QED BY <1>1, <1>2, <1>3, <1>4, <1>5, ConstantsAssumption
           DEF IInv, TypeOK, LiveTypeOK, WorkerTypeOK, WorkerInv, End, Rows

(* The last record is of the last file, and what comes later stands behind *)
(* what came before.                                                       *)
LEMMA EndLemma ==
  ASSUME IInv PROVE /\ End.file \in Nat
                    /\ \A i \in 1..Len(binlog) : binlog[i].file <= End.file
                    /\ \A i \in 1..Len(binlog) : binlog[i].file = End.file => binlog[i].pos <= End.pos
                    /\ End.pos \in Nat /\ End.pos <= Len(binlog) + 1
  <1>1. Len(binlog) \in 1..Len(binlog) /\ End = binlog[Len(binlog)]
    BY Facts
  <1>2. ASSUME NEW i \in 1..Len(binlog), i # Len(binlog)
        PROVE  /\ binlog[i].file <= End.file
               /\ binlog[i].file = End.file => binlog[i].pos <= End.pos
    <2>1. i < Len(binlog)
      BY <1>2, Facts
    <2>2. Before(i, Len(binlog))
      BY <1>1, <2>1 DEF IInv, OrderInv
    <2>3. binlog[i].file \in Nat /\ End.file \in Nat /\ binlog[i].pos \in Nat /\ End.pos \in Nat
      BY <1>1, Facts
    <2>. QED BY <1>1, <2>2, <2>3 DEF Before
  <1>3. End.pos <= Len(binlog) + 1
    BY <1>1 DEF IInv, OrderInv
  <1>4. End.file \in Nat /\ End.pos \in Nat
    BY <1>1, Facts
  <1>. QED BY <1>1, <1>2, <1>3, <1>4

(* The records a dump passes over are the first ones.                      *)
LEMMA DumpLemma ==
  ASSUME IInv, NEW file \in Nat, NEW pos \in Nat
  PROVE  /\ Cardinality(RecordsUpTo(file, pos)) \in 0..Len(binlog)
         /\ RecordsUpTo(file, pos) = 1..Cardinality(RecordsUpTo(file, pos))
  <1>. DEFINE S == RecordsUpTo(file, pos)
  <1>t. DOMAIN binlog = 1..Len(binlog)
    BY Facts
  <1>1. /\ S \subseteq 1..Len(binlog)
        /\ \A i \in 1..Len(binlog) :
             i \in S <=> (binlog[i].file < file \/ (binlog[i].file = file /\ binlog[i].pos <= pos))
    BY <1>t DEF RecordsUpTo
  <1>. HIDE DEF S
  <1>2. ASSUME NEW j \in S, NEW i \in 1..Len(binlog), i < j PROVE i \in S
    <2>1. j \in 1..Len(binlog)
      BY <1>1
    <2>2. Before(i, j)
      BY <1>2, <2>1 DEF IInv, OrderInv
    <2>3. /\ binlog[i].file \in Nat /\ binlog[j].file \in Nat
          /\ binlog[i].pos \in Nat /\ binlog[j].pos \in Nat
      BY <2>1, Facts
    <2>. QED BY <1>1, <2>1, <2>2, <2>3 DEF Before
  <1>. DEFINE T == {n \in Nat : n + 1 \notin S}
  <1>3. Len(binlog) \in T
    <2>1. Len(binlog) + 1 \notin 1..Len(binlog)
      BY Facts
    <2>. QED BY <1>1, <2>1, Facts
  <1>4. PICK k \in T : \A n \in T : ~(<<n, k>> \in OpToRel(<, Nat))
    BY <1>3, NatLessThanWellFounded, WFMin
  <1>5. \A n \in T : k <= n
    <2>. SUFFICES ASSUME NEW n \in T, n < k PROVE FALSE
      OBVIOUS
    <2>. QED BY <1>4 DEF OpToRel
  <1>6. k \in 0..Len(binlog)
    BY <1>3, <1>5, Facts
  <1>7. \A i \in 1..k : i \in S
    <2>. SUFFICES ASSUME NEW i \in 1..k, i \notin S PROVE FALSE
      OBVIOUS
    <2>1. i - 1 \in Nat /\ (i - 1) + 1 = i
      BY <1>6, Facts
    <2>2. i - 1 \in T
      BY <2>1
    <2>3. k <= i - 1 /\ k \in Nat
      BY <1>5, <2>2
    <2>. QED BY <2>1, <2>3
  <1>8. \A i \in S : i \in 1..k
    <2>. SUFFICES ASSUME NEW i \in S, i > k PROVE FALSE
      BY <1>1, <1>6, Facts
    <2>1. k + 1 \notin S
      OBVIOUS
    <2>2. i \in 1..Len(binlog) /\ k + 1 \in 1..Len(binlog) /\ (k + 1 < i \/ k + 1 = i)
      BY <1>1, <1>6, Facts
    <2>. QED BY <1>2, <2>1, <2>2
  <1>9. S = 1..k
    BY <1>1, <1>6, <1>7, <1>8
  <1>10. Cardinality(1..k) = k
    BY <1>6, FS_Interval, Facts
  <1>. QED BY <1>6, <1>9, <1>10 DEF S

LEMMA InitLemma == Init => IInv
  <1>. SUFFICES ASSUME Init PROVE IInv
    OBVIOUS
  <1>. USE DEF Init, BinlogInit, StreamerInit, LiveInit, WorkerInit
  <1>1. /\ [file |-> 1, pos |-> 2, kind |-> "fde"] \in Records
        /\ MaxLog \in Nat \ {0}
    BY ConstantsAssumption DEF Records, Kinds
  <1>2. binlog \in Seq(Records) /\ Len(binlog) = 1 /\ binlog[1] = [file |-> 1, pos |-> 2, kind |-> "fde"]
    BY <1>1
  <1>3. Rows = {}
    BY <1>2 DEF Rows
  <1>4. TypeOK
    <2>1. StreamTypeOK
      BY OutputTypes DEF StreamTypeOK, Phases
    <2>2. reconnects \in 0..MaxReconnects /\ savedFile \in 0..MaxFiles /\ start \in 0..(MaxLog + 1)
      BY ConstantsAssumption
    <2>3. next \in 1..(Len(binlog) + 1) /\ origin \in 1..(Len(binlog) + 1)
      BY <1>2
    <2>. QED BY <1>2, <2>1, <2>2, <2>3 DEF TypeOK, LiveTypeOK, WorkerTypeOK
  <1>5. OrderInv
    BY <1>1, <1>2 DEF OrderInv
  <1>6. SavedInv /\ StreamInv /\ OriginInv
    BY DEF SavedInv, StreamInv, OriginInv, Streams
  <1>7. OutInv /\ WorkerInv /\ CoveredInv /\ NoStepLostInFile
    BY <1>2, <1>3 DEF OutInv, WorkerInv, CoveredInv, NoStepLostInFile, Passed, Nothing
  <1>8. SingleFileInv /\ AheadInv /\ RepeatsInv
    BY <1>3 DEF SingleFileInv, AheadInv, RepeatsInv, Owed, Streams
  <1>. QED BY <1>4, <1>5, <1>6, <1>7, <1>8 DEF IInv

(* A step that leaves the files alone keeps what is known of them.         *)
LEMMA FileLemma ==
  ASSUME IInv, UNCHANGED binlog
  PROVE  OrderInv' /\ Rows' = Rows /\ End' = End
  BY DEF IInv, OrderInv, Before, Rows, End

(* A decoder is opened: the dump begins behind what the checkpoint covers, *)
(* or at the position of the DSN, which is where the worker joined.        *)
LEMMA OpenLemma == ASSUME IInv, Open PROVE IInv'
  <1>. USE DEF serverVars, streamerVars, liveVars, streamVars, workerVars, durableVars
  <1>. DEFINE file == OrElse(AskedFile(savedFile), End.file)
              pos  == OrElse(dsn.pos, OrElse(saved, End.pos))
  <1>1. /\ phase = "closed" /\ phase' = "open" /\ source' = file /\ start' = saved /\ verify' = FALSE
        /\ StartSync(file, pos)
        /\ origin' = IF saved = 0 THEN next' ELSE origin
        /\ UNCHANGED <<binlog, dsn, checksummed, cancelled, out, worker, ranges, saved, applied, repeats, crashes, savedFile>>
    BY DEF Open, OpenLive
  <1>f. OrderInv' /\ Rows' = Rows /\ End' = End
    BY <1>1, FileLemma
  <1>n. /\ Len(binlog) \in Nat \ {0} /\ MaxFiles \in Nat /\ MaxLog \in Nat
        /\ dsn.file \in 0..MaxFiles /\ dsn.pos \in Nat
        /\ saved \in Nat /\ savedFile \in 0..MaxFiles /\ origin \in 1..(Len(binlog) + 1)
        /\ Rows \subseteq 1..Len(binlog) /\ applied \subseteq Rows
    BY Facts
  <1>r. \A i \in 1..Len(binlog) :
          /\ binlog[i].file \in Nat /\ binlog[i].pos \in Nat
          /\ 1 <= binlog[i].file /\ binlog[i].file <= MaxFiles
          /\ 2 <= binlog[i].pos /\ binlog[i].pos <= MaxLog + 1
    BY Facts
  <1>e. Len(binlog) \in 1..Len(binlog) /\ End.file \in 1..MaxFiles /\ End.file \in Nat /\ End.pos \in Nat
    <2>1. Len(binlog) \in 1..Len(binlog) /\ End = binlog[Len(binlog)]
      BY <1>n DEF End
    <2>. QED BY <1>n, <1>r, <2>1
  <1>2. /\ file \in 1..MaxFiles /\ file \in Nat /\ pos \in Nat
        /\ saved > 0 => file = savedFile
        /\ dsn.file # 0 => file = dsn.file
        /\ dsn.pos # 0 => pos = dsn.pos
        /\ dsn.pos = 0 /\ saved > 0 => pos = saved
        /\ dsn.pos = 0 /\ saved = 0 => pos = End.pos
    BY <1>e, <1>n, <1>r DEF IInv, SavedInv, OrElse, AskedFile
  <1>. HIDE DEF file, pos
  <1>3. /\ refused' = ~CanDump(file, pos) /\ next' = Cardinality(RecordsUpTo(file, pos)) + 1
        /\ prologue' = Prologue(pos) /\ reconnects' = reconnects
    BY <1>1 DEF StartSync
  <1>4. /\ next' \in 1..(Len(binlog) + 1)
        /\ \A i \in 1..Len(binlog) :
             i < next' <=> (binlog[i].file < file \/ (binlog[i].file = file /\ binlog[i].pos <= pos))
    <2>1. /\ Cardinality(RecordsUpTo(file, pos)) \in 0..Len(binlog)
          /\ RecordsUpTo(file, pos) = 1..Cardinality(RecordsUpTo(file, pos))
      BY <1>2, DumpLemma
    <2>2. DOMAIN binlog = 1..Len(binlog)
      BY Facts
    <2>3. \A i \in 1..Len(binlog) : i \in RecordsUpTo(file, pos) <=>
             (binlog[i].file < file \/ (binlog[i].file = file /\ binlog[i].pos <= pos))
      BY <2>2 DEF RecordsUpTo
    <2>4. PICK k \in 0..Len(binlog) : k = Cardinality(RecordsUpTo(file, pos)) /\ RecordsUpTo(file, pos) = 1..k
      BY <2>1
    <2>5. next' = k + 1
      BY <1>3, <2>4
    <2>6. \A i \in 1..Len(binlog) : i < next' <=> i \in RecordsUpTo(file, pos)
      <3>1. \A i \in 1..Len(binlog) : i < k + 1 <=> i \in 1..k
        BY <1>n, <2>4
      <3>. QED BY <2>4, <2>5, <3>1, Zenon
    <2>7. next' \in 1..(Len(binlog) + 1)
      BY <2>5, <1>n
    <2>. QED BY <2>3, <2>6, <2>7
  <1>5. ~refused' => /\ file <= End.file
                     /\ pos = 1 \/ \E r \in 1..Len(binlog) : binlog[r].file = file /\ binlog[r].pos = pos
    <2>1. DOMAIN binlog = 1..Len(binlog)
      BY Facts
    <2>. QED BY <1>3, <2>1, EndLemma DEF CanDump
  <1>6. out = Nothing /\ worker = "idle"
    BY <1>1 DEF IInv, OutInv, WorkerInv, TypeOK, WorkerTypeOK, Nothing
  <1>7. saved <= MaxLog + 1
    <2>1. CASE saved > 0
      <3>1. PICK r \in 1..Len(binlog) : binlog[r].pos = saved
        BY <2>1 DEF IInv, SavedInv
      <3>. QED BY <3>1, <1>n, <1>r
    <2>. QED BY <2>1, <1>n, <1>r
  <1>8. TypeOK'
    <2>1. prologue' \in {<<>>, <<"rotate">>, <<"fde">>, <<"rotate", "fde">>}
      BY <1>3, PrologueTypes DEF Prologues
    <2>2. start' \in 0..(MaxLog + 1) /\ source' \in 1..MaxFiles
      BY <1>1, <1>2, <1>7, <1>n, <1>r
    <2>3. refused' \in BOOLEAN /\ verify' \in BOOLEAN
      BY <1>1, <1>3
    <2>4. LiveTypeOK'
      BY <1>1, <1>3, <1>4, <2>1, <2>2, <2>3 DEF IInv, TypeOK, LiveTypeOK
    <2>5. origin' \in 1..(Len(binlog') + 1)
      BY <1>1, <1>4, <1>n, <1>r
    <2>. QED BY <1>1, <2>4, <2>5 DEF IInv, TypeOK, WorkerTypeOK, StreamTypeOK, Phases
  <1>9. SavedInv'
    BY <1>1, <1>2, <1>n, <1>r DEF IInv, SavedInv
  <1>10. \A i \in 1..Len(binlog) : i >= next' =>
            binlog[i].file > file \/ (binlog[i].file = file /\ binlog[i].pos > dsn.pos)
    <2>. SUFFICES ASSUME NEW i \in 1..Len(binlog), i >= next'
         PROVE  binlog[i].file > file \/ (binlog[i].file = file /\ binlog[i].pos > dsn.pos)
      OBVIOUS
    <2>1. ~(binlog[i].file < file \/ (binlog[i].file = file /\ binlog[i].pos <= pos))
      BY <1>4, <1>n, <1>r
    <2>2. binlog[i].file \in Nat /\ binlog[i].pos \in Nat /\ binlog[i].pos >= 2
      BY <1>n, <1>r
    <2>. QED BY <1>2, <2>1, <2>2, <1>n, <1>r
  <1>11. StreamInv'
    <2>. SUFFICES ASSUME ~refused' PROVE StreamInv'
      BY DEF StreamInv, Streams
    <2>1. dsn.pos > 1 => \E r \in 1..Len(binlog) : binlog[r].file = file /\ binlog[r].pos = dsn.pos
      BY <1>2, <1>5, <1>n, <1>r
    <2>2. \A i \in next'..Len(binlog) : i \in 1..Len(binlog) /\ i >= next'
      BY <1>4, <1>n, <1>r
    <2>. QED BY <1>1, <1>f, <1>5, <1>10, <2>1, <2>2 DEF StreamInv
  <1>12. OriginInv'
    <2>1. CASE saved > 0
      BY <1>1, <2>1 DEF IInv, OriginInv
    <2>2. CASE saved = 0
      <3>1. origin' = next' /\ saved' = 0 /\ source' = file
        BY <1>1, <2>2
      <3>2. Streams' => (dsn.pos > 1 => \E r \in 1..Len(binlog) : binlog[r].file = file /\ binlog[r].pos = dsn.pos)
        BY <1>2, <1>5, <1>n, <1>r DEF Streams
      <3>3. \A i \in next'..Len(binlog) : binlog[i].file = file => binlog[i].pos > dsn.pos
        <4>. SUFFICES ASSUME NEW i \in next'..Len(binlog), binlog[i].file = file PROVE binlog[i].pos > dsn.pos
          OBVIOUS
        <4>1. i \in 1..Len(binlog) /\ i >= next'
          BY <1>4, <1>n, <1>r
        <4>. QED BY <1>2, <1>10, <4>1
      <3>. QED BY <1>1, <3>1, <3>2, <3>3 DEF OriginInv
    <2>. QED BY <2>1, <2>2, <1>n, <1>r
  <1>13. OutInv' /\ WorkerInv'
    BY <1>1, <1>6, <1>f DEF IInv, OutInv, WorkerInv, Nothing
  <1>14. CoveredInv'
    BY <1>1, <1>f DEF IInv, CoveredInv
  <1>15. NoStepLostInFile'
    <2>. SUFFICES ASSUME NEW i \in origin'..(next' - 1), binlog[i].kind = "rows", binlog[i].file = file
         PROVE  i \in applied
      BY <1>1 DEF NoStepLostInFile, Passed
    <2>0. next' \in Nat /\ origin' \in Nat /\ i \in Int /\ origin' <= i /\ i < next' /\ next' <= Len(binlog) + 1
      <3>1. next' \in Nat /\ next' <= Len(binlog) + 1
        BY <1>4, <1>n
      <3>2. origin' \in Nat
        BY <1>1, <3>1, <1>n
      <3>3. ASSUME NEW a \in Nat, NEW b \in Nat, NEW k \in a..(b - 1) PROVE k \in Int /\ a <= k /\ k < b
        OBVIOUS
      <3>4. i \in Int /\ origin' <= i /\ i < next'
        BY <3>1, <3>2, <3>3
      <3>. QED BY <3>1, <3>2, <3>4
    <2>1. saved > 0 /\ origin' = origin
      BY <1>1, <2>0, <1>n
    <2>2. i \in 1..Len(binlog) /\ i >= origin /\ i < next' /\ i \in Rows
      BY <2>0, <2>1, <1>n DEF Rows
    <2>3. binlog[i].pos <= pos
      BY <1>2, <1>4, <2>2, <1>n, <1>r
    <2>4. dsn.pos = 0
      <3>1. binlog[i].pos > dsn.pos
        BY <1>2, <2>1, <2>2, <1>n, <1>r DEF IInv, OriginInv
      <3>2. binlog[i].pos \in Nat
        BY <2>2, <1>n, <1>r
      <3>. QED BY <1>2, <2>3, <3>1, <3>2, <1>n, <1>r
    <2>. QED BY <1>2, <2>1, <2>2, <2>3, <2>4 DEF IInv, CoveredInv
  <1>16. SingleFileInv'
    <2>. SUFFICES ASSUME End.file = 1, ~refused'
         PROVE  /\ Resumable => \A j \in Rows : j < next' => binlog[j].pos <= saved \/ binlog[j].pos <= dsn.pos
                /\ ~Resumable => \A i \in applied : i < next'
      BY <1>1, <1>6, <1>f DEF SingleFileInv, Streams, Resumable, Nothing
    <2>1. file = 1
      BY <1>2, <1>5
    <2>2. \A j \in 1..Len(binlog) : binlog[j].file = 1 /\ binlog[j].pos <= End.pos
      <3>. SUFFICES ASSUME NEW j \in 1..Len(binlog) PROVE binlog[j].file = 1 /\ binlog[j].pos <= End.pos
        OBVIOUS
      <3>1. binlog[j].file <= 1 /\ binlog[j].file \in Nat /\ binlog[j].file >= 1
        BY EndLemma, <1>n, <1>r
      <3>. QED BY <3>1, EndLemma
    <2>3. \A j \in 1..Len(binlog) : j < next' <=> binlog[j].pos <= pos
      BY <1>4, <2>1, <2>2
    <2>. QED BY <1>2, <2>2, <2>3, <1>n, <1>r DEF Resumable
  <1>17. AheadInv' /\ RepeatsInv'
    BY <1>1, <1>f DEF IInv, AheadInv, RepeatsInv, Owed, Resumable
  <1>. QED BY <1>f, <1>8, <1>9, <1>11, <1>12, <1>13, <1>14, <1>15, <1>16, <1>17 DEF IInv

(***************************************************************************)
(* One turn of Events() has one of five effects.                           *)
(***************************************************************************)

(* An artificial event is dropped by the filter or handed over.            *)
Announces ==
  /\ ~refused /\ next' = next
  /\ UNCHANGED streamVars \/ Yield("info", 0, 0)

(* A record at or before the start position is dropped.                    *)
Drops ==
  /\ ~refused /\ next <= Len(binlog) /\ next' = next + 1
  /\ start > 0 /\ binlog[next].pos <= start
  /\ UNCHANGED streamVars

(* A record is handed over, a rows event as a step.                        *)
Delivers ==
  /\ ~refused /\ next <= Len(binlog) /\ next' = next + 1
  /\ start > 0 => binlog[next].pos > start
  /\ \E kind \in {"step", "info"} :
       /\ Yield(kind, binlog[next].pos, next)
       /\ kind = "step" <=> binlog[next].kind = "rows"

(* An error is handed over, with its record taken or not.                  *)
Fails ==
  /\ next' = next \/ (next <= Len(binlog) /\ next' = next + 1)
  /\ YieldError

Ends == next' = next /\ Return

LEMMA EffectLemma ==
  ASSUME IInv, Decode \/ Lose
  PROVE  /\ phase = "decoding"
         /\ Announces \/ Drops \/ Delivers \/ Fails \/ Ends
         /\ prologue' \in Prologues /\ verify' \in BOOLEAN
         /\ UNCHANGED <<serverVars, refused, reconnects, source, start, cancelled, workerVars, savedFile, origin>>
  <1>. USE DEF serverVars, streamerVars, liveVars, streamVars, workerVars, durableVars
  <1>t. prologue \in Prologues /\ verify \in BOOLEAN /\ next \in Nat /\ start \in Nat
    BY Facts DEF IInv, TypeOK, LiveTypeOK, Prologues
  <1>r. next <= Len(binlog) => binlog[next].pos \in Nat
    <2>1. next <= Len(binlog) => next \in 1..Len(binlog)
      BY Facts
    <2>. QED BY <2>1, Facts
  <1>a. ASSUME TakeArtificial
        PROVE  /\ phase = "decoding" /\ ~refused /\ prologue' \in Prologues /\ next' = next
               /\ UNCHANGED <<binlog, dsn, checksummed, refused, reconnects, source, start, cancelled>>
    BY <1>a, <1>t, PrologueTypes DEF TakeArtificial
  <1>b. ASSUME TakeRecord
        PROVE  /\ phase = "decoding" /\ ~refused /\ prologue' \in Prologues
               /\ next <= Len(binlog) /\ next' = next + 1
               /\ UNCHANGED <<binlog, dsn, checksummed, refused, reconnects, source, start, cancelled>>
    BY <1>b DEF TakeRecord, Prologues
  <1>0. UNCHANGED <<workerVars, savedFile, origin>>
    BY DEF Decode, Lose
  <1>v. \A kind : Describe(kind) => verify' \in BOOLEAN
    BY <1>t DEF Describe
  <1>1. CASE DecodeArtificial
    <2>1. Announces
      BY <1>1, <1>a DEF DecodeArtificial, Announces
    <2>. QED BY <1>0, <1>1, <1>a, <1>v, <2>1 DEF DecodeArtificial
  <1>2. CASE DecodeRecord
    <2>1. Drops \/ Delivers
      <3>1. CASE Filtered(binlog[next].pos)
        BY <1>2, <1>b, <3>1 DEF DecodeRecord, Filtered, Drops
      <3>2. CASE ~Filtered(binlog[next].pos)
        <4>1. start > 0 => binlog[next].pos > start
          BY <1>2, <1>b, <1>r, <1>t, <3>2 DEF DecodeRecord, Filtered
        <4>2. Yield(IF binlog[next].kind = "rows" THEN "step" ELSE "info", binlog[next].pos, next)
          BY <1>2, <3>2 DEF DecodeRecord
        <4>. QED BY <1>2, <1>b, <4>1, <4>2 DEF DecodeRecord, Delivers
      <3>. QED BY <3>1, <3>2
    <2>. QED BY <1>0, <1>2, <1>b, <1>v, <2>1 DEF DecodeRecord
  <1>3. CASE FailDecode
    <2>1. TakeArtificial \/ TakeRecord
      BY <1>3 DEF FailDecode
    <2>2. YieldError /\ verify' = verify
      BY <1>3 DEF FailDecode
    <2>3. Fails
      BY <1>a, <1>b, <2>1, <2>2 DEF Fails
    <2>. QED BY <1>0, <1>t, <1>a, <1>b, <2>1, <2>2, <2>3
  <1>4. CASE FailStream \/ EndCancelled
    <2>1. /\ phase = "decoding"
          /\ YieldError \/ Return
          /\ UNCHANGED <<serverVars, streamerVars, liveVars>>
      BY <1>4 DEF FailStream, EndCancelled
    <2>. QED BY <1>0, <1>t, <2>1 DEF Fails, Ends
  <1>. QED BY <1>1, <1>2, <1>3, <1>4 DEF Decode, Lose, LiveStep, RefuseStream, LoseStream

LEMMA DecodeLemma == ASSUME IInv, Decode \/ Lose PROVE IInv'
  <1>. USE DEF serverVars, streamVars, workerVars, durableVars
  <1>0. /\ phase = "decoding"
        /\ Announces \/ Drops \/ Delivers \/ Fails \/ Ends
        /\ prologue' \in Prologues /\ verify' \in BOOLEAN
        /\ UNCHANGED <<binlog, dsn, checksummed, refused, reconnects, source, start, cancelled, worker, ranges, saved,
                       applied, repeats, crashes, savedFile, origin>>
    BY EffectLemma
  <1>f. OrderInv' /\ Rows' = Rows /\ End' = End
    BY <1>0, FileLemma
  <1>n. /\ Len(binlog) \in Nat \ {0} /\ next \in 1..(Len(binlog) + 1) /\ next \in Nat /\ start \in Nat /\ saved \in Nat
        /\ origin \in Nat /\ dsn.pos \in Nat /\ Rows \subseteq 1..Len(binlog) /\ applied \subseteq Rows
    BY Facts
  <1>r. \A i \in 1..Len(binlog) : binlog[i].file \in Nat /\ binlog[i].pos \in Nat
    BY Facts
  <1>1. out = Nothing /\ worker = "idle" /\ InHand = 0
    BY <1>0 DEF IInv, OutInv, WorkerInv, TypeOK, WorkerTypeOK, Nothing, InHand
  <1>2. /\ phase' \in {"decoding", "yielding", "done"} /\ out' \in Outputs
        /\ next' \in 1..(Len(binlog) + 1) /\ next' \in Nat /\ next' >= next
    <2>1. next <= Len(binlog) => binlog[next].pos \in Nat /\ next \in Nat
      BY <1>n, <1>r
    <2>2. next' \in 1..(Len(binlog) + 1) /\ next' >= next
      BY <1>0, <1>n DEF Announces, Drops, Delivers, Fails, Ends
    <2>3. phase' \in {"decoding", "yielding", "done"} /\ out' \in Outputs
      BY <1>0, <1>1, <2>1, OutputTypes DEF Announces, Drops, Delivers, Fails, Ends, Yield, YieldError, Return
    <2>. QED BY <2>2, <2>3, <1>n
  <1>3. TypeOK'
    <2>1. source \in 1..MaxFiles
      BY <1>0, Facts
    <2>2. LiveTypeOK'
      BY <1>0, <1>2, <2>1 DEF IInv, TypeOK, LiveTypeOK, Prologues
    <2>. QED BY <1>0, <1>2, <2>2 DEF IInv, TypeOK, WorkerTypeOK, StreamTypeOK, Phases
  <1>4. SavedInv' /\ CoveredInv' /\ AheadInv' /\ RepeatsInv'
    BY <1>0, <1>2, <1>f DEF IInv, SavedInv, CoveredInv, AheadInv, RepeatsInv, Owed, Resumable
  <1>5. StreamInv' /\ OriginInv'
    <2>1. \A i : i \in next'..Len(binlog) => i \in next..Len(binlog)
      BY <1>2, <1>n
    <2>2. StreamInv'
      BY <1>0, <1>2, <1>f, <2>1 DEF IInv, StreamInv, Streams
    <2>3. Streams' => Streams
      BY <1>0 DEF Streams
    <2>4. OriginInv'
      BY <1>0, <2>3 DEF IInv, OriginInv
    <2>. QED BY <2>2, <2>4
  <1>6. WorkerInv'
    BY <1>0, <1>1, <1>f DEF IInv, WorkerInv
  (* What the loop is done with: as before, and the record of this turn unless it is in hand. *)
  <1>7. ASSUME NEW i \in Rows, i < next', i # InHand' PROVE i < next \/ (i = next /\ Drops)
    <2>1. i \in Nat
      BY <1>n
    <2>2. next' = next \/ (next' = next + 1 /\ next <= Len(binlog))
      BY <1>0 DEF Announces, Drops, Delivers, Fails, Ends
    <2>3. next' = next + 1 => Drops \/ InHand' = next
      <3>. SUFFICES ASSUME next' = next + 1, ~Drops PROVE InHand' = next
        OBVIOUS
      <3>1. CASE Delivers
        BY <3>1 DEF Delivers, Yield, InHand
      <3>2. CASE Fails
        BY <3>2, <1>n DEF Fails, YieldError, InHand
      <3>3. ~Announces /\ ~Ends
        BY <1>n DEF Announces, Ends
      <3>. QED BY <1>0, <3>1, <3>2, <3>3
    <2>. QED BY <1>7, <1>n, <2>1, <2>2, <2>3
  <1>8. NoStepLostInFile'
    <2>. SUFFICES ASSUME NEW i \in Nat, origin <= i, i < next', i \in Rows, i # InHand', binlog[i].file = source
         PROVE  i \in applied
      <3>1. \A i \in origin'..(next' - 1) : i \in Nat /\ origin <= i /\ i < next' /\ i \in 1..Len(binlog)
        <4>1. \A i : i \in origin..(next' - 1) <=> i \in Nat /\ origin <= i /\ i < next'
          BY <1>n, <1>2, IntervalLemma
        <4>2. origin..(next' - 1) \subseteq 1..Len(binlog)
          <5>1. 0 < origin /\ next' <= Len(binlog) + 1
            BY <1>2, <1>n, Facts
          <5>. QED BY <5>1, <1>n, <1>2, IntervalLemma
        <4>3. origin' = origin
          BY <1>0
        <4>. QED BY <4>1, <4>2, <4>3, Zenon
      <3>. QED BY <1>0, <3>1 DEF NoStepLostInFile, Passed, Rows
    <2>1. CASE i < next
      <3>1. i \in origin..(next - 1) /\ i # InHand /\ binlog[i].kind = "rows"
        BY <1>1, <1>n, <2>1 DEF Rows
      <3>. QED BY <3>1 DEF IInv, NoStepLostInFile, Passed
    <2>2. CASE i = next /\ Drops
      <3>1. saved > 0 /\ binlog[i].pos <= start /\ start <= saved /\ source = savedFile
        BY <1>0, <1>n, <2>2 DEF IInv, SavedInv, Drops
      <3>2. binlog[i].pos <= saved
        BY <1>n, <1>r, <3>1
      <3>. QED BY <3>1, <3>2 DEF IInv, CoveredInv
    <2>. QED BY <1>7, <2>1, <2>2
  <1>9. OutInv'
    <2>1. CASE Delivers
      <3>1. PICK kind \in {"step", "info"} : /\ Yield(kind, binlog[next].pos, next)
                                             /\ kind = "step" <=> binlog[next].kind = "rows"
        BY <2>1 DEF Delivers
      <3>2. /\ phase' = "yielding" /\ out'.kind = kind /\ out'.pos = binlog[next].pos /\ out'.rec = next
            /\ next' - 1 = next /\ next < next' /\ next \in 1..Len(binlog) /\ ~refused
        BY <1>n, <2>1, <3>1 DEF Delivers, Yield
      <3>3. kind = "step" <=> next \in Rows
        BY <3>1, <3>2 DEF Rows
      <3>4. binlog[next].pos > start
        <4>1. 2 <= binlog[next].pos /\ binlog[next].pos \in Nat
          BY <3>2, Facts
        <4>. QED BY <1>n, <2>1, <4>1 DEF Delivers
      <3>5. binlog[next].file > source \/ (binlog[next].file = source /\ binlog[next].pos > dsn.pos)
        <4>1. next \in next..Len(binlog)
          BY <1>n, <3>2
        <4>. QED BY <1>0, <3>2, <4>1 DEF IInv, StreamInv, Streams
      <3>. QED BY <1>0, <1>f, <3>2, <3>3, <3>4, <3>5 DEF OutInv
    <2>2. CASE Announces
      <3>1. 0 \notin Rows /\ 0 < next'
        BY <1>n, <1>2
      <3>. QED BY <1>0, <1>1, <1>f, <2>2, <3>1 DEF Announces, Yield, OutInv, Nothing
    <2>3. CASE Drops \/ Fails \/ Ends
      BY <1>0, <1>1, <2>3 DEF Drops, Fails, Ends, YieldError, Return, OutInv, Nothing
    <2>. QED BY <1>0, <2>1, <2>2, <2>3
  <1>10. SingleFileInv'
    <2>. SUFFICES ASSUME End.file = 1, Streams
         PROVE  /\ saved = start \/ \E r \in 1..(next' - 1) :
                                      binlog[r].pos = saved /\ ~(out'.kind = "step" /\ r = out'.rec)
                /\ Resumable => \A j \in Rows : j < next' /\ j # InHand' =>
                                   binlog[j].pos <= saved \/ binlog[j].pos <= dsn.pos
                /\ ~Resumable => \A i \in applied : i < next' /\ ~(out'.kind = "step" /\ i = out'.rec)
      <3>1. (End'.file = 1 /\ Streams') => End.file = 1 /\ Streams
        BY <1>0, <1>f DEF Streams
      <3>. QED BY <1>0, <1>f, <3>1 DEF SingleFileInv, Resumable
    <2>s. out'.kind = "step" => out'.rec = next
      BY <1>0, <1>1 DEF Announces, Drops, Delivers, Fails, Ends, Yield, YieldError, Return, Nothing
    <2>i. /\ saved = start \/ \E r \in 1..(next - 1) : binlog[r].pos = saved
          /\ Resumable => \A j \in Rows : j < next /\ j # 0 => binlog[j].pos <= saved \/ binlog[j].pos <= dsn.pos
          /\ ~Resumable => \A i \in applied : i < next
      BY <1>1 DEF IInv, SingleFileInv
    <2>1. saved = start \/ \E r \in 1..(next' - 1) : binlog[r].pos = saved /\ ~(out'.kind = "step" /\ r = out'.rec)
      <3>1. \A r : r \in 1..(next - 1) => r \in 1..(next' - 1)
        <4>1. next <= next' /\ 1 \in Nat
          BY <1>2, <1>n
        <4>2. 1..(next - 1) \subseteq 1..(next' - 1)
          BY <1>2, <1>n, <4>1, IntervalLemma
        <4>. QED BY <4>2, Zenon
      <3>2. \A r : r \in 1..(next - 1) => r # next
        BY <1>n
      <3>. QED BY <2>i, <2>s, <3>1, <3>2, Zenon
    <2>2. ASSUME Resumable, NEW j \in Rows, j < next', j # InHand'
          PROVE  binlog[j].pos <= saved \/ binlog[j].pos <= dsn.pos
      <3>1. CASE j < next
        BY <1>n, <2>2, <2>i, <3>1
      <3>2. CASE j = next /\ Drops
        <4>1. binlog[j].pos <= start /\ start <= saved
          BY <1>0, <3>2 DEF IInv, SavedInv, Drops
        <4>. QED BY <1>n, <1>r, <4>1
      <3>. QED BY <1>7, <2>2, <3>1, <3>2
    <2>3. ASSUME ~Resumable, NEW i \in applied PROVE i < next' /\ ~(out'.kind = "step" /\ i = out'.rec)
      <3>1. i < next /\ i \in Nat
        BY <2>3, <2>i, <1>n
      <3>. QED BY <1>2, <1>n, <2>s, <3>1
    <2>. QED BY <2>1, <2>2, <2>3
  <1>. QED BY <1>f, <1>3, <1>4, <1>5, <1>6, <1>8, <1>9, <1>10 DEF IInv

(* A loop begins, the streamer reconnects or the context is cancelled: the *)
(* record that comes next stays the same.                                  *)
LEMMA QuietLemma == ASSUME IInv, RangeOver \/ CancelContext \/ (Reconnect /\ Server) PROVE IInv'
  <1>. USE DEF serverVars, streamerVars, liveVars, streamVars, workerVars, durableVars
  <1>0. /\ UNCHANGED <<binlog, dsn, checksummed, next, refused, source, start, verify, out, worker, saved, applied,
                       repeats, crashes, savedFile, origin>>
        /\ phase # "closed" /\ phase' # "closed" /\ phase' \in Phases
        /\ phase = "yielding" <=> phase' = "yielding"
        /\ prologue' \in Prologues /\ cancelled' \in BOOLEAN
        /\ reconnects' \in 0..MaxReconnects /\ ranges' \in Nat
    <2>1. phase \in Phases /\ prologue \in Prologues /\ cancelled \in BOOLEAN /\ reconnects \in 0..MaxReconnects
          /\ ranges \in Nat /\ MaxReconnects \in Nat
      BY ConstantsAssumption DEF IInv, TypeOK, LiveTypeOK, WorkerTypeOK, StreamTypeOK, Prologues
    <2>2. CASE RangeOver
      BY <2>1, <2>2 DEF RangeOver, BeginLoop, RangeAgain, Phases
    <2>3. CASE CancelContext
      BY <2>1, <2>3 DEF CancelContext, Cancel
    <2>4. CASE Reconnect /\ Server
      <3>1. prologue' \in Prologues
        BY <2>4, PrologueTypes DEF Reconnect
      <3>2. UNCHANGED <<workerVars, savedFile, origin>>
        BY <2>4 DEF Server
      <3>. QED BY <2>1, <2>4, <3>1, <3>2 DEF Reconnect
    <2>. QED BY <2>2, <2>3, <2>4
  <1>f. OrderInv' /\ Rows' = Rows /\ End' = End
    BY <1>0, FileLemma
  <1>1. TypeOK'
    <2>1. LiveTypeOK'
      BY <1>0 DEF IInv, TypeOK, LiveTypeOK, Prologues
    <2>. QED BY <1>0, <2>1 DEF IInv, TypeOK, WorkerTypeOK, StreamTypeOK
  <1>2. SavedInv' /\ StreamInv' /\ OriginInv'
    BY <1>0, <1>f DEF IInv, SavedInv, StreamInv, OriginInv, Streams
  <1>3. OutInv' /\ WorkerInv' /\ CoveredInv'
    BY <1>0, <1>f DEF IInv, OutInv, WorkerInv, CoveredInv
  <1>4. NoStepLostInFile'
    BY <1>0 DEF IInv, NoStepLostInFile, Passed, InHand
  <1>5. SingleFileInv' /\ AheadInv' /\ RepeatsInv'
    BY <1>0, <1>f DEF IInv, SingleFileInv, AheadInv, RepeatsInv, Owed, Resumable, Streams, InHand
  <1>. QED BY <1>f, <1>1, <1>2, <1>3, <1>4, <1>5 DEF IInv

(* The process leaves between two steps, or crashes anywhere.              *)
LEMMA DieLemma == ASSUME IInv, Stop \/ Fail PROVE IInv'
  <1>. USE DEF serverVars, streamerVars, liveVars, streamVars, workerVars, durableVars
  <1>0. /\ phase' = "closed" /\ out' = Nothing /\ worker' = "idle" /\ ranges' = 0
        /\ next' = 1 /\ prologue' = <<>> /\ refused' = FALSE /\ source' = 0 /\ start' = 0 /\ verify' = FALSE
        /\ cancelled' = FALSE
        /\ UNCHANGED <<binlog, dsn, checksummed, reconnects, savedFile, origin, saved, applied, repeats>>
    BY DEF Stop, Fail, PanicOnError, Leave, Crash, Die, Disconnect
  <1>f. OrderInv' /\ Rows' = Rows /\ End' = End
    BY <1>0, FileLemma
  <1>n. Len(binlog) \in Nat \ {0} /\ crashes \in Nat /\ repeats \in Nat /\ saved \in Nat /\ origin \in Nat /\ origin > 0
    BY Facts
  <1>1. (crashes' = crashes /\ worker = "idle") \/ crashes' = crashes + 1
    <2>1. Stop => worker # "replayed"
      BY DEF Stop, PanicOnError, Leave, IInv, WorkerInv, OutInv, Nothing
    <2>. QED BY <2>1 DEF Stop, PanicOnError, Leave, Fail, Crash, IInv, TypeOK, WorkerTypeOK
  <1>2. TypeOK'
    <2>1. crashes' \in Nat /\ next' \in 1..(Len(binlog) + 1) /\ start' \in 0..(MaxLog + 1) /\ ranges' \in Nat
      BY <1>0, <1>1, <1>n, ConstantsAssumption
    <2>2. refused' \in BOOLEAN /\ verify' \in BOOLEAN /\ cancelled' \in BOOLEAN
      BY <1>0
    <2>3. LiveTypeOK'
      BY <1>0, <2>1, <2>2 DEF IInv, TypeOK, LiveTypeOK
    <2>. QED BY <1>0, <2>1, <2>3, OutputTypes DEF IInv, TypeOK, WorkerTypeOK, StreamTypeOK, Phases
  <1>3. SavedInv' /\ StreamInv' /\ OriginInv' /\ CoveredInv' /\ SingleFileInv'
    BY <1>0, <1>f DEF IInv, SavedInv, StreamInv, OriginInv, CoveredInv, SingleFileInv, Streams
  <1>4. OutInv' /\ WorkerInv'
    BY <1>0, <1>f DEF IInv, OutInv, WorkerInv, Nothing
  <1>5. NoStepLostInFile'
    <2>1. origin'..(next' - 1) = {}
      BY <1>0, <1>n
    <2>. QED BY <2>1 DEF NoStepLostInFile, Passed
  <1>6. AheadInv' /\ RepeatsInv'
    BY <1>0, <1>1, <1>f, <1>n DEF IInv, AheadInv, RepeatsInv, Owed, Resumable
  <1>. QED BY <1>f, <1>2, <1>3, <1>4, <1>5, <1>6 DEF IInv

(* While there is one file, positions and records are in the same order.   *)
LEMMA OneFileLemma ==
  ASSUME IInv, End.file = 1
  PROVE  \A i, j \in 1..Len(binlog) : i < j <=> binlog[i].pos < binlog[j].pos
  <1>1. \A i \in 1..Len(binlog) : binlog[i].file = 1 /\ binlog[i].pos \in Nat
    <2>. SUFFICES ASSUME NEW i \in 1..Len(binlog) PROVE binlog[i].file = 1 /\ binlog[i].pos \in Nat
      OBVIOUS
    <2>1. binlog[i].file <= 1 /\ binlog[i].file \in Nat /\ binlog[i].file >= 1 /\ binlog[i].pos \in Nat
      BY EndLemma, Facts
    <2>. QED BY <2>1
  <1>2. \A i, j \in 1..Len(binlog) : i < j => binlog[i].pos < binlog[j].pos
    BY <1>1 DEF IInv, OrderInv, Before
  <1>. QED
    <2>. SUFFICES ASSUME NEW i \in 1..Len(binlog), NEW j \in 1..Len(binlog)
         PROVE  i < j <=> binlog[i].pos < binlog[j].pos
      OBVIOUS
    <2>1. i \in Nat /\ j \in Nat /\ (i < j \/ i = j \/ j < i)
      BY Facts
    <2>. QED BY <1>1, <1>2, <2>1

LEMMA PassOverLemma == ASSUME IInv, Consume, PassOver PROVE IInv'
  <1>. USE DEF serverVars, streamerVars, liveVars, streamVars, workerVars, durableVars
  <1>0. /\ phase = "yielding" /\ out.kind = "info" /\ phase' = "decoding" /\ out' = Nothing
        /\ UNCHANGED <<binlog, dsn, checksummed, next, prologue, refused, reconnects, source, start, verify, cancelled,
                       worker, ranges, saved, applied, repeats, crashes, origin>>
    BY DEF Consume, PassOver, Continue
  <1>s. savedFile' = savedFile
    BY <1>0 DEF Consume, SaveCheckpoint, IInv, WorkerInv
  <1>f. OrderInv' /\ Rows' = Rows /\ End' = End
    BY <1>0, FileLemma
  <1>1. out.rec \notin Rows /\ InHand = out.rec /\ InHand' = 0 /\ worker # "replayed" /\ ~refused
    BY <1>0 DEF IInv, OutInv, WorkerInv, InHand, Nothing
  <1>2. TypeOK'
    <2>1. LiveTypeOK'
      BY <1>0 DEF IInv, TypeOK, LiveTypeOK
    <2>. QED BY <1>0, <1>s, <2>1, OutputTypes DEF IInv, TypeOK, WorkerTypeOK, StreamTypeOK, Phases
  <1>3. SavedInv' /\ StreamInv' /\ OriginInv' /\ CoveredInv' /\ OutInv' /\ WorkerInv'
    BY <1>0, <1>1, <1>s, <1>f DEF IInv, SavedInv, StreamInv, OriginInv, CoveredInv, OutInv, WorkerInv, Streams, Nothing
  <1>4. NoStepLostInFile'
    <2>1. \A i \in Rows : i # InHand
      BY <1>1
    <2>2. \A i \in origin..(next - 1) : i \in 1..Len(binlog)
      <3>1. 0 < origin /\ next <= Len(binlog) + 1 /\ origin \in Nat /\ next \in Nat /\ Len(binlog) \in Nat
        BY Facts
      <3>. QED BY <3>1, IntervalLemma
    <2>. QED BY <1>0, <2>1, <2>2 DEF IInv, NoStepLostInFile, Passed, Rows
  <1>5. SingleFileInv' /\ AheadInv' /\ RepeatsInv'
    <2>1. out'.kind # "step" /\ \A i \in Rows : i # InHand
      BY <1>0, <1>1 DEF Nothing
    <2>. QED BY <1>0, <1>1, <1>s, <1>f, <2>1 DEF IInv, SingleFileInv, AheadInv, RepeatsInv, Owed, Resumable, Streams
  <1>. QED BY <1>f, <1>2, <1>3, <1>4, <1>5 DEF IInv

(* A step that is handed over lies behind the checkpoint and the position  *)
(* of the DSN as long as there is one file, and all steps before it do not.*)
LEMMA HandedLemma ==
  ASSUME IInv, out.kind = "step", End.file = 1
  PROVE  /\ binlog[out.rec].pos > saved /\ binlog[out.rec].pos > dsn.pos
         /\ \A j \in Rows : j < out.rec /\ Resumable => binlog[j].pos <= saved \/ binlog[j].pos <= dsn.pos
         /\ ~Resumable => \A i \in applied : i <= out.rec /\ (i = out.rec => worker = "replayed")
  <1>0. phase = "yielding"
    BY DEF IInv, OutInv, Nothing
  <1>1. /\ phase # "closed" /\ ~refused /\ out.rec = next - 1 /\ out.rec \in Rows /\ out.rec \in Nat
        /\ binlog[out.rec].pos = out.pos /\ out.pos > start /\ InHand = out.rec
        /\ binlog[out.rec].file > source \/ out.pos > dsn.pos
    BY <1>0, Facts DEF IInv, OutInv, InHand, Nothing
  <1>2. out.rec \in 1..Len(binlog) /\ next \in Nat /\ start \in Nat /\ saved \in Nat /\ dsn.pos \in Nat /\ out.pos \in Nat
    BY <1>1, Facts DEF Rows
  <1>3. binlog[out.rec].file = 1 /\ source >= 1 /\ source \in Nat
    <2>1. binlog[out.rec].file <= 1 /\ binlog[out.rec].file \in Nat /\ binlog[out.rec].file >= 1
      BY <1>2, EndLemma, Facts
    <2>. QED BY <1>1, <2>1, Facts
  <1>4. /\ saved = start \/ \E r \in 1..(next - 1) : binlog[r].pos = saved /\ r # out.rec
        /\ Resumable => \A j \in Rows : j < next /\ j # out.rec => binlog[j].pos <= saved \/ binlog[j].pos <= dsn.pos
        /\ ~Resumable => \A i \in applied : i < next /\ (i = out.rec => worker = "replayed")
    BY <1>1 DEF IInv, SingleFileInv, Streams
  <1>5. binlog[out.rec].pos > dsn.pos
    BY <1>1, <1>2, <1>3
  <1>6. binlog[out.rec].pos >= saved
    <2>1. ASSUME NEW r \in 1..(next - 1), binlog[r].pos = saved PROVE binlog[out.rec].pos >= saved
      <3>1. r \in 1..Len(binlog) /\ r \in Nat /\ r <= out.rec
        BY <1>1, <1>2
      <3>2. CASE r = out.rec
        BY <1>2, <2>1, <3>2
      <3>3. CASE r < out.rec
        <4>1. binlog[r].pos < binlog[out.rec].pos
          BY <1>2, <3>1, <3>3, OneFileLemma
        <4>. QED BY <1>1, <1>2, <2>1, <4>1
      <3>. QED BY <1>1, <3>1, <3>2, <3>3
    <2>. QED BY <1>1, <1>2, <1>4, <2>1
  <1>7. binlog[out.rec].pos # saved
    <2>. SUFFICES ASSUME saved # start PROVE binlog[out.rec].pos # saved
      BY <1>1, <1>2
    <2>1. PICK r \in 1..(next - 1) : binlog[r].pos = saved /\ r # out.rec
      BY <1>4
    <2>2. r \in 1..Len(binlog) /\ r \in Nat /\ r < out.rec
      BY <1>1, <1>2, <2>1
    <2>3. binlog[r].pos < binlog[out.rec].pos
      BY <1>2, <2>2, OneFileLemma
    <2>. QED BY <1>1, <1>2, <2>1, <2>3
  <1>8. binlog[out.rec].pos > saved
    BY <1>1, <1>2, <1>6, <1>7
  <1>9. Rows \subseteq Nat /\ applied \subseteq Rows /\ next = out.rec + 1
    BY <1>1, <1>2, Facts DEF Rows
  <1>10. \A k \in Nat : (k < next <=> k <= out.rec) /\ (k < out.rec => k < next /\ k # out.rec)
    BY <1>1, <1>9
  <1>. QED BY <1>4, <1>5, <1>8, <1>9, <1>10

LEMMA ReplayLemma == ASSUME IInv, Consume, Replay PROVE IInv'
  <1>. USE DEF serverVars, streamerVars, liveVars, streamVars, workerVars, durableVars
  <1>0. /\ phase = "yielding" /\ out.kind = "step" /\ worker = "idle" /\ worker' = "replayed"
        /\ applied' = applied \cup {out.rec}
        /\ repeats' = IF out.rec \in applied THEN repeats + 1 ELSE repeats
        /\ UNCHANGED <<binlog, dsn, checksummed, next, prologue, refused, reconnects, source, start, verify, cancelled,
                       phase, out, ranges, saved, crashes, origin>>
    BY DEF Consume, Replay
  <1>s. savedFile' = savedFile
    BY <1>0 DEF Consume, SaveCheckpoint
  <1>f. OrderInv' /\ Rows' = Rows /\ End' = End
    BY <1>0, FileLemma
  <1>n. repeats \in Nat /\ crashes \in Nat /\ applied \subseteq Rows /\ Rows \subseteq Nat
    BY Facts
  <1>1. out.rec \in Rows /\ out.rec = next - 1 /\ out.rec \in Nat /\ ~refused /\ next \in Nat
    BY <1>0, Facts DEF IInv, OutInv
  <1>2. TypeOK'
    <2>1. applied' \subseteq Nat /\ repeats' \in Nat
      BY <1>0, <1>n, <1>1
    <2>2. LiveTypeOK'
      BY <1>0 DEF IInv, TypeOK, LiveTypeOK
    <2>. QED BY <1>0, <1>s, <2>1, <2>2 DEF IInv, TypeOK, WorkerTypeOK, StreamTypeOK
  <1>3. SavedInv' /\ StreamInv' /\ OriginInv' /\ OutInv'
    BY <1>0, <1>s, <1>f DEF IInv, SavedInv, StreamInv, OriginInv, OutInv, Streams
  <1>4. WorkerInv' /\ CoveredInv'
    BY <1>0, <1>1, <1>s, <1>f DEF IInv, WorkerInv, CoveredInv
  <1>5. NoStepLostInFile'
    BY <1>0 DEF IInv, NoStepLostInFile, Passed, InHand
  <1>6. SingleFileInv'
    <2>1. out.rec < next
      BY <1>1
    <2>. QED BY <1>0, <1>f, <2>1 DEF IInv, SingleFileInv, Resumable, Streams, InHand
  <1>7. AheadInv'
    <2>. SUFFICES ASSUME End.file = 1, Resumable, NEW i \in applied \cup {out.rec}, binlog[i].pos > saved,
                         NEW j \in Rows, binlog[j].pos > saved, binlog[j].pos > dsn.pos
         PROVE  i <= j
      BY <1>0, <1>f DEF AheadInv, Resumable
    <2>1. CASE i \in applied
      BY <2>1 DEF IInv, AheadInv
    <2>2. CASE i = out.rec
      <3>1. ~(j < out.rec)
        <4>1. binlog[j].pos \in Nat /\ saved \in Nat /\ dsn.pos \in Nat
          BY Facts
        <4>. QED BY <1>0, <4>1, HandedLemma
      <3>. QED BY <1>1, <1>n, <2>2, <3>1
    <2>. QED BY <2>1, <2>2
  <1>8. RepeatsInv'
    <2>. SUFFICES ASSUME End.file = 1 PROVE repeats' <= crashes
      BY <1>0, <1>f DEF RepeatsInv, Owed
    <2>1. CASE out.rec \in applied
      <3>1. Resumable /\ binlog[out.rec].pos > saved
        BY <1>0, <2>1, HandedLemma
      <3>2. Owed
        BY <1>0, <2>1, <3>1 DEF Owed
      <3>. QED BY <1>0, <1>n, <2>1, <3>2 DEF IInv, RepeatsInv
    <2>2. CASE out.rec \notin applied
      BY <1>0, <2>2 DEF IInv, RepeatsInv
    <2>. QED BY <2>1, <2>2
  <1>. QED BY <1>f, <1>2, <1>3, <1>4, <1>5, <1>6, <1>7, <1>8 DEF IInv

(* The checkpoint of a step covers, in its file, no more than the steps    *)
(* up to it, and these were replayed.                                      *)
LEMMA SaveLemma == ASSUME IInv, Consume, SaveCheckpoint PROVE IInv'
  <1>. USE DEF serverVars, streamerVars, liveVars, streamVars, workerVars, durableVars
  <1>0. /\ phase = "yielding" /\ phase' \in {"decoding", "open"} /\ out' = Nothing
        /\ worker = "replayed" /\ worker' = "idle" /\ saved' = out.pos
        /\ UNCHANGED <<binlog, dsn, checksummed, next, prologue, refused, reconnects, source, start, verify, cancelled,
                       ranges, applied, repeats, crashes, origin>>
    BY DEF Consume, SaveCheckpoint, Continue, BreakOut
  <1>s. savedFile' = source
    BY <1>0 DEF Consume, PassOver, Replay, SaveCheckpoint, SaveFile, IInv, WorkerInv
  <1>f. OrderInv' /\ Rows' = Rows /\ End' = End
    BY <1>0, FileLemma
  <1>1. /\ out.kind = "step" /\ out.rec \in applied /\ out.rec \in Rows /\ out.rec = next - 1 /\ ~refused
        /\ out.pos = binlog[out.rec].pos /\ out.pos > start /\ binlog[out.rec].file >= source
        /\ InHand = out.rec /\ InHand' = 0
    <2>1. /\ out.kind = "step" /\ out.rec \in applied /\ out.rec \in Rows /\ out.rec = next - 1 /\ ~refused
          /\ out.pos = binlog[out.rec].pos /\ out.pos > start
          /\ binlog[out.rec].file > source \/ binlog[out.rec].file = source
      BY <1>0 DEF IInv, WorkerInv, OutInv
    <2>2. binlog[out.rec].file \in Nat /\ source \in Nat
      BY <2>1, Facts
    <2>. QED BY <1>0, <2>1, <2>2 DEF InHand, Nothing
  <1>n. /\ Len(binlog) \in Nat \ {0} /\ out.rec \in 1..Len(binlog) /\ next \in 1..(Len(binlog) + 1) /\ next \in Nat
        /\ out.rec \in Nat /\ out.rec < next /\ origin \in Nat /\ 0 < origin
        /\ start \in Nat /\ saved \in Nat /\ saved' \in Nat /\ saved' > 0 /\ start <= saved'
        /\ source \in 1..MaxFiles /\ source \in Nat /\ MaxFiles \in Nat /\ dsn.pos \in Nat
        /\ Rows \subseteq 1..Len(binlog) /\ Rows \subseteq Nat /\ applied \subseteq Rows
    <2>1. /\ Len(binlog) \in Nat \ {0} /\ next \in 1..(Len(binlog) + 1) /\ out.rec \in Nat /\ out.pos \in Nat
          /\ start \in Nat /\ saved \in Nat /\ source \in 1..MaxFiles /\ MaxFiles \in Nat /\ dsn.pos \in Nat
          /\ Rows \subseteq 1..Len(binlog) /\ applied \subseteq Rows /\ origin \in 1..(Len(binlog) + 1)
      BY <1>0, Facts
    <2>. QED BY <1>0, <1>1, <2>1
  <1>r. \A i \in 1..Len(binlog) : binlog[i].file \in Nat /\ binlog[i].pos \in Nat
    BY Facts
  <1>2. TypeOK'
    <2>1. LiveTypeOK'
      BY <1>0, <1>n DEF IInv, TypeOK, LiveTypeOK
    <2>2. savedFile' \in 0..MaxFiles
      BY <1>s, <1>n
    <2>. QED BY <1>0, <1>n, <2>1, <2>2, OutputTypes DEF IInv, TypeOK, WorkerTypeOK, StreamTypeOK, Phases
  <1>3. SavedInv'
    <2>1. \E r \in 1..Len(binlog) : binlog[r].pos = saved' /\ binlog[r].file >= source
      BY <1>0, <1>1, <1>n
    <2>2. dsn.file # 0 => source = dsn.file
      BY <1>0 DEF IInv, SavedInv
    <2>. QED BY <1>0, <1>s, <1>n, <2>1, <2>2 DEF SavedInv
  <1>4. StreamInv' /\ OutInv' /\ WorkerInv'
    BY <1>0, <1>1, <1>f DEF IInv, StreamInv, OutInv, WorkerInv, Streams, Nothing
  <1>5. OriginInv'
    <2>1. saved > 0 => savedFile = source
      BY <1>0 DEF IInv, SavedInv
    <2>2. Streams
      BY <1>0, <1>1 DEF Streams
    <2>3. /\ dsn.pos > 1 => \E r \in 1..Len(binlog) : binlog[r].file = source /\ binlog[r].pos = dsn.pos
          /\ \A i \in origin..Len(binlog) : binlog[i].file = source => binlog[i].pos > dsn.pos
      BY <2>1, <2>2 DEF IInv, OriginInv
    <2>. QED BY <1>0, <1>s, <1>n, <2>3 DEF OriginInv
  <1>6. ASSUME NEW i \in Rows, i >= origin, i < next, binlog[i].file = source PROVE i \in applied
    <2>1. CASE i = out.rec
      BY <1>1, <2>1
    <2>2. CASE i # out.rec
      <3>1. i \in origin..(next - 1) /\ binlog[i].kind = "rows" /\ i # InHand
        BY <1>1, <1>n, <1>6, <2>2 DEF Rows
      <3>. QED BY <1>6, <3>1 DEF IInv, NoStepLostInFile, Passed
    <2>. QED BY <2>1, <2>2
  <1>7. CoveredInv'
    <2>. SUFFICES ASSUME NEW i \in Rows, i >= origin, binlog[i].file = source, binlog[i].pos <= saved' PROVE i \in applied
      BY <1>0, <1>s, <1>f DEF CoveredInv
    <2>1. ~(out.rec < i)
      <3>. SUFFICES ASSUME out.rec < i PROVE FALSE
        OBVIOUS
      <3>1. Before(out.rec, i)
        BY <1>n DEF IInv, OrderInv
      <3>. QED BY <1>0, <1>1, <1>n, <1>r, <3>1 DEF Before
    <2>2. i < next
      BY <1>1, <1>n, <2>1
    <2>. QED BY <1>6, <2>2
  <1>8. NoStepLostInFile'
    <2>. SUFFICES ASSUME NEW i \in origin..(next - 1), binlog[i].kind = "rows", binlog[i].file = source PROVE i \in applied
      BY <1>0 DEF NoStepLostInFile, Passed
    <2>1. i \in Nat /\ origin <= i /\ i < next
      BY <1>n, IntervalLemma
    <2>2. i \in Rows
      BY <1>n, <2>1 DEF Rows
    <2>. QED BY <1>6, <2>1, <2>2
  <1>9. SingleFileInv'
    <2>. SUFFICES ASSUME End.file = 1, NEW j \in Rows, j < next
         PROVE  binlog[j].pos <= saved'
      <3>1. out.rec \in 1..(next - 1) /\ binlog[out.rec].pos = saved' /\ out'.kind # "step"
        BY <1>0, <1>1, <1>n DEF Nothing
      <3>2. Resumable'
        BY <1>n DEF Resumable
      <3>. QED BY <1>0, <1>f, <3>1, <3>2 DEF SingleFileInv
    <2>1. CASE j = out.rec
      BY <1>0, <1>1, <1>n, <1>r, <2>1
    <2>2. CASE j # out.rec
      <3>1. j < out.rec
        BY <1>1, <1>n, <2>2
      <3>2. binlog[j].pos < binlog[out.rec].pos
        BY <1>n, <3>1, OneFileLemma
      <3>. QED BY <1>0, <1>1, <1>n, <1>r, <3>2
    <2>. QED BY <2>1, <2>2
  <1>10. ASSUME End.file = 1, NEW i \in applied PROVE ~(binlog[i].pos > saved')
    <2>. SUFFICES ASSUME binlog[i].pos > binlog[out.rec].pos PROVE FALSE
      BY <1>0, <1>1
    <2>1. binlog[out.rec].pos > saved /\ binlog[out.rec].pos > dsn.pos
      BY <1>1, <1>10, HandedLemma
    <2>2. i \in 1..Len(binlog) /\ out.rec < i
      BY <1>n, <1>10, OneFileLemma
    <2>3. CASE Resumable
      <3>1. binlog[i].pos > saved
        BY <1>n, <1>r, <2>1, <2>2
      <3>2. i <= out.rec
        BY <1>1, <1>10, <2>1, <2>3, <3>1 DEF IInv, AheadInv
      <3>. QED BY <1>n, <2>2, <3>2
    <2>4. CASE ~Resumable
      <3>1. i <= out.rec
        BY <1>1, <1>10, <2>4, HandedLemma
      <3>. QED BY <1>n, <2>2, <3>1
    <2>. QED BY <2>3, <2>4
  <1>11. AheadInv' /\ RepeatsInv'
    BY <1>0, <1>f, <1>10 DEF IInv, AheadInv, RepeatsInv, Owed
  <1>. QED BY <1>f, <1>2, <1>3, <1>4, <1>5, <1>7, <1>8, <1>9, <1>11 DEF IInv

----------------------------------------------------------------------------------

(* The server only adds records, and behind those that are there.          *)
Grows ==
  /\ binlog' \in Seq(Records) /\ OrderInv'
  /\ Len(binlog) <= Len(binlog')
  /\ \A i \in 1..Len(binlog) : binlog'[i] = binlog[i]
  /\ End.file <= End'.file

(* Added records keep the order when they stand behind the end and are in  *)
(* order themselves.                                                       *)
LEMMA ExtendLemma ==
  ASSUME IInv, Len(binlog') \in Nat, Len(binlog) <= Len(binlog'), Len(binlog') <= MaxLog,
         \A i \in 1..Len(binlog) : binlog'[i] = binlog[i],
         \A i \in (Len(binlog) + 1)..Len(binlog') :
           /\ binlog'[i].pos <= i + 1
           /\ binlog'[i].file \in Nat /\ binlog'[i].pos \in Nat
           /\ binlog'[i].file > End.file \/ (binlog'[i].file = End.file /\ binlog'[i].pos > End.pos),
         \A i, j \in (Len(binlog) + 1)..Len(binlog') : i < j => Before(i, j)'
  PROVE  OrderInv'
  <1>n. Len(binlog) \in Nat \ {0} /\ MaxLog \in Nat /\ End.file \in Nat /\ End.pos \in Nat
    BY Facts, EndLemma
  <1>r. \A i \in 1..Len(binlog) : /\ binlog[i].file \in Nat /\ binlog[i].pos \in Nat
                                  /\ binlog[i].file <= End.file
                                  /\ binlog[i].file = End.file => binlog[i].pos <= End.pos
    BY Facts, EndLemma
  <1>1. \A i \in 1..Len(binlog') : i \in 1..Len(binlog) \/ i \in (Len(binlog) + 1)..Len(binlog')
    BY <1>n
  <1>2. \A i \in 1..Len(binlog') : binlog'[i].pos <= i + 1
    BY <1>1 DEF IInv, OrderInv
  <1>3. ASSUME NEW i \in 1..Len(binlog'), NEW j \in 1..Len(binlog'), i < j PROVE Before(i, j)'
    <2>1. CASE i \in 1..Len(binlog) /\ j \in 1..Len(binlog)
      BY <1>3, <2>1 DEF IInv, OrderInv, Before
    <2>2. CASE i \in 1..Len(binlog) /\ j \in (Len(binlog) + 1)..Len(binlog')
      <3>1. binlog'[i] = binlog[i] /\ binlog[i].file \in Nat /\ binlog[i].pos \in Nat
        BY <1>r, <2>2
      <3>2. binlog'[j].file \in Nat /\ binlog'[j].pos \in Nat
        BY <2>2
      <3>. QED BY <1>n, <1>r, <2>2, <3>1, <3>2 DEF Before
    <2>3. CASE i \in (Len(binlog) + 1)..Len(binlog') /\ j \in (Len(binlog) + 1)..Len(binlog')
      BY <1>3, <2>3
    <2>. QED BY <1>1, <1>3, <1>n, <2>1, <2>2, <2>3
  <1>. QED BY <1>n, <1>2, <1>3 DEF OrderInv

LEMMA WriteLemma == ASSUME IInv, NEW kind \in Kinds, WriteEvent(kind) PROVE Grows
  <1>. DEFINE new == [file |-> End.file, pos |-> End.pos + 1, kind |-> kind]
              n   == Len(binlog)
  <1>1. n \in Nat \ {0} /\ n < MaxLog /\ binlog \in Seq(Records) /\ binlog' = Append(binlog, new) /\ MaxLog \in Nat
    BY Facts DEF WriteEvent
  <1>2. End.file \in 1..MaxFiles /\ End.pos \in Nat /\ End.pos <= n + 1 /\ End.pos >= 2 /\ MaxFiles \in Nat
    <2>1. n \in 1..n /\ End = binlog[n]
      BY <1>1 DEF End
    <2>2. End.file \in Nat /\ 1 <= End.file /\ End.file <= MaxFiles /\ 2 <= End.pos /\ MaxFiles \in Nat
      BY <2>1, Facts
    <2>. QED BY <2>2, EndLemma
  <1>3. new \in Records
    BY <1>1, <1>2 DEF Records
  <1>. HIDE DEF new
  <1>4. binlog' \in Seq(Records) /\ Len(binlog') = n + 1
    BY <1>1, <1>3
  <1>5. (\A i \in 1..n : binlog'[i] = binlog[i]) /\ binlog'[n + 1] = new
    BY <1>1, <1>3
  <1>6. new.file = End.file /\ new.pos = End.pos + 1
    BY DEF new
  <1>7. \A i \in (n + 1)..Len(binlog') : i = n + 1
    BY <1>1, <1>4
  <1>8. OrderInv'
    <2>1. \A i \in (n + 1)..Len(binlog') :
            /\ binlog'[i].pos <= i + 1
            /\ binlog'[i].file \in Nat /\ binlog'[i].pos \in Nat
            /\ binlog'[i].file > End.file \/ (binlog'[i].file = End.file /\ binlog'[i].pos > End.pos)
      BY <1>1, <1>2, <1>5, <1>6, <1>7
    <2>2. \A i, j \in (n + 1)..Len(binlog') : i < j => Before(i, j)'
      BY <1>1, <1>7
    <2>3. Len(binlog') \in Nat /\ n <= Len(binlog') /\ Len(binlog') <= MaxLog
      BY <1>1, <1>4
    <2>. QED BY <1>5, <2>1, <2>2, <2>3, ExtendLemma
  <1>9. End'.file = End.file
    BY <1>4, <1>5, <1>6 DEF End
  <1>. QED BY <1>1, <1>2, <1>4, <1>5, <1>8, <1>9 DEF Grows

LEMMA RotateLemma == ASSUME IInv, RotateLog PROVE Grows
  <1>. DEFINE old == [file |-> End.file, pos |-> End.pos + 1, kind |-> "rotate"]
              new == [file |-> End.file + 1, pos |-> 2, kind |-> "fde"]
              n   == Len(binlog)
  <1>1. /\ n \in Nat \ {0} /\ n + 1 < MaxLog /\ binlog \in Seq(Records) /\ MaxLog \in Nat
        /\ binlog' = binlog \o <<old, new>> /\ End.file < MaxFiles
    BY Facts DEF RotateLog
  <1>2. End.file \in Nat /\ 1 <= End.file /\ End.pos \in Nat /\ End.pos <= n + 1 /\ End.pos >= 2 /\ MaxFiles \in Nat
    <2>1. n \in 1..n /\ End = binlog[n]
      BY <1>1 DEF End
    <2>2. End.file \in Nat /\ 1 <= End.file /\ 2 <= End.pos /\ MaxFiles \in Nat
      BY <2>1, Facts
    <2>. QED BY <2>2, EndLemma
  <1>3. old \in Records /\ new \in Records
    <2>1. End.file \in 1..MaxFiles /\ End.file + 1 \in 1..MaxFiles
      BY <1>1, <1>2
    <2>2. End.pos + 1 \in 2..(MaxLog + 1) /\ 2 \in 2..(MaxLog + 1)
      BY <1>1, <1>2
    <2>. QED BY <2>1, <2>2 DEF Records, Kinds
  <1>6. /\ old.file = End.file /\ old.pos = End.pos + 1
        /\ new.file = End.file + 1 /\ new.pos = 2
    OBVIOUS
  <1>. HIDE DEF old, new
  <1>4. binlog' \in Seq(Records) /\ Len(binlog') = n + 2
    <2>1. <<old, new>> \in Seq(Records) /\ Len(<<old, new>>) = 2
      BY <1>3
    <2>. QED BY <1>1, <2>1, ConcatProperties
  <1>5. (\A i \in 1..n : binlog'[i] = binlog[i]) /\ binlog'[n + 1] = old /\ binlog'[n + 2] = new
    BY <1>1, <1>3
  <1>7. \A i \in (n + 1)..Len(binlog') : i = n + 1 \/ i = n + 2
    BY <1>1, <1>4
  <1>8. OrderInv'
    <2>1. \A i \in (n + 1)..Len(binlog') :
            /\ binlog'[i].pos <= i + 1
            /\ binlog'[i].file \in Nat /\ binlog'[i].pos \in Nat
            /\ binlog'[i].file > End.file \/ (binlog'[i].file = End.file /\ binlog'[i].pos > End.pos)
      BY <1>1, <1>2, <1>5, <1>6, <1>7
    <2>2. \A i, j \in (n + 1)..Len(binlog') : i < j => Before(i, j)'
      <3>1. \A i, j \in (n + 1)..Len(binlog') : i < j => i = n + 1 /\ j = n + 2
        BY <1>1, <1>7
      <3>2. binlog'[n + 1].file < binlog'[n + 2].file
        BY <1>2, <1>5, <1>6
      <3>. QED BY <3>1, <3>2 DEF Before
    <2>3. Len(binlog') \in Nat /\ n <= Len(binlog') /\ Len(binlog') <= MaxLog
      BY <1>1, <1>4
    <2>. QED BY <1>5, <2>1, <2>2, <2>3, ExtendLemma
  <1>9. End'.file = End.file + 1
    BY <1>4, <1>5, <1>6 DEF End
  <1>. QED BY <1>1, <1>2, <1>4, <1>5, <1>8, <1>9 DEF Grows

LEMMA ServerLemma ==
  ASSUME IInv, Grows, UNCHANGED <<dsn, checksummed, streamerVars, liveVars, streamVars, workerVars, savedFile, origin>>
  PROVE  IInv'
  <1>. USE DEF serverVars, streamerVars, liveVars, streamVars, workerVars, durableVars
  <1>0. /\ UNCHANGED <<dsn, checksummed, next, prologue, refused, reconnects, source, start, verify, cancelled,
                       phase, out, worker, ranges, saved, applied, repeats, crashes, savedFile, origin>>
        /\ binlog' \in Seq(Records) /\ OrderInv' /\ Len(binlog) <= Len(binlog')
        /\ \A i \in 1..Len(binlog) : binlog'[i] = binlog[i]
        /\ End.file <= End'.file
    BY DEF Grows
  <1>n. /\ Len(binlog) \in Nat \ {0} /\ Len(binlog') \in Nat /\ next \in 1..(Len(binlog) + 1) /\ next \in Nat
        /\ origin \in 1..(Len(binlog) + 1) /\ origin \in Nat /\ 0 < origin
        /\ source \in Nat /\ savedFile \in Nat /\ saved \in Nat /\ dsn.pos \in Nat
        /\ Rows \subseteq 1..Len(binlog) /\ applied \subseteq Rows /\ End.file \in Nat
    <2>1. source \in 0..MaxFiles /\ savedFile \in 0..MaxFiles /\ MaxFiles \in Nat
      BY Facts
    <2>. QED BY <1>0, <2>1, Facts, EndLemma
  <1>l. 1..Len(binlog) \subseteq 1..Len(binlog')
    BY <1>0, <1>n
  <1>r. \A i \in 1..Len(binlog') : binlog'[i].file \in Nat /\ binlog'[i].pos \in Nat /\ binlog'[i].pos >= 2
    <2>1. \A i \in 1..Len(binlog') : binlog'[i] \in Records
      BY <1>0
    <2>2. \A r \in Records : r.file \in Nat /\ r.pos \in Nat /\ r.pos >= 2
      BY ConstantsAssumption DEF Records
    <2>. QED BY <2>1, <2>2
  <1>e. End'.file \in Nat
    <2>1. Len(binlog') \in 1..Len(binlog') /\ End' = binlog'[Len(binlog')]
      BY <1>0, <1>n DEF End
    <2>. QED BY <1>r, <2>1
  <1>1. \A i \in 1..Len(binlog) : i \in Rows' <=> i \in Rows
    BY <1>0, <1>l DEF Rows
  <1>2. \A i \in Rows' : i \in 1..Len(binlog') /\ (i \in Rows \/ i > Len(binlog))
    BY <1>0, <1>n DEF Rows
  <1>3. \A r \in 1..Len(binlog), i \in 1..Len(binlog') : i > Len(binlog) =>
          binlog[r].file < binlog'[i].file \/ (binlog[r].file = binlog'[i].file /\ binlog[r].pos < binlog'[i].pos)
    <2>. SUFFICES ASSUME NEW r \in 1..Len(binlog), NEW i \in 1..Len(binlog'), i > Len(binlog)
         PROVE  binlog[r].file < binlog'[i].file \/ (binlog[r].file = binlog'[i].file /\ binlog[r].pos < binlog'[i].pos)
      OBVIOUS
    <2>1. r \in 1..Len(binlog') /\ r < i
      BY <1>n, <1>l
    <2>2. binlog'[r].file < binlog'[i].file \/ (binlog'[r].file = binlog'[i].file /\ binlog'[r].pos < binlog'[i].pos)
      BY <1>0, <2>1 DEF OrderInv, Before
    <2>. QED BY <1>0, <2>2
  <1>4. TypeOK'
    <2>1. next' \in 1..(Len(binlog') + 1) /\ origin' \in 1..(Len(binlog') + 1)
      BY <1>0, <1>n
    <2>2. LiveTypeOK'
      BY <1>0, <2>1 DEF IInv, TypeOK, LiveTypeOK
    <2>. QED BY <1>0, <2>1, <2>2 DEF IInv, TypeOK, WorkerTypeOK, StreamTypeOK
  <1>5. SavedInv'
    <2>1. \A r \in 1..Len(binlog) : r \in 1..Len(binlog') /\ binlog'[r] = binlog[r]
      BY <1>0, <1>l
    <2>. QED BY <1>0, <2>1 DEF IInv, SavedInv
  (* What is added to the file of a stream lies behind the position of the *)
  (* DSN, which is one of that file.                                       *)
  <1>6. ASSUME NEW file \in Nat, NEW i \in 1..Len(binlog'), i > Len(binlog), binlog'[i].file = file,
               dsn.pos > 1 => \E r \in 1..Len(binlog) : binlog[r].file = file /\ binlog[r].pos = dsn.pos
        PROVE  binlog'[i].pos > dsn.pos
    <2>1. CASE dsn.pos > 1
      <3>1. PICK r \in 1..Len(binlog) : binlog[r].file = file /\ binlog[r].pos = dsn.pos
        BY <1>6, <2>1
      <3>. QED BY <1>3, <1>6, <1>n, <1>r, <3>1
    <2>2. CASE dsn.pos <= 1
      BY <1>n, <1>r, <2>2
    <2>. QED BY <1>n, <2>1, <2>2
  <1>7. StreamInv'
    <2>. SUFFICES ASSUME Streams
         PROVE  /\ source <= End'.file
                /\ dsn.pos > 1 => \E r \in 1..Len(binlog') : binlog'[r].file = source /\ binlog'[r].pos = dsn.pos
                /\ \A i \in next..Len(binlog') :
                     binlog'[i].file > source \/ (binlog'[i].file = source /\ binlog'[i].pos > dsn.pos)
      BY <1>0 DEF StreamInv, Streams
    <2>1. /\ source <= End.file
          /\ dsn.pos > 1 => \E r \in 1..Len(binlog) : binlog[r].file = source /\ binlog[r].pos = dsn.pos
          /\ \A i \in next..Len(binlog) :
               binlog[i].file > source \/ (binlog[i].file = source /\ binlog[i].pos > dsn.pos)
      BY DEF IInv, StreamInv
    <2>2. source <= End'.file
      BY <1>0, <1>n, <1>e, <2>1
    <2>3. dsn.pos > 1 => \E r \in 1..Len(binlog') : binlog'[r].file = source /\ binlog'[r].pos = dsn.pos
      BY <1>0, <1>l, <2>1
    <2>4. ASSUME NEW i \in next..Len(binlog')
          PROVE  binlog'[i].file > source \/ (binlog'[i].file = source /\ binlog'[i].pos > dsn.pos)
      <3>1. i \in 1..Len(binlog') /\ (i \in next..Len(binlog) \/ i > Len(binlog))
        BY <1>n
      <3>2. CASE i \in next..Len(binlog)
        <4>1. binlog'[i] = binlog[i]
          BY <1>0, <1>n, <3>2
        <4>. QED BY <2>1, <3>2, <4>1
      <3>3. CASE i > Len(binlog)
        <4>1. Len(binlog) \in 1..Len(binlog) /\ End = binlog[Len(binlog)]
          BY <1>n DEF End
        <4>2. End.file <= binlog'[i].file
          <5>1. End.file < binlog'[i].file \/ End.file = binlog'[i].file
            BY <1>3, <3>1, <3>3, <4>1
          <5>2. binlog'[i].file \in Nat
            BY <1>r, <3>1
          <5>. QED BY <1>n, <5>1, <5>2
        <4>3. CASE binlog'[i].file > source
          BY <4>3
        <4>4. CASE binlog'[i].file = source
          <5>1. binlog'[i].pos > dsn.pos
            BY <1>6, <1>n, <2>1, <3>1, <3>3, <4>4
          <5>. QED BY <4>4, <5>1
        <4>. QED BY <1>n, <1>r, <2>1, <3>1, <4>2, <4>3, <4>4
      <3>. QED BY <3>1, <3>2, <3>3
    <2>. QED BY <2>2, <2>3, <2>4
  <1>8. OriginInv'
    <2>. DEFINE file == IF saved > 0 THEN savedFile ELSE source
    <2>. SUFFICES ASSUME saved > 0 \/ Streams
         PROVE  /\ dsn.pos > 1 => \E r \in 1..Len(binlog') : binlog'[r].file = file /\ binlog'[r].pos = dsn.pos
                /\ \A i \in origin..Len(binlog') : binlog'[i].file = file => binlog'[i].pos > dsn.pos
      BY <1>0 DEF OriginInv, Streams
    <2>1. /\ dsn.pos > 1 => \E r \in 1..Len(binlog) : binlog[r].file = file /\ binlog[r].pos = dsn.pos
          /\ \A i \in origin..Len(binlog) : binlog[i].file = file => binlog[i].pos > dsn.pos
      BY DEF IInv, OriginInv
    <2>2. file \in Nat
      BY <1>n
    <2>. HIDE DEF file
    <2>3. dsn.pos > 1 => \E r \in 1..Len(binlog') : binlog'[r].file = file /\ binlog'[r].pos = dsn.pos
      BY <1>0, <1>l, <2>1
    <2>4. ASSUME NEW i \in origin..Len(binlog'), binlog'[i].file = file PROVE binlog'[i].pos > dsn.pos
      <3>1. i \in 1..Len(binlog') /\ (i \in origin..Len(binlog) \/ i > Len(binlog))
        BY <1>n
      <3>2. CASE i \in origin..Len(binlog)
        <4>1. binlog'[i] = binlog[i]
          BY <1>0, <1>n, <3>2
        <4>. QED BY <2>1, <2>4, <3>2, <4>1
      <3>3. CASE i > Len(binlog)
        BY <1>6, <2>1, <2>2, <2>4, <3>1, <3>3
      <3>. QED BY <3>1, <3>2, <3>3
    <2>. QED BY <2>3, <2>4
  <1>9. OutInv'
    <2>1. out.kind = "info" => out.rec < next /\ out.rec \notin Rows
      BY DEF IInv, OutInv
    <2>2. out.kind = "info" => out.rec \notin Rows'
      BY <1>2, <1>n, <2>1
    <2>3. out.kind = "step" => /\ out.rec = next - 1 /\ out.rec \in Rows
                               /\ out.pos = binlog[out.rec].pos /\ out.pos > start
                               /\ binlog[out.rec].file > source \/ (binlog[out.rec].file = source /\ out.pos > dsn.pos)
      BY DEF IInv, OutInv
    <2>4. out.kind = "step" => out.rec \in Rows' /\ binlog'[out.rec] = binlog[out.rec]
      BY <1>0, <1>1, <1>n, <2>3
    <2>5. out.kind = "step" => /\ out.rec = next - 1 /\ out.rec \in Rows'
                               /\ out.pos = binlog'[out.rec].pos /\ out.pos > start
                               /\ binlog'[out.rec].file > source \/ (binlog'[out.rec].file = source /\ out.pos > dsn.pos)
      BY <2>3, <2>4
    <2>. QED BY <1>0, <2>1, <2>2, <2>5 DEF IInv, OutInv, Nothing
  <1>10. WorkerInv'
    <2>1. applied \subseteq Rows'
      BY <1>1, <1>n
    <2>. QED BY <1>0, <2>1 DEF IInv, WorkerInv
  <1>11. CoveredInv'
    <2>. SUFFICES ASSUME saved > 0, NEW i \in Rows', i >= origin, binlog'[i].file = savedFile, binlog'[i].pos <= saved
         PROVE  i \in applied
      BY <1>0 DEF CoveredInv
    <2>1. PICK r \in 1..Len(binlog) : binlog[r].pos = saved /\ binlog[r].file >= savedFile
      BY DEF IInv, SavedInv
    <2>2. binlog'[r] = binlog[r] /\ r \in 1..Len(binlog')
      BY <1>0, <1>l
    <2>3. ~(i > Len(binlog))
      <3>. SUFFICES ASSUME i > Len(binlog) PROVE FALSE
        OBVIOUS
      <3>1. i \in 1..Len(binlog')
        BY <1>2
      <3>2. binlog[r].file < binlog'[i].file \/ (binlog[r].file = binlog'[i].file /\ binlog[r].pos < binlog'[i].pos)
        BY <1>3, <3>1
      <3>3. /\ binlog[r].file \in Nat /\ binlog[r].pos \in Nat
            /\ binlog'[i].file \in Nat /\ binlog'[i].pos \in Nat
        BY <1>r, <2>2, <3>1
      <3>. QED BY <1>n, <2>1, <3>2, <3>3
    <2>4. i \in Rows /\ binlog'[i] = binlog[i]
      BY <1>0, <1>2, <1>n, <2>3
    <2>. QED BY <2>4 DEF IInv, CoveredInv
  <1>12. NoStepLostInFile'
    <2>1. \A i \in origin..(next - 1) : i \in 1..Len(binlog)
      <3>1. 0 < origin /\ next <= Len(binlog) + 1
        BY <1>n
      <3>. QED BY <1>n, <3>1, IntervalLemma
    <2>. QED BY <1>0, <2>1 DEF IInv, NoStepLostInFile, Passed, InHand
  <1>13. End'.file = 1 => End.file = 1
    <2>1. 1 <= End.file
      <3>1. Len(binlog) \in 1..Len(binlog) /\ End = binlog[Len(binlog)]
        BY <1>n DEF End
      <3>. QED BY <3>1, Facts
    <2>. QED BY <1>0, <1>n, <1>e, <2>1
  <1>14. \A i \in Rows : i \in 1..Len(binlog) /\ binlog'[i] = binlog[i]
    BY <1>0, <1>n
  <1>15. SingleFileInv'
    <2>. SUFFICES ASSUME End.file = 1, Streams
         PROVE  /\ saved = start \/ \E r \in 1..(next - 1) : binlog'[r].pos = saved /\ ~(out.kind = "step" /\ r = out.rec)
                /\ Resumable => \A j \in Rows' : j < next /\ j # InHand =>
                                   binlog'[j].pos <= saved \/ binlog'[j].pos <= dsn.pos
                /\ ~Resumable => \A i \in applied : i < next /\ (out.kind = "step" /\ i = out.rec => worker = "replayed")
      BY <1>0, <1>13 DEF SingleFileInv, Streams, Resumable, InHand
    <2>1. /\ saved = start \/ \E r \in 1..(next - 1) : binlog[r].pos = saved /\ ~(out.kind = "step" /\ r = out.rec)
          /\ Resumable => \A j \in Rows : j < next /\ j # InHand => binlog[j].pos <= saved \/ binlog[j].pos <= dsn.pos
          /\ ~Resumable => \A i \in applied : i < next /\ (out.kind = "step" /\ i = out.rec => worker = "replayed")
      BY DEF IInv, SingleFileInv
    <2>2. \A r \in 1..(next - 1) : binlog'[r] = binlog[r]
      <3>1. \A r \in 1..(next - 1) : r \in 1..Len(binlog)
        BY <1>n
      <3>. QED BY <1>0, <3>1
    <2>3. \A j \in Rows' : j < next => j \in Rows
      BY <1>2, <1>n
    <2>. QED BY <1>14, <2>1, <2>2, <2>3
  <1>16. AheadInv'
    <2>. SUFFICES ASSUME End.file = 1, Resumable, NEW i \in applied, binlog[i].pos > saved,
                         NEW j \in Rows', binlog'[j].pos > saved, binlog'[j].pos > dsn.pos
         PROVE  i <= j
      BY <1>0, <1>13, <1>14, <1>n DEF AheadInv, Resumable
    <2>1. CASE j \in Rows
      BY <1>14, <2>1 DEF IInv, AheadInv
    <2>2. CASE j > Len(binlog)
      BY <1>n, <1>2, <2>2
    <2>. QED BY <1>2, <2>1, <2>2
  <1>17. RepeatsInv'
    <2>1. Owed' => Owed
      BY <1>0, <1>14, <1>n DEF Owed, Resumable
    <2>. QED BY <1>0, <1>13, <2>1 DEF IInv, RepeatsInv
  <1>. QED BY <1>0, <1>4, <1>5, <1>7, <1>8, <1>9, <1>10, <1>11, <1>12, <1>15, <1>16, <1>17 DEF IInv

LEMMA NextLemma == ASSUME IInv, Next PROVE IInv'
  <1>1. CASE Open
    BY <1>1, OpenLemma
  <1>2. CASE RangeOver \/ CancelContext \/ (Reconnect /\ Server)
    BY <1>2, QuietLemma
  <1>3. CASE Decode \/ Lose
    BY <1>3, DecodeLemma
  <1>4. CASE Consume
    <2>1. PassOver \/ Replay \/ SaveCheckpoint
      BY <1>4 DEF Consume
    <2>. QED BY <1>4, <2>1, PassOverLemma, ReplayLemma, SaveLemma
  <1>5. CASE Stop \/ Fail
    BY <1>5, DieLemma
  <1>6. CASE Server /\ ~Reconnect
    <2>1. \E kind \in {"rows", "other", "garbled"} : WriteEvent(kind) \/ RotateLog
      BY <1>6 DEF Server
    <2>2. PICK kind \in {"rows", "other", "garbled"} : WriteEvent(kind) \/ RotateLog
      BY <2>1
    <2>3. Grows
      BY <2>2, WriteLemma, RotateLemma DEF Kinds
    <2>4. UNCHANGED <<dsn, checksummed, streamerVars, liveVars, streamVars, workerVars, savedFile, origin>>
      BY <1>6, <2>2 DEF Server, WriteEvent, RotateLog
    <2>. QED BY <2>3, <2>4, ServerLemma
  <1>. QED BY <1>1, <1>2, <1>3, <1>4, <1>5, <1>6 DEF Next, Program

LEMMA StutterLemma == ASSUME IInv, UNCHANGED vars PROVE IInv'
  <1>. USE DEF vars, serverVars, streamerVars, liveVars, streamVars, workerVars, durableVars
  <1>1. Grows
    <2>1. Len(binlog) \in Nat /\ End.file \in Nat
      BY Facts, EndLemma
    <2>2. OrderInv' /\ End' = End
      BY FileLemma
    <2>. QED BY <2>1, <2>2 DEF Grows, IInv, TypeOK, LiveTypeOK
  <1>. QED BY <1>1, ServerLemma

----------------------------------------------------------------------------------

(* The invariant holds of every behaviour, for servers with any number of  *)
(* files and events and DSNs that name any of them or none.                *)
THEOREM Invariance == Spec => []IInv
  <1>1. IInv /\ [Next]_vars => IInv'
    BY NextLemma, StutterLemma
  <1>. QED BY <1>1, InitLemma, PTL DEF Spec

(* What NewLiveDecoder, Events() and the worker keep has its types.        *)
THEOREM TypeCorrect == Spec => []TypeOK
  <1>1. IInv => TypeOK
    BY DEF IInv
  <1>. QED BY <1>1, Invariance, PTL

(* Of the file the decoder names no operation is lost: where the dump of   *)
(* NewLiveDecoder begins and what Events() filters agree with the saved    *)
(* checkpoint, whatever the DSN names and however often the streamer       *)
(* reconnects and the process crashes.                                     *)
THEOREM NoStepLostInFileHolds == Spec => []NoStepLostInFile
  <1>1. IInv => NoStepLostInFile
    BY DEF IInv
  <1>. QED BY <1>1, Invariance, PTL

(* As long as the server writes one file, Events() hands an operation over *)
(* again only because a crash cut its replay off from its checkpoint.      *)
THEOREM RepeatsNeedCrashesHolds == Spec => []RepeatsNeedCrashes
  <1>1. IInv => RepeatsNeedCrashes
    BY DEF IInv, RepeatsInv, RepeatsNeedCrashes
  <1>. QED BY <1>1, Invariance, PTL

==================================================================================
