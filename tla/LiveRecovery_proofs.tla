--------------------------- MODULE LiveRecovery_proofs ---------------------------
(***************************************************************************)
(* Type correctness of LiveRecovery and what its workers promise, for      *)
(* slots and collections of any length and any number of crashes.          *)
(***************************************************************************)
EXTENDS LiveRecovery, WellFoundedInduction, TLAPS

----------------------------------------------------------------------------------
(* A set of numbers with an upper bound has a largest one.                 *)
LEMMA MaxLemma ==
  ASSUME NEW S \in SUBSET Nat, S # {}, NEW n \in Nat, \A i \in S : i <= n
  PROVE  Max(S) \in S /\ \A i \in S : i <= Max(S)
  <1>. DEFINE T == {n - i : i \in S}
  <1>a. \A i \in S : i \in Nat /\ n - i \in Nat
    OBVIOUS
  <1>1. T \subseteq Nat /\ T # {}
    <2>1. PICK i : i \in S
      OBVIOUS
    <2>2. n - i \in T
      BY <2>1
    <2>. QED BY <1>a, <2>2
  <1>2. PICK x \in T : \A y \in T : ~(<<y, x>> \in OpToRel(<, Nat))
    BY <1>1, NatLessThanWellFounded, WFMin
  <1>3. PICK i \in S : x = n - i
    OBVIOUS
  <1>4. \A j \in S : i >= j
    <2>. SUFFICES ASSUME NEW j \in S, j > i PROVE FALSE
      OBVIOUS
    <2>1. n - j \in T /\ n - j < n - i /\ n - j \in Nat /\ n - i \in Nat
      OBVIOUS
    <2>. QED BY <1>2, <1>3, <2>1 DEF OpToRel
  <1>5. \A j \in S : Max(S) >= j /\ Max(S) \in S
    BY <1>4 DEF Max
  <1>. QED BY <1>5

(* The last commit among the first lines of a log.                         *)
LEMMA LastCommitLemma ==
  ASSUME NEW log, NEW n \in Nat
  PROVE  LET last == Max({0} \cup {i \in 1..n : log[i] = "commit"}) IN
         /\ last \in 0..n
         /\ last = 0 \/ log[last] = "commit"
         /\ \A i \in 1..n : log[i] = "commit" => i <= last
  <1>. DEFINE S == {0} \cup {i \in 1..n : log[i] = "commit"}
  <1>1. S \in SUBSET Nat /\ S # {} /\ \A i \in S : i <= n
    OBVIOUS
  <1>2. Max(S) \in S /\ \A i \in S : i <= Max(S)
    BY <1>1, MaxLemma
  <1>. QED BY <1>2

(* Where the slot goes on: at the start, or behind the last transaction    *)
(* that is confirmed whole.                                                *)
LEMMA ResumePointLemma ==
  ASSUME SlotTypeOK
  PROVE  ResumePoint \in 0..confirmed /\ (ResumePoint = 0 \/ wal[ResumePoint] = "commit")
  <1>1. confirmed \in Nat
    BY DEF SlotTypeOK
  <1>2. LET last == Max({0} \cup {i \in 1..confirmed : wal[i] = "commit"}) IN
        last \in 0..confirmed /\ (last = 0 \/ wal[last] = "commit")
    BY <1>1, LastCommitLemma, Zenon
  <1>. QED BY <1>2, Zenon DEF ResumePoint

----------------------------------------------------------------------------------
(* The inductive invariant: one part for all readers, one for each.        *)

StreamInv ==
  /\ phase # "yielding" => out = Nothing
  /\ phase = "yielding" => out.kind \in EventKinds \cup {"error"}
  /\ out.kind \notin EventKinds => out.rec = 0
  /\ worker = "replayed" => out.kind = "step" /\ out.rec \in applied
  /\ ~resumes => start = 0

(* The answer being scanned is the end of what the slot gave up, and what  *)
(* was replayed lies before it.                                            *)
PollInv ==
  /\ repeats = 0
  /\ Len(rows) <= confirmed
  /\ \A i \in 1..Len(rows) : rows[i] = confirmed - Len(rows) + i
  /\ \A i \in applied : i <= confirmed - Len(rows)
  /\ out.kind = "step" /\ worker = "idle" =>
       /\ out.rec <= confirmed - Len(rows)
       /\ out.rec \notin applied

(* What was replayed lies before the change stream, or the stream has      *)
(* returned it.                                                            *)
WatchInv ==
  /\ repeats = 0
  /\ applied \subseteq 1..Len(oplog)
  /\ step = "next" => \A i \in applied : i <= cursor
  /\ out.kind = "step" /\ worker = "idle" =>
       /\ step = "next"
       /\ out.rec = cursor /\ cursor > 0
       /\ out.rec \notin applied
  /\ out.kind = "info" => out.rec \in 1..Len(oplog) /\ oplog[out.rec] # "step"
  /\ ~resumes => \A i \in opened+1..cursor : oplog[i] = "step" => i \in applied \/ i = out.rec

InWire(i) == \E j \in 1..Len(wire) : wire[j].kind = "data" /\ wire[j].rec = i

(* The lines on the connection are in the order of the log, and a          *)
(* keepalive carries no LSN of a line behind it.                           *)
OrderInv ==
  /\ \A j \in 1..Len(wire) : wire[j].kind # "error" => wire[j].rec <= sent
  /\ \A j \in 1..Len(wire) : wire[j].kind = "data" => wire[j].rec > 0
  /\ \A j, k \in 1..Len(wire) :
       j < k /\ wire[j].kind # "error" /\ wire[k].kind = "data" => wire[j].rec < wire[k].rec

(* A change the server sent on this connection is still on its way, or was *)
(* replayed, or is being handed over; and what the slot will not send      *)
(* again was replayed.                                                     *)
WireInv ==
  /\ rows = <<>>
  /\ ~started => wire = <<>>
  /\ step = "start" => ~started
  /\ OrderInv
  /\ out.kind = "info" => wal[out.rec] # "step" /\ out.rec \in 1..Len(wal)
  /\ ~resumes => \A i \in Steps : i <= ResumePoint => i \in applied
  /\ ~resumes /\ started /\ out.kind # "error" =>
       \A i \in Steps : i <= sent => i \in applied \/ i = out.rec \/ InWire(i)

ReaderInv ==
  /\ reader = "poll" => PollInv
  /\ reader = "wire" => WireInv
  /\ reader = "watch" => WatchInv

IInv == TypeOK /\ StreamInv /\ ReaderInv

----------------------------------------------------------------------------------
LEMMA OutputTypes ==
  /\ Nothing \in Outputs
  /\ [kind |-> "error", pos |-> 0, rec |-> 0] \in Outputs
  /\ \A kind \in EventKinds, pos, rec \in Nat : [kind |-> kind, pos |-> pos, rec |-> rec] \in Outputs
  BY DEF Nothing, Outputs, EventKinds

LEMMA InitLemma == Init => IInv
  <1>. SUFFICES ASSUME Init PROVE IInv
    OBVIOUS
  <1>. USE DEF Init, DecoderInit, SlotInit, PollInit, WireInit, MongoInit, WorkerInit
  <1>1. /\ resumes \in BOOLEAN
        /\ step \in {"start", "check"}
    BY CheckpointsAssumption DEF FirstStep
  <1>a. <<>> \in Seq(Nat) /\ <<>> \in Seq(Lines) /\ <<>> \in Seq(Messages) /\ <<>> \in Seq(Entries)
    OBVIOUS
  <1>b. Len(<<>>) = 0 /\ {} \subseteq Nat
    OBVIOUS
  <1>2. TypeOK
    <2>1. DecoderTypeOK /\ StreamTypeOK
      BY <1>1, OutputTypes DEF DecoderTypeOK, StreamTypeOK, Phases, Decoders
    <2>2. SlotTypeOK /\ MongoTypeOK
      BY <1>a, <1>b DEF SlotTypeOK, MongoTypeOK
    <2>3. WorkerTypeOK
      BY <1>b, <2>1 DEF WorkerTypeOK
    <2>4. sent \in 0..Len(wal)
      BY <1>b
    <2>5. rows \in Seq(Nat) /\ wire \in Seq(Messages)
      BY <1>a
    <2>6. saw \in BOOLEAN /\ started \in BOOLEAN
      OBVIOUS
    <2>. QED BY <1>1, <2>1, <2>2, <2>3, <2>4, <2>5, <2>6, Zenon DEF TypeOK
  <1>3. StreamInv
    BY DEF StreamInv, Nothing
  <1>4. Steps = {}
    BY DEF Steps
  <1>5. ReaderInv
    BY <1>4 DEF ReaderInv, PollInv, WatchInv, WireInv, OrderInv, Nothing, FirstStep
  <1>. QED BY <1>2, <1>3, <1>5 DEF IInv

(* Every step of a decoder keeps the types.                                *)
LEMMA PollTypes ==
  ASSUME TypeOK, PollStep, UNCHANGED <<wireVars, mongoVars, resumes, workerVars>> PROVE TypeOK'
  <1>. USE DEF TypeOK, DecoderTypeOK, SlotTypeOK, MongoTypeOK, WorkerTypeOK, StreamTypeOK, Phases, Decoders,
           slotVars, streamVars, cursorVars, wireVars, mongoVars, workerVars, durableVars, pollVars
  <1>1. CASE PollCheck
    BY <1>1, OutputTypes DEF PollCheck, Return
  <1>2. CASE Query
    <2>1. LinesUpTo(Len(wal)) \in Seq(Nat)
      BY DEF LinesUpTo
    <2>2. Len(wal) \in Nat
      OBVIOUS
    <2>3. rows' = LinesUpTo(Len(wal)) /\ confirmed' = Len(wal) /\ saw' = FALSE /\ step' = "rows"
      BY <1>2 DEF Query
    <2>4. rows' \in Seq(Nat) /\ confirmed' \in 0..Len(wal)
      BY <2>1, <2>2, <2>3
    <2>. QED BY <1>2, <2>3, <2>4 DEF Query
  <1>3. CASE QueryFails
    BY <1>3, OutputTypes DEF QueryFails, YieldError, Return
  <1>4. CASE SkipRow
    BY <1>4 DEF SkipRow, ScanRow
  <1>5. CASE DeliverRow
    <2>1. Head(rows) \in Nat /\ Tail(rows) \in Seq(Nat) /\ position + 1 \in Nat
      BY <1>5 DEF DeliverRow, ScanRow
    <2>2. EventOf(wal[Head(rows)]) \in EventKinds
      BY DEF EventOf, EventKinds
    <2>3. out' \in Outputs
      BY <1>5, <2>1, <2>2, OutputTypes DEF DeliverRow, Yield
    <2>. QED BY <1>5, <2>1, <2>3 DEF DeliverRow, ScanRow, Yield
  <1>6. CASE FailRow
    BY <1>6, OutputTypes DEF FailRow, ScanRow, YieldError
  <1>7. CASE RowsFail
    BY <1>7, OutputTypes DEF RowsFail, YieldError, Return
  <1>8. CASE EndOfRows
    BY <1>8 DEF EndOfRows
  <1>9. CASE WaitForNextPoll
    BY <1>9 DEF WaitForNextPoll, Return
  <1>. QED BY <1>1, <1>2, <1>3, <1>4, <1>5, <1>6, <1>7, <1>8, <1>9 DEF PollStep

(* An acknowledgement moves the slot up to the message at most.            *)
LEMMA AcknowledgeLemma ==
  ASSUME TypeOK, OrderInv, NEW kind \in {"data", "keepalive"}, Receive(kind), Acknowledge(Head(wire).rec)
  PROVE  /\ Head(wire) = wire[1] /\ wire[1].kind = kind /\ Len(wire) > 0
         /\ wire[1].rec \in Nat /\ wire[1].rec <= sent
         /\ confirmed' = confirmed \/ (confirmed' = wire[1].rec /\ confirmed <= confirmed')
         /\ confirmed' \in 0..Len(wal)
  <1>. USE DEF TypeOK, SlotTypeOK
  <1>1. wire \in Seq(Messages) /\ wire # <<>> /\ Head(wire).kind = kind
    BY DEF Receive
  <1>2. Head(wire) = wire[1] /\ wire[1] \in Messages /\ Len(wire) \in Nat /\ Len(wire) > 0
    BY <1>1
  <1>3. wire[1].rec \in Nat /\ wire[1].rec <= sent
    BY <1>1, <1>2 DEF Messages, OrderInv
  <1>4. confirmed \in Nat /\ sent \in 0..Len(wal) /\ Len(wal) \in Nat
    OBVIOUS
  <1>5. \A x, y \in Nat : Max({x, y}) \in {x, y} /\ x <= Max({x, y})
    <2>. SUFFICES ASSUME NEW x \in Nat, NEW y \in Nat PROVE Max({x, y}) \in {x, y} /\ x <= Max({x, y})
      OBVIOUS
    <2>1. PICK n \in Nat : x <= n /\ y <= n
      OBVIOUS
    <2>. QED BY <2>1, MaxLemma
  <1>. DEFINE max == Max({confirmed, wire[1].rec})
  <1>6. max \in {confirmed, wire[1].rec} /\ confirmed <= max
    BY <1>3, <1>4, <1>5
  <1>7. confirmed' \in {confirmed, max}
    BY <1>2 DEF Acknowledge
  <1>. HIDE DEF max
  <1>. QED BY <1>1, <1>2, <1>3, <1>4, <1>6, <1>7

LEMMA WireTypes ==
  ASSUME TypeOK, OrderInv, WireStep, UNCHANGED <<pollVars, mongoVars, resumes, workerVars>> PROVE TypeOK'
  <1>. USE DEF TypeOK, DecoderTypeOK, SlotTypeOK, MongoTypeOK, WorkerTypeOK, StreamTypeOK, Phases, Decoders,
           slotVars, streamVars, cursorVars, wireVars, mongoVars, workerVars, durableVars, pollVars
  <1>1. CASE StartReplication
    <2>1. ResumePoint \in 0..Len(wal)
      BY ResumePointLemma
    <2>. QED BY <1>1, <2>1 DEF StartReplication
  <1>2. CASE WireFails
    BY <1>2, OutputTypes DEF WireFails, YieldError, Return
  <1>3. CASE WireCheck
    BY <1>3 DEF WireCheck, Return
  <1>4. CASE AcknowledgeFails
    BY <1>4, OutputTypes DEF AcknowledgeFails, Receive, YieldError
  <1>5. CASE ReceiveError
    BY <1>5, OutputTypes DEF ReceiveError, Receive, YieldError
  <1>6. CASE ReceiveKeepalive
    <2>1. confirmed' \in 0..Len(wal)
      BY <1>6, AcknowledgeLemma DEF ReceiveKeepalive
    <2>. QED BY <1>6, <2>1 DEF ReceiveKeepalive, Receive
  <1>7. CASE SkipBlank \/ SkipLine \/ DeliverLine \/ FailLine
    <2>1. Receive("data") /\ Acknowledge(Head(wire).rec)
      BY <1>7 DEF SkipBlank, SkipLine, DeliverLine, FailLine, CountLine, ReceiveLine
    <2>2. confirmed' \in 0..Len(wal) /\ Head(wire).rec \in Nat
      BY <2>1, AcknowledgeLemma
    <2>3. position' \in Nat
      BY <1>7 DEF SkipBlank, SkipLine, DeliverLine, FailLine, CountLine
    <2>4. StreamTypeOK'
      <3>1. CASE DeliverLine
        <4>1. EventOf(wal[Head(wire).rec]) \in EventKinds
          BY DEF EventOf, EventKinds
        <4>2. position + 1 \in Nat
          OBVIOUS
        <4>. QED BY <2>2, <3>1, <4>1, <4>2, OutputTypes DEF DeliverLine, Yield
      <3>2. CASE SkipBlank \/ SkipLine \/ FailLine
        BY <3>2, OutputTypes DEF SkipBlank, SkipLine, FailLine, YieldError
      <3>. QED BY <1>7, <3>1, <3>2
    <2>. QED BY <2>1, <2>2, <2>3, <2>4 DEF Receive
  <1>. QED BY <1>1, <1>2, <1>3, <1>4, <1>5, <1>6, <1>7 DEF WireStep

LEMMA MongoTypes ==
  ASSUME TypeOK, MongoStep, UNCHANGED <<wal, confirmed, pollVars, wireVars, resumes, workerVars>> PROVE TypeOK'
  <1>. USE DEF TypeOK, DecoderTypeOK, SlotTypeOK, MongoTypeOK, WorkerTypeOK, StreamTypeOK, Phases, Decoders,
           slotVars, streamVars, cursorVars, wireVars, mongoVars, workerVars, durableVars, pollVars
  <1>1. CASE CheckContext \/ StreamFails \/ StreamEnds
    BY <1>1, OutputTypes DEF CheckContext, StreamFails, StreamEnds, YieldError, Return
  <1>2. CASE Watch
    BY <1>2 DEF Watch
  <1>3. CASE DecodeFails \/ SkipChange \/ FailChange
    BY <1>3, OutputTypes DEF DecodeFails, SkipChange, FailChange, CountChange, NextChange, YieldError
  <1>4. CASE DeliverChange
    <2>1. cursor' = cursor + 1 /\ position + 1 \in Nat /\ cursor + 1 \in Nat
      BY <1>4 DEF DeliverChange, CountChange, NextChange
    <2>2. out' \in Outputs
      BY <1>4, <2>1, OutputTypes DEF DeliverChange, Yield, EventKinds
    <2>. QED BY <1>4, <2>1, <2>2 DEF DeliverChange, CountChange, NextChange, Yield
  <1>. QED BY <1>1, <1>2, <1>3, <1>4 DEF MongoStep

LEMMA TypeLemma == ASSUME IInv, Next PROVE TypeOK'
  <1>. USE DEF TypeOK, DecoderTypeOK, SlotTypeOK, MongoTypeOK, WorkerTypeOK, StreamTypeOK, Phases, Decoders,
           slotVars, streamVars, cursorVars, wireVars, mongoVars, workerVars, durableVars, pollVars,
           serverVars, readerVars
  <1>0. TypeOK
    BY DEF IInv
  <1>1. CASE Open
    BY <1>0, <1>1 DEF Open
  <1>2. CASE RangeOver
    <2>1. step' \in {"start", "check"}
      BY <1>2 DEF RangeOver, FirstStep
    <2>2. phase' = "decoding" /\ ranges' \in Nat /\ UNCHANGED <<out, worker, durableVars, crashes>>
      BY <1>0, <1>2 DEF RangeOver, BeginLoop, RangeAgain
    <2>. QED BY <1>0, <1>2, <2>1, <2>2 DEF RangeOver
  <1>3. CASE Decode
    <2>. HIDE DEF TypeOK
    <2>1. CASE reader = "poll" /\ PollStep /\ UNCHANGED <<wireVars, mongoVars>>
      BY <1>0, <1>3, <2>1, PollTypes DEF Decode
    <2>2. CASE reader = "wire" /\ WireStep /\ UNCHANGED <<pollVars, mongoVars>>
      BY <1>0, <1>3, <2>2, WireTypes DEF Decode, IInv, ReaderInv, WireInv
    <2>3. CASE reader = "watch" /\ MongoStep /\ UNCHANGED <<wal, confirmed, pollVars, wireVars>>
      BY <1>0, <1>3, <2>3, MongoTypes DEF Decode
    <2>. QED BY <1>3, <2>1, <2>2, <2>3 DEF Decode
  <1>4. CASE Consume
    <2>1. out.rec \in Nat /\ out.pos \in Nat
      BY <1>0 DEF Outputs
    <2>2. rows' \in Seq(Nat)
      BY <1>0, <1>4 DEF Consume
    <2>3. CASE PassOver
      BY <1>0, <1>4, <2>2, <2>3, OutputTypes DEF Consume, PassOver, Continue
    <2>4. CASE Replay
      <3>1. applied' \subseteq Nat /\ repeats' \in Nat
        <4>1. applied' = applied \cup {out.rec} /\ repeats' \in {repeats, repeats + 1}
          BY <2>4 DEF Replay
        <4>2. applied \subseteq Nat /\ repeats \in Nat
          BY <1>0
        <4>. HIDE DEF TypeOK, WorkerTypeOK, StreamTypeOK, DecoderTypeOK, SlotTypeOK, MongoTypeOK
        <4>3. repeats' \in Nat
          BY <4>1, <4>2
        <4>4. applied' \subseteq Nat
          BY <2>1, <4>1, <4>2, Zenon
        <4>. QED BY <4>3, <4>4
      <3>. QED BY <1>0, <1>4, <2>2, <2>4, <3>1 DEF Consume, Replay
    <2>5. CASE SaveCheckpoint
      BY <1>0, <1>4, <2>1, <2>2, <2>5, OutputTypes DEF Consume, SaveCheckpoint, Continue, BreakOut
    <2>. QED BY <1>4, <2>3, <2>4, <2>5 DEF Consume
  <1>5. CASE Stop \/ Fail
    <2>1. Die /\ Disconnect /\ crashes' \in Nat
      BY <1>0, <1>5 DEF Stop, Fail, PanicOnError, Leave, Crash
    <2>2. <<>> \in Seq(Nat) /\ <<>> \in Seq(Messages)
      OBVIOUS
    <2>3. FirstStep(reader) \in {"start", "check"}
      BY DEF FirstStep
    <2>4. WorkerTypeOK'
      BY <1>0, <2>1, OutputTypes DEF Die
    <2>5. DecoderTypeOK' /\ SlotTypeOK' /\ MongoTypeOK'
      BY <1>0, <2>1, <2>3 DEF Disconnect
    <2>. HIDE DEF WorkerTypeOK, DecoderTypeOK, SlotTypeOK, MongoTypeOK
    <2>6. rows' \in Seq(Nat) /\ wire' \in Seq(Messages) /\ saw' \in BOOLEAN /\ started' \in BOOLEAN
      BY <2>1, <2>2 DEF Disconnect
    <2>7. sent' \in 0..Len(wal') /\ resumes' \in BOOLEAN
      BY <1>0, <2>1 DEF Disconnect
    <2>. QED BY <2>4, <2>5, <2>6, <2>7
  <1>6. CASE Database
    <2>1. PICK changes \in Seq(Changes) : Commit(changes)
      <3>1. \A c, d \in Changes : <<c>> \in Seq(Changes) /\ <<c, d>> \in Seq(Changes)
        OBVIOUS
      <3>. QED BY <1>6, <3>1, Zenon DEF Database
    <2>2. wal' = wal \o (<<"begin">> \o changes \o <<"commit">>)
      BY <1>0, <2>1 DEF Commit
    <2>3. (<<"begin">> \o changes \o <<"commit">>) \in Seq(Lines)
      BY <2>1 DEF Lines
    <2>4. wal' \in Seq(Lines) /\ Len(wal') >= Len(wal) /\ Len(wal) \in Nat /\ Len(wal') \in Nat
      BY <1>0, <2>2, <2>3
    <2>. QED BY <1>0, <1>6, <2>1, <2>4 DEF Database, Commit
  <1>7. CASE ReplicationServer
    <2>1. \A rec \in Nat : Message("data", rec) \in Messages /\ Message("keepalive", rec) \in Messages
                           /\ Message("error", rec) \in Messages
      BY DEF Message, Messages
    <2>2. sent \in Nat /\ sent + 1 \in Nat
      BY <1>0
    <2>3. wire' \in Seq(Messages) /\ sent' \in 0..Len(wal)
      <3>1. PICK m \in Messages : wire' = Append(wire, m)
        BY <1>7, <2>1, <2>2 DEF ReplicationServer, Server, SendLine, SendKeepalive, SendError
      <3>2. sent' \in 0..Len(wal)
        BY <1>0, <1>7, <2>2 DEF ReplicationServer, Server, SendLine, SendKeepalive, SendError
      <3>. QED BY <1>0, <3>1, <3>2
    <2>. QED BY <1>0, <1>7, <2>3 DEF ReplicationServer, Server, SendLine, SendKeepalive, SendError
  <1>8. CASE Collection
    BY <1>0, <1>8 DEF Collection, Write
  <1>9. CASE CancelContext
    BY <1>0, <1>9 DEF CancelContext, Cancel
  <1>. QED BY <1>1, <1>2, <1>3, <1>4, <1>5, <1>6, <1>7, <1>8, <1>9 DEF Next, Program

LEMMA StreamLemma == ASSUME IInv, Next PROVE StreamInv'
  <1>. USE DEF StreamInv, streamVars, cursorVars, workerVars, durableVars, serverVars, readerVars
  <1>0. StreamInv /\ Nothing.kind = "none" /\ Nothing.rec = 0
    BY DEF IInv, Nothing
  <1>a. \A line \in Lines : EventOf(line) \in EventKinds
    BY DEF EventOf, EventKinds
  <1>1. CASE Open
    BY <1>0, <1>1 DEF Open
  <1>2. CASE RangeOver
    BY <1>0, <1>2 DEF RangeOver, BeginLoop, RangeAgain
  <1>3. CASE Decode
    <2>1. phase = "decoding" /\ UNCHANGED <<start, resumes, worker, applied>>
      BY <1>3 DEF Decode, PollStep, PollCheck, Query, QueryFails, SkipRow, DeliverRow, ScanRow, FailRow, RowsFail,
           EndOfRows, WaitForNextPoll, WireStep, StartReplication, WireFails, WireCheck, AcknowledgeFails,
           ReceiveKeepalive, ReceiveError, SkipBlank, SkipLine, DeliverLine, FailLine, CountLine, ReceiveLine, Receive,
           MongoStep, CheckContext, Watch, StreamFails, StreamEnds, DecodeFails, SkipChange, DeliverChange,
           FailChange, CountChange, NextChange
    <2>2. \/ UNCHANGED streamVars
          \/ Return
          \/ YieldError
          \/ \E kind \in EventKinds : \E pos, rec : Yield(kind, pos, rec)
      <3>1. \A r : EventOf(r) \in EventKinds
        BY DEF EventOf, EventKinds
      <3>2. \A b : (IF b THEN "step" ELSE "info") \in EventKinds
        BY DEF EventKinds
      <3>3. CASE PollStep
        BY <3>1, <3>3 DEF PollStep, PollCheck, Query, QueryFails, SkipRow, DeliverRow, ScanRow, FailRow, RowsFail,
             EndOfRows, WaitForNextPoll
      <3>4. CASE WireStep
        BY <3>1, <3>4 DEF WireStep, StartReplication, WireFails, WireCheck, AcknowledgeFails,
             ReceiveKeepalive, ReceiveError, SkipBlank, SkipLine, DeliverLine, FailLine
      <3>5. CASE MongoStep
        BY <3>2, <3>5 DEF MongoStep, CheckContext, Watch, StreamFails, StreamEnds, DecodeFails, SkipChange,
             DeliverChange, FailChange
      <3>. QED BY <1>3, <3>3, <3>4, <3>5 DEF Decode
    <2>. QED BY <1>0, <2>1, <2>2 DEF Return, YieldError, Yield
  <1>4. CASE Consume
    <2>1. UNCHANGED <<start, resumes>>
      BY <1>4 DEF Consume
    <2>2. CASE PassOver
      BY <1>0, <2>1, <2>2 DEF PassOver, Continue
    <2>3. CASE Replay
      BY <1>0, <2>1, <2>3 DEF Replay
    <2>4. CASE SaveCheckpoint
      BY <1>0, <2>1, <2>4 DEF SaveCheckpoint, Continue, BreakOut
    <2>. QED BY <1>4, <2>2, <2>3, <2>4 DEF Consume
  <1>5. CASE Stop \/ Fail
    BY <1>0, <1>5 DEF Stop, Fail, PanicOnError, Leave, Crash, Die, Disconnect
  <1>6. CASE Database \/ ReplicationServer \/ Collection \/ CancelContext
    BY <1>0, <1>6 DEF Database, Commit, ReplicationServer, Server, SendLine, SendKeepalive, SendError, Collection,
         Write, CancelContext, Cancel
  <1>. QED BY <1>1, <1>2, <1>3, <1>4, <1>5, <1>6 DEF Next, Program

(* The poll decoder scans its answer in order, and drops an answer whole.  *)
LEMMA PollLemma == ASSUME IInv, Next, reader = "poll" PROVE PollInv'
  <1>. USE DEF streamVars, cursorVars, workerVars, durableVars, serverVars, readerVars, slotVars, pollVars
  <1>0. PollInv /\ StreamInv /\ Nothing.kind = "none"
    BY DEF IInv, ReaderInv, Nothing
  <1>t. rows \in Seq(Nat) /\ confirmed \in Nat /\ Len(rows) \in Nat /\ applied \subseteq Nat
        /\ wal \in Seq(Lines) /\ Len(wal) \in Nat /\ confirmed <= Len(wal) /\ out.rec \in Nat
    BY DEF IInv, TypeOK, SlotTypeOK, WorkerTypeOK, StreamTypeOK, Outputs
  <1>e. Len(<<>>) = 0 /\ <<>> \in Seq(Nat)
    OBVIOUS
  <1>a. ASSUME \/ rows' = rows
               \/ rows' = <<>>,
               confirmed' = confirmed, applied' = applied, repeats' = repeats,
               out'.kind # "step" \/ (out' = out /\ (worker' = "idle" => worker = "idle"))
        PROVE  PollInv'
    <2>1. CASE rows' = rows
      BY <1>0, <1>a, <2>1 DEF PollInv
    <2>2. CASE rows' = <<>>
      <3>1. \A i \in applied : i <= confirmed
        BY <1>0, <1>t DEF PollInv
      <3>2. out.kind = "step" /\ worker = "idle" => out.rec <= confirmed /\ out.rec \notin applied
        BY <1>0, <1>t DEF PollInv
      <3>. QED BY <1>0, <1>t, <1>e, <1>a, <2>2, <3>1, <3>2 DEF PollInv
    <2>. QED BY <1>a, <2>1, <2>2
  <1>1. CASE Open
    BY <1>1, <1>a DEF Open
  <1>2. CASE RangeOver
    BY <1>2, <1>a DEF RangeOver, BeginLoop, RangeAgain
  <1>3. CASE Decode
    <2>0. PollStep /\ UNCHANGED workerVars
      BY <1>3 DEF Decode
    <2>1. CASE PollCheck \/ QueryFails \/ FailRow \/ RowsFail \/ EndOfRows \/ WaitForNextPoll
      BY <2>0, <2>1, <1>a DEF PollCheck, QueryFails, ScanRow, FailRow, RowsFail, EndOfRows, WaitForNextPoll,
           Return, YieldError
    <2>2. CASE Query
      <3>1. out' = Nothing
        BY <1>0, <2>2 DEF Query, StreamInv
      <3>2. Len(LinesUpTo(Len(wal))) = Len(wal) - confirmed
            /\ \A i \in 1..(Len(wal) - confirmed) : LinesUpTo(Len(wal))[i] = confirmed + i
        BY <1>t DEF LinesUpTo
      <3>3. rows' = LinesUpTo(Len(wal)) /\ confirmed' = Len(wal) /\ applied' = applied /\ repeats' = repeats
        BY <2>0, <2>2 DEF Query
      <3>4. Len(rows') = confirmed' - confirmed
        BY <3>2, <3>3
      <3>5. \A i \in applied : i <= confirmed
        BY <1>0, <1>t DEF PollInv
      <3>6. Len(rows') <= confirmed' /\ confirmed' - Len(rows') = confirmed
        BY <1>t, <3>3, <3>4
      <3>7. \A i \in 1..Len(rows') : rows'[i] = confirmed' - Len(rows') + i
        BY <3>2, <3>3, <3>4, <3>6
      <3>. QED BY <1>0, <3>1, <3>3, <3>5, <3>6, <3>7 DEF PollInv
    <2>3. CASE SkipRow \/ DeliverRow
      <3>1. rows # <<>> /\ rows' = Tail(rows) /\ UNCHANGED <<confirmed, applied, repeats, worker>>
        BY <2>0, <2>3 DEF SkipRow, DeliverRow, ScanRow
      <3>2. Head(rows) = rows[1] /\ Len(rows') = Len(rows) - 1 /\ Len(rows) >= 1
            /\ \A i \in 1..Len(rows') : rows'[i] = rows[i + 1]
        BY <1>t, <3>1
      <3>3. rows[1] = confirmed - Len(rows) + 1
        BY <1>0, <1>t, <3>2 DEF PollInv
      <3>4. \/ out' = out
            \/ out'.rec = rows[1]
        BY <2>3, <3>2 DEF SkipRow, DeliverRow, Yield
      <3>5. out' = out => out'.kind # "step"
        BY <1>0, <2>3 DEF SkipRow, DeliverRow, ScanRow, StreamInv
      <3>6. \A i \in 1..Len(rows') : rows'[i] = confirmed - Len(rows') + i
        <4>. SUFFICES ASSUME NEW i \in 1..Len(rows') PROVE rows'[i] = confirmed - Len(rows') + i
          OBVIOUS
        <4>1. i + 1 \in 1..Len(rows) /\ rows'[i] = rows[i + 1]
          BY <1>t, <3>2
        <4>2. rows[i + 1] = confirmed - Len(rows) + (i + 1)
          BY <1>0, <4>1 DEF PollInv
        <4>. QED BY <1>t, <3>2, <4>1, <4>2
      <3>7. \A i \in applied : i <= confirmed - Len(rows)
        BY <1>0 DEF PollInv
      <3>8. repeats = 0 /\ Len(rows) <= confirmed
        BY <1>0 DEF PollInv
      <3>. QED BY <1>t, <3>1, <3>2, <3>3, <3>4, <3>5, <3>6, <3>7, <3>8 DEF PollInv
    <2>. QED BY <2>0, <2>1, <2>2, <2>3 DEF PollStep
  <1>4. CASE Consume
    <2>1. CASE PassOver
      BY <1>0, <1>4, <2>1, <1>a DEF Consume, PassOver, Continue
    <2>2. CASE Replay
      <3>1. rows' = rows /\ UNCHANGED <<confirmed, out>> /\ worker' = "replayed" /\ applied' = applied \cup {out.rec}
        BY <1>4, <2>2 DEF Consume, Replay
      <3>2. out.rec <= confirmed - Len(rows) /\ repeats' = 0
        BY <1>0, <2>2 DEF Replay, PollInv
      <3>. QED BY <1>0, <3>1, <3>2 DEF PollInv
    <2>3. CASE SaveCheckpoint
      BY <1>0, <1>4, <2>3, <1>a DEF Consume, SaveCheckpoint, Continue, BreakOut
    <2>. QED BY <1>4, <2>1, <2>2, <2>3 DEF Consume
  <1>5. CASE Stop \/ Fail
    BY <1>0, <1>5, <1>a DEF Stop, Fail, PanicOnError, Leave, Crash, Die, Disconnect
  <1>6. CASE Database \/ ReplicationServer \/ Collection \/ CancelContext
    BY <1>6, <1>a DEF Database, Commit, ReplicationServer, Collection, CancelContext, Cancel
  <1>. QED BY <1>1, <1>2, <1>3, <1>4, <1>5, <1>6 DEF Next, Program

(* A change stream begins behind all that was replayed, returns one change *)
(* after the other, and hands each over before it returns the next one.    *)
LEMMA WatchLemma == ASSUME IInv, Next, reader = "watch" PROVE WatchInv'
  <1>. USE DEF streamVars, cursorVars, workerVars, durableVars, serverVars, readerVars, mongoVars
  <1>. DEFINE Conserved == \A i \in opened+1..cursor : oplog[i] = "step" => i \in applied \/ i = out.rec
  <1>0. WatchInv /\ StreamInv /\ Nothing.kind = "none" /\ Nothing.rec = 0
    BY DEF IInv, ReaderInv, Nothing
  <1>t. /\ oplog \in Seq(Entries) /\ Len(oplog) \in Nat /\ cursor \in 0..Len(oplog) /\ cursor \in Nat
        /\ opened \in 0..cursor /\ opened \in Nat /\ out.rec \in Nat
        /\ start \in Nat /\ position \in Nat /\ applied \subseteq Nat
    BY DEF IInv, TypeOK, MongoTypeOK, WorkerTypeOK, StreamTypeOK, Outputs, DecoderTypeOK
  <1>a. ASSUME UNCHANGED <<oplog, opened, cursor, applied, repeats, resumes>>,
               step' = step \/ step' # "next",
               out'.kind # "info" \/ out' = out,
               \/ out'.kind # "step"
               \/ out' = out /\ step' = step /\ (worker' = "idle" => worker = "idle"),
               out'.rec = out.rec \/ out.kind # "step" \/ out.rec \in applied
        PROVE  WatchInv'
    <2>1. ASSUME ~resumes PROVE Conserved'
      <3>1. Conserved
        BY <1>0, <2>1 DEF WatchInv
      <3>2. ASSUME NEW i \in opened+1..cursor, oplog[i] = "step" PROVE i \in applied \/ i = out'.rec
        <4>1. i \in applied \/ i = out.rec
          BY <3>1, <3>2
        <4>2. i = out.rec /\ out.kind # "step" => FALSE
          BY <1>0, <1>t, <3>2 DEF WatchInv, StreamInv, EventKinds
        <4>. QED BY <1>a, <4>1, <4>2
      <3>. QED BY <1>a, <3>2
    <2>. QED BY <1>0, <1>a, <2>1 DEF WatchInv
  <1>1. CASE Open
    BY <1>1, <1>a DEF Open
  <1>2. CASE RangeOver
    <2>1. step' = "check" /\ out = Nothing /\ UNCHANGED <<out, worker, applied, repeats>>
      BY <1>0, <1>2 DEF RangeOver, BeginLoop, RangeAgain, FirstStep, StreamInv
    <2>. QED BY <1>0, <1>2, <1>a, <2>1 DEF RangeOver
  <1>3. CASE Decode
    <2>0. MongoStep /\ UNCHANGED <<resumes, workerVars>>
      BY <1>3 DEF Decode
    <2>1. phase = "decoding" /\ out = Nothing
      BY <1>0, <2>0 DEF MongoStep, CheckContext, Watch, StreamFails, StreamEnds, DecodeFails, SkipChange,
           DeliverChange, FailChange, CountChange, NextChange, StreamInv
    <2>2. CASE CheckContext \/ StreamFails \/ StreamEnds
      BY <1>0, <1>a, <2>0, <2>1, <2>2 DEF CheckContext, StreamFails, StreamEnds, Return, YieldError
    <2>3. CASE Watch
      <3>1. opened' = Len(oplog) /\ cursor' = Len(oplog) /\ UNCHANGED <<oplog, applied, repeats, out>>
        BY <2>0, <2>3 DEF Watch
      <3>2. \A i \in applied : i <= Len(oplog)
        BY <1>0 DEF WatchInv
      <3>3. opened'+1..cursor' = {}
        BY <1>t, <3>1
      <3>. QED BY <1>0, <2>1, <3>1, <3>2, <3>3 DEF WatchInv
    <2>4. CASE DecodeFails \/ SkipChange \/ DeliverChange \/ FailChange
      <3>1. /\ cursor' = cursor + 1 /\ cursor < Len(oplog) /\ step = "next"
            /\ UNCHANGED <<oplog, opened, step, applied, repeats, resumes, worker, start>>
        BY <2>0, <2>4 DEF DecodeFails, SkipChange, DeliverChange, FailChange, CountChange, NextChange
      <3>2. \A i \in applied : i <= cursor
        BY <1>0, <3>1 DEF WatchInv
      <3>3. \/ out'.rec = cursor' /\ out'.kind \in EventKinds /\ (out'.kind = "info" => oplog[cursor'] # "step")
            \/ out'.kind \notin EventKinds /\ (~resumes => oplog[cursor'] # "step")
        <4>1. CASE DecodeFails \/ FailChange
          BY <4>1 DEF DecodeFails, FailChange, YieldError, EventKinds
        <4>2. CASE SkipChange
          <5>1. start > 0
            BY <1>t, <4>2 DEF SkipChange
          <5>. QED BY <1>0, <1>t, <2>1, <4>2, <5>1 DEF SkipChange, StreamInv, EventKinds
        <4>3. CASE DeliverChange
          BY <4>3 DEF DeliverChange, Yield, EventKinds
        <4>. QED BY <2>4, <4>1, <4>2, <4>3
      <3>4. ASSUME ~resumes PROVE Conserved'
        <4>1. Conserved /\ out.rec = 0
          BY <1>0, <2>1, <3>4 DEF WatchInv
        <4>2. ASSUME NEW i \in opened+1..cursor+1, oplog[i] = "step" PROVE i \in applied \/ i = out'.rec
          <5>1. CASE i = cursor + 1
            BY <3>1, <3>3, <3>4, <4>2, <5>1
          <5>2. CASE i \in opened+1..cursor
            BY <1>t, <4>1, <4>2, <5>2
          <5>. QED BY <1>t, <5>1, <5>2
        <4>. QED BY <3>1, <4>2
      <3>5. \A i \in applied : i <= cursor'
        BY <1>t, <3>1, <3>2
      <3>6. cursor' \notin applied /\ cursor' \in 1..Len(oplog)
        BY <1>t, <3>1, <3>2
      <3>7. repeats = 0 /\ applied \subseteq 1..Len(oplog)
        BY <1>0 DEF WatchInv
      <3>8. out'.kind \in {"step", "info"} => out'.rec = cursor' /\ (out'.kind = "info" => oplog[cursor'] # "step")
        BY <3>3 DEF EventKinds
      <3>. QED BY <1>t, <3>1, <3>4, <3>5, <3>6, <3>7, <3>8 DEF WatchInv
    <2>. QED BY <2>0, <2>2, <2>3, <2>4 DEF MongoStep
  <1>4. CASE Consume
    <2>1. CASE PassOver
      BY <1>0, <1>4, <2>1, <1>a DEF Consume, PassOver, Continue
    <2>2. CASE Replay
      <3>1. applied' = applied \cup {out.rec} /\ worker' = "replayed"
            /\ UNCHANGED <<oplog, opened, cursor, step, out, resumes>>
        BY <1>4, <2>2 DEF Consume, Replay
      <3>2. step = "next" /\ out.rec = cursor /\ cursor > 0 /\ repeats' = 0 /\ out.kind = "step"
        BY <1>0, <2>2 DEF Replay, WatchInv
      <3>3. applied' \subseteq 1..Len(oplog)
        BY <1>0, <1>t, <3>1, <3>2 DEF WatchInv
      <3>4. \A i \in applied' : i <= cursor
        BY <1>0, <1>t, <3>1, <3>2 DEF WatchInv
      <3>5. ~resumes => Conserved'
        BY <1>0, <3>1 DEF WatchInv
      <3>. QED BY <3>1, <3>2, <3>3, <3>4, <3>5 DEF WatchInv
    <2>3. CASE SaveCheckpoint
      <3>1. out.rec \in applied /\ out' = Nothing
        BY <1>0, <2>3 DEF SaveCheckpoint, Continue, BreakOut, StreamInv
      <3>. QED BY <1>0, <1>4, <2>3, <3>1, <1>a DEF Consume, SaveCheckpoint
    <2>. QED BY <1>4, <2>1, <2>2, <2>3 DEF Consume
  <1>5. CASE Stop \/ Fail
    <2>1. Die /\ Disconnect
      BY <1>5 DEF Stop, Fail, PanicOnError, Leave, Crash
    <2>2. /\ opened' = 0 /\ cursor' = 0 /\ step' = "check" /\ out' = Nothing
          /\ UNCHANGED <<oplog, applied, repeats, resumes>>
      BY <2>1 DEF Die, Disconnect, FirstStep
    <2>. QED BY <1>0, <2>2 DEF WatchInv
  <1>6. CASE Collection
    <2>1. PICK e \in Entries : oplog' = Append(oplog, e)
      BY <1>6 DEF Collection, Write
    <2>2. UNCHANGED <<opened, cursor, step, out, worker, applied, repeats, resumes>>
      BY <1>6 DEF Collection, Write
    <2>3. Len(oplog') = Len(oplog) + 1 /\ \A i \in 1..Len(oplog) : oplog'[i] = oplog[i]
      BY <1>t, <2>1
    <2>4. ~resumes => Conserved'
      <3>1. \A i \in opened+1..cursor : i \in 1..Len(oplog)
        BY <1>t
      <3>. QED BY <1>0, <2>2, <2>3, <3>1 DEF WatchInv
    <2>5. applied \subseteq 1..Len(oplog')
      BY <1>0, <1>t, <2>3 DEF WatchInv
    <2>6. out.kind = "info" => out.rec \in 1..Len(oplog') /\ oplog'[out.rec] # "step"
      BY <1>0, <1>t, <2>3 DEF WatchInv
    <2>. QED BY <1>0, <2>2, <2>4, <2>5, <2>6 DEF WatchInv
  <1>7. CASE Database \/ ReplicationServer \/ CancelContext
    BY <1>7, <1>a DEF Database, ReplicationServer, CancelContext, Cancel
  <1>. QED BY <1>1, <1>2, <1>3, <1>4, <1>5, <1>6, <1>7 DEF Next, Program

(* What the server sends keeps the order on the connection.                *)
LEMMA SendLemma ==
  ASSUME IInv, WireInv, ReplicationServer PROVE WireInv'
  <1>. USE DEF streamVars, cursorVars, workerVars, durableVars, slotVars, pollVars, mongoVars
  <1>t. /\ wire \in Seq(Messages) /\ Len(wire) \in Nat /\ sent \in Nat /\ sent <= Len(wal) /\ Len(wal) \in Nat
        /\ \A j \in 1..Len(wire) : wire[j].rec \in Nat
    <2>1. wire \in Seq(Messages) /\ sent \in 0..Len(wal) /\ wal \in Seq(Lines)
      BY DEF IInv, TypeOK, SlotTypeOK
    <2>2. \A j \in 1..Len(wire) : wire[j] \in Messages
      BY <2>1
    <2>. QED BY <2>1, <2>2 DEF Messages
  <1>1. PICK m \in Messages :
          /\ wire' = Append(wire, m)
          /\ \/ m.kind = "data" /\ m.rec = sent + 1 /\ sent' = sent + 1
             \/ m.kind = "keepalive" /\ m.rec = sent /\ sent' = sent
             \/ m.kind = "error" /\ sent' = sent
    <2>1. \A n \in Nat : Message("data", n) \in Messages /\ Message("keepalive", n) \in Messages
                         /\ Message("error", n) \in Messages
      BY DEF Message, Messages
    <2>2. \A kind, n : Message(kind, n).kind = kind /\ Message(kind, n).rec = n
      BY DEF Message
    <2>. QED BY <1>t, <2>1, <2>2 DEF ReplicationServer, Server, SendLine, SendKeepalive, SendError
  <1>2. started /\ UNCHANGED <<wal, confirmed, started, step, rows, out, applied, resumes>>
    BY DEF ReplicationServer, Server, SendLine, SendKeepalive, SendError
  <1>3. /\ Len(wire') = Len(wire) + 1 /\ wire'[Len(wire) + 1] = m
        /\ \A j \in 1..Len(wire) : wire'[j] = wire[j]
    BY <1>t, <1>1
  <1>4. OrderInv'
    <2>1. OrderInv
      BY DEF WireInv
    <2>2. \A j \in 1..Len(wire') : j \in 1..Len(wire) \/ j = Len(wire) + 1
      BY <1>t, <1>3
    <2>3. ASSUME NEW j \in 1..Len(wire'), wire'[j].kind # "error" PROVE wire'[j].rec <= sent'
      BY <1>t, <1>1, <1>3, <2>1, <2>2, <2>3 DEF OrderInv
    <2>4. ASSUME NEW j \in 1..Len(wire'), wire'[j].kind = "data" PROVE wire'[j].rec > 0
      BY <1>t, <1>1, <1>3, <2>1, <2>2, <2>4 DEF OrderInv
    <2>5. ASSUME NEW j \in 1..Len(wire'), NEW k \in 1..Len(wire'), j < k,
                 wire'[j].kind # "error", wire'[k].kind = "data"
          PROVE  wire'[j].rec < wire'[k].rec
      <3>1. j \in 1..Len(wire)
        BY <1>t, <1>3, <2>2, <2>5
      <3>2. CASE k \in 1..Len(wire)
        BY <1>3, <2>1, <2>5, <3>1, <3>2 DEF OrderInv
      <3>3. CASE k = Len(wire) + 1
        BY <1>t, <1>1, <1>3, <2>1, <2>5, <3>1, <3>3 DEF OrderInv
      <3>. QED BY <2>2, <3>2, <3>3
    <2>. QED BY <2>3, <2>4, <2>5 DEF OrderInv
  <1>5. \A i : InWire(i) => InWire(i)'
    BY <1>t, <1>3 DEF InWire
  <1>6. ASSUME ~resumes, out.kind # "error", NEW i \in Steps, i <= sent'
        PROVE  i \in applied \/ i = out.rec \/ InWire(i)'
    <2>1. CASE i <= sent
      BY <1>2, <1>5, <1>6, <2>1 DEF WireInv
    <2>2. CASE i = sent + 1 /\ sent' = sent + 1
      <3>1. m.kind = "data" /\ m.rec = i
        BY <1>t, <1>1, <2>2
      <3>2. Len(wire) + 1 \in 1..Len(wire')
        BY <1>t, <1>3
      <3>. QED BY <1>3, <3>1, <3>2 DEF InWire
    <2>. QED BY <1>t, <1>1, <1>6, <2>1, <2>2 DEF Steps
  <1>7. Steps' = Steps /\ ResumePoint' = ResumePoint
    BY <1>2 DEF Steps, ResumePoint
  <1>. QED BY <1>2, <1>4, <1>6, <1>7 DEF WireInv

(* A transaction that commits moves no line before it.                     *)
LEMMA CommitLemma ==
  ASSUME IInv, WireInv, Database PROVE WireInv'
  <1>. USE DEF streamVars, cursorVars, workerVars, durableVars, readerVars, wireVars, pollVars
  <1>t. wal \in Seq(Lines) /\ Len(wal) \in Nat /\ confirmed \in 0..Len(wal) /\ sent \in 0..Len(wal)
    BY DEF IInv, TypeOK, SlotTypeOK
  <1>1. UNCHANGED <<confirmed, started, sent, wire, step, rows, out, applied, resumes>>
    BY DEF Database, Commit
  <1>2. PICK changes \in Seq(Changes) : wal' = wal \o (<<"begin">> \o changes \o <<"commit">>)
    <2>1. PICK changes \in Seq(Changes) : Commit(changes)
      <3>1. \A c, d \in Changes : <<c>> \in Seq(Changes) /\ <<c, d>> \in Seq(Changes)
        OBVIOUS
      <3>. QED BY <3>1, Zenon DEF Database
    <2>2. wal' = wal \o <<"begin">> \o changes \o <<"commit">>
      BY <2>1 DEF Commit
    <2>3. wal' = wal \o (<<"begin">> \o changes \o <<"commit">>)
      BY <1>t, <2>1, <2>2 DEF Lines
    <2>. QED BY <2>1, <2>3
  <1>3. Len(wal') >= Len(wal) /\ Len(wal') \in Nat /\ \A i \in 1..Len(wal) : wal'[i] = wal[i]
    <2>1. (<<"begin">> \o changes \o <<"commit">>) \in Seq(Lines)
      BY DEF Lines
    <2>. QED BY <1>t, <1>2, <2>1
  <1>4. ResumePoint' = ResumePoint
    <2>1. {i \in 1..confirmed : wal'[i] = "commit"} = {i \in 1..confirmed : wal[i] = "commit"}
      BY <1>t, <1>3
    <2>. QED BY <1>1, <2>1 DEF ResumePoint
  <1>5. \A i \in Steps' : i <= confirmed \/ i <= sent => i \in Steps
    BY <1>t, <1>1, <1>3 DEF Steps
  <1>6. ResumePoint <= confirmed /\ ResumePoint \in Nat
    BY <1>t, ResumePointLemma DEF SlotTypeOK
  <1>7. \A i \in Steps' : i <= ResumePoint => i \in Steps
    BY <1>t, <1>5, <1>6 DEF Steps
  <1>8. OrderInv' /\ \A i : InWire(i)' <=> InWire(i)
    BY <1>1 DEF WireInv, OrderInv, InWire
  <1>9. out.kind = "info" => wal'[out.rec] # "step" /\ out.rec \in 1..Len(wal')
    BY <1>t, <1>3 DEF WireInv
  <1>. QED BY <1>1, <1>4, <1>5, <1>7, <1>8, <1>9 DEF WireInv

(* A message that is received and acknowledged: the slot moves up to it at *)
(* most, and what lies before it has left the connection.                  *)
LEMMA ReceiveLemma ==
  ASSUME IInv, WireInv, reader = "wire", WireStep, UNCHANGED <<pollVars, mongoVars, resumes, workerVars>>,
         ReceiveKeepalive \/ SkipBlank \/ SkipLine \/ DeliverLine \/ FailLine
  PROVE  WireInv'
  <1>. USE DEF streamVars, cursorVars, workerVars, durableVars, slotVars, pollVars, mongoVars
  <1>1. PICK kind \in {"data", "keepalive"} : Receive(kind) /\ Acknowledge(Head(wire).rec)
    BY DEF ReceiveKeepalive, SkipBlank, SkipLine, DeliverLine, FailLine, CountLine, ReceiveLine
  <1>. DEFINE head == wire[1].rec
  <1>2. /\ Head(wire) = wire[1] /\ wire[1].kind = kind /\ Len(wire) > 0
        /\ head \in Nat /\ head <= sent
        /\ confirmed' = confirmed \/ (confirmed' = head /\ confirmed <= confirmed')
        /\ confirmed' \in 0..Len(wal)
    BY <1>1, AcknowledgeLemma DEF IInv, WireInv
  <1>t. /\ wire \in Seq(Messages) /\ Len(wire) \in Nat /\ sent \in 0..Len(wal) /\ Len(wal) \in Nat
        /\ start \in Nat /\ position \in Nat
    BY DEF IInv, TypeOK, SlotTypeOK, DecoderTypeOK
  <1>3. /\ wire' = Tail(wire) /\ step' = "check"
        /\ UNCHANGED <<wal, sent, started, start, rows, applied, worker, resumes>>
        /\ phase = "decoding"
    BY <1>1 DEF Receive
  <1>4. /\ Len(wire') = Len(wire) - 1
        /\ \A j \in 1..Len(wire') : j + 1 \in 1..Len(wire) /\ wire'[j] = wire[j + 1]
        /\ \A j \in 1..Len(wire) : j = 1 \/ (j - 1 \in 1..Len(wire') /\ wire'[j - 1] = wire[j])
    BY <1>t, <1>2, <1>3
  <1>5. OrderInv /\ started /\ out = Nothing /\ out.kind # "error" /\ out.rec = 0
    <2>1. started /\ OrderInv
      BY <1>t, <1>1, <1>2 DEF WireInv
    <2>. QED BY <1>3, <2>1 DEF IInv, StreamInv, Nothing
  <1>6. OrderInv'
    <2>1. \A j \in 1..Len(wire') : wire'[j].kind # "error" => wire'[j].rec <= sent'
      BY <1>3, <1>4, <1>5 DEF OrderInv
    <2>2. \A j \in 1..Len(wire') : wire'[j].kind = "data" => wire'[j].rec > 0
      BY <1>4, <1>5 DEF OrderInv
    <2>3. ASSUME NEW j \in 1..Len(wire'), NEW k \in 1..Len(wire'), j < k,
                 wire'[j].kind # "error", wire'[k].kind = "data"
          PROVE  wire'[j].rec < wire'[k].rec
      <3>1. j + 1 \in 1..Len(wire) /\ k + 1 \in 1..Len(wire) /\ j + 1 < k + 1
        BY <1>4, <2>3
      <3>. QED BY <1>4, <1>5, <2>3, <3>1 DEF OrderInv
    <2>. QED BY <2>1, <2>2, <2>3 DEF OrderInv
  <1>7. ASSUME ~resumes, NEW i \in Steps, i <= sent
        PROVE  i \in applied \/ InWire(i)' \/ (kind = "data" /\ i = head)
    <2>1. i \in applied \/ InWire(i)
      BY <1>5, <1>7 DEF WireInv, Steps
    <2>2. ASSUME NEW j \in 1..Len(wire), wire[j].kind = "data", wire[j].rec = i, j # 1 PROVE InWire(i)'
      BY <1>4, <2>2 DEF InWire
    <2>. QED BY <1>2, <2>1, <2>2 DEF InWire
  <1>8. ASSUME ~resumes, NEW i \in Steps, i < head PROVE i \in applied
    <2>0. i \in Nat /\ i <= sent
      BY <1>t, <1>2, <1>8 DEF Steps
    <2>1. CASE InWire(i)'
      <3>1. PICK j \in 1..Len(wire') : wire'[j].kind = "data" /\ wire'[j].rec = i
        BY <2>1 DEF InWire
      <3>2. j + 1 \in 1..Len(wire) /\ 1 < j + 1 /\ wire[j + 1].kind = "data" /\ wire[j + 1].rec = i
        BY <1>4, <3>1
      <3>3. head < i
        BY <1>1, <1>2, <1>5, <1>t, <3>2 DEF OrderInv
      <3>. QED BY <1>2, <1>8, <2>0, <3>3
    <2>. QED BY <1>2, <1>7, <1>8, <2>0, <2>1
  <1>9. ASSUME ~resumes, NEW i \in Steps', i <= ResumePoint' PROVE i \in applied
    <2>0. i \in Steps /\ wal[i] = "step" /\ i \in 1..Len(wal)
      BY <1>3, <1>9 DEF Steps
    <2>1. CASE confirmed' = confirmed
      <3>1. ResumePoint' = ResumePoint
        BY <1>3, <2>1 DEF ResumePoint
      <3>. QED BY <1>9, <2>0, <3>1 DEF WireInv
    <2>2. CASE confirmed' = head
      <3>1. ResumePoint' \in 0..head /\ (ResumePoint' = 0 \/ wal[ResumePoint'] = "commit")
        <4>1. LET last == Max({0} \cup {k \in 1..head : wal[k] = "commit"}) IN
              last \in 0..head /\ (last = 0 \/ wal[last] = "commit")
          BY <1>2, LastCommitLemma, Zenon
        <4>2. ResumePoint' = Max({0} \cup {k \in 1..head : wal[k] = "commit"})
          BY <1>3, <2>2 DEF ResumePoint
        <4>. QED BY <4>1, <4>2, Zenon
      <3>2. i # ResumePoint'
        BY <2>0, <3>1
      <3>3. i < head
        BY <1>2, <1>9, <2>0, <3>1, <3>2
      <3>. QED BY <1>8, <1>9, <2>0, <3>3
    <2>. QED BY <1>2, <2>1, <2>2
  <1>10. kind = "data" =>
           \/ out'.kind \in EventKinds /\ out'.rec = head /\ (out'.kind = "info" => wal[head] # "step")
           \/ out'.kind = "error"
           \/ out' = out /\ (~resumes => wal[head] # "step")
    <2>1. CASE ReceiveKeepalive
      BY <1>1, <2>1 DEF ReceiveKeepalive, Receive
    <2>2. CASE SkipBlank
      BY <1>2, <2>2 DEF SkipBlank
    <2>3. CASE SkipLine
      <3>1. start > 0
        BY <1>t, <2>3 DEF SkipLine
      <3>. QED BY <3>1, <2>3 DEF SkipLine, IInv, StreamInv
    <2>4. CASE DeliverLine
      BY <1>2, <2>4 DEF DeliverLine, Yield, EventOf, EventKinds
    <2>5. CASE FailLine
      BY <2>5 DEF FailLine, YieldError
    <2>. QED BY <2>1, <2>2, <2>3, <2>4, <2>5
  <1>11. kind = "keepalive" => out' = out
    BY <1>1 DEF ReceiveKeepalive, SkipBlank, SkipLine, DeliverLine, FailLine, CountLine, ReceiveLine, Receive
  <1>12. kind = "data" => head \in 1..Len(wal)
    BY <1>t, <1>2, <1>5 DEF OrderInv
  <1>13. out'.kind = "info" => wal[out'.rec] # "step" /\ out'.rec \in 1..Len(wal)
    BY <1>1, <1>5, <1>10, <1>11, <1>12 DEF Nothing
  <1>14. ASSUME ~resumes, out'.kind # "error", NEW i \in Steps', i <= sent'
         PROVE  i \in applied' \/ i = out'.rec \/ InWire(i)'
    <2>1. i \in Steps /\ wal[i] = "step" /\ i <= sent
      BY <1>3, <1>14 DEF Steps
    <2>. QED BY <1>3, <1>7, <1>10, <1>14, <2>1
  <1>15. rows' = <<>> /\ started'
    BY <1>3, <1>5 DEF WireInv
  <1>. QED BY <1>3, <1>6, <1>9, <1>13, <1>14, <1>15 DEF WireInv

LEMMA WireLemma == ASSUME IInv, Next, reader = "wire" PROVE WireInv'
  <1>. USE DEF streamVars, cursorVars, workerVars, durableVars, serverVars, readerVars, slotVars, wireVars
  <1>0. WireInv /\ StreamInv /\ Nothing.kind = "none" /\ Nothing.rec = 0
    BY DEF IInv, ReaderInv, Nothing
  <1>t. /\ wire \in Seq(Messages) /\ Len(wire) \in Nat /\ sent \in 0..Len(wal) /\ Len(wal) \in Nat
        /\ out.rec \in Nat
    BY DEF IInv, TypeOK, SlotTypeOK, StreamTypeOK, WorkerTypeOK, Outputs
  <1>a. ASSUME UNCHANGED <<wal, confirmed, started, sent, wire, applied, resumes>>, rows' = <<>>,
               step' = "start" => ~started,
               out'.kind # "info" \/ out' = out,
               out'.kind = "error" \/ (out.kind # "error"
                 /\ (out'.rec = out.rec \/ out.kind # "step" \/ out.rec \in applied))
        PROVE  WireInv'
    <2>1. Steps' = Steps /\ ResumePoint' = ResumePoint /\ OrderInv' /\ \A i : InWire(i)' <=> InWire(i)
      BY <1>0, <1>a DEF Steps, ResumePoint, WireInv, OrderInv, InWire
    <2>2. ASSUME ~resumes, started, out'.kind # "error", NEW i \in Steps, i <= sent
          PROVE  i \in applied \/ i = out'.rec \/ InWire(i)
      <3>1. i \in applied \/ i = out.rec \/ InWire(i)
        BY <1>0, <1>a, <2>2 DEF WireInv
      <3>2. wal[i] = "step" /\ i # 0
        BY <1>t, <2>2 DEF Steps
      <3>3. i = out.rec => out.kind = "step"
        BY <1>0, <1>a, <2>2, <3>2 DEF WireInv, StreamInv, EventKinds
      <3>. QED BY <1>a, <2>2, <3>1, <3>3
    <2>. QED BY <1>0, <1>a, <2>1, <2>2 DEF WireInv
  <1>1. CASE Open
    <2>1. rows' = <<>> /\ (step' = "start" => ~started) /\ out' = out
          /\ UNCHANGED <<wal, confirmed, started, sent, wire, applied, resumes>>
      BY <1>0, <1>1 DEF Open, WireInv, StreamInv, pollVars
    <2>. QED BY <2>1, <1>a
  <1>2. CASE RangeOver
    <2>1. out = Nothing /\ UNCHANGED <<out, applied>> /\ (step' = "start" => ~started)
      BY <1>0, <1>2 DEF RangeOver, BeginLoop, RangeAgain, StreamInv, FirstStep
    <2>2. rows' = <<>> /\ UNCHANGED <<wal, confirmed, started, sent, wire, resumes>>
      BY <1>0, <1>2 DEF RangeOver, WireInv, pollVars
    <2>. QED BY <2>1, <2>2, <1>a
  <1>3. CASE Decode
    <2>0. WireStep /\ UNCHANGED <<pollVars, mongoVars, resumes, workerVars>>
      BY <1>3 DEF Decode
    <2>a. rows' = <<>>
      BY <1>0, <2>0 DEF pollVars, WireInv
    <2>1. CASE StartReplication
      <3>1. ~started /\ wire = <<>> /\ out = Nothing
        BY <1>0, <2>1 DEF StartReplication, WireInv, StreamInv
      <3>2. started' /\ sent' = ResumePoint /\ step' = "check"
            /\ UNCHANGED <<wal, confirmed, wire, out, applied, resumes>>
        BY <2>0, <2>1 DEF StartReplication
      <3>3. Steps' = Steps /\ ResumePoint' = ResumePoint
        BY <3>2 DEF Steps, ResumePoint
      <3>4. OrderInv'
        BY <3>1, <3>2 DEF OrderInv
      <3>5. ASSUME ~resumes, NEW i \in Steps, i <= ResumePoint PROVE i \in applied
        BY <1>0, <3>5 DEF WireInv
      <3>. QED BY <1>0, <2>a, <3>1, <3>2, <3>3, <3>4, <3>5 DEF WireInv
    <2>2. CASE WireFails \/ WireCheck
      <3>1. out = Nothing
        BY <1>0, <2>2 DEF WireFails, WireCheck, StreamInv
      <3>. QED BY <1>0, <2>0, <2>a, <2>2, <3>1, <1>a DEF WireFails, WireCheck, YieldError, Return, WireInv
    <2>3. CASE AcknowledgeFails \/ ReceiveError
      <3>1. PICK kind : Receive(kind) /\ out'.kind = "error" /\ confirmed' = confirmed
        BY <2>3 DEF AcknowledgeFails, ReceiveError, YieldError
      <3>2. wire' = Tail(wire) /\ wire # <<>> /\ step' = "check" /\ UNCHANGED <<wal, sent, started, applied, resumes>>
        BY <2>0, <3>1 DEF Receive
      <3>3. \A j \in 1..Len(wire') : j + 1 \in 1..Len(wire) /\ wire'[j] = wire[j + 1]
        BY <1>t, <3>2
      <3>4. OrderInv'
        <4>1. OrderInv
          BY <1>0 DEF WireInv
        <4>2. ASSUME NEW j \in 1..Len(wire'), NEW k \in 1..Len(wire'), j < k,
                     wire'[j].kind # "error", wire'[k].kind = "data"
              PROVE  wire'[j].rec < wire'[k].rec
          <5>1. j + 1 \in 1..Len(wire) /\ k + 1 \in 1..Len(wire) /\ j + 1 < k + 1
            BY <3>3, <4>2
          <5>. QED BY <3>3, <4>1, <4>2, <5>1 DEF OrderInv
        <4>. QED BY <3>2, <3>3, <4>1, <4>2 DEF OrderInv
      <3>5. Steps' = Steps /\ ResumePoint' = ResumePoint
        BY <3>1, <3>2 DEF Steps, ResumePoint
      <3>6. started
        BY <1>0, <3>2 DEF WireInv
      <3>. QED BY <1>0, <2>a, <3>1, <3>2, <3>4, <3>5, <3>6 DEF WireInv
    <2>4. CASE ReceiveKeepalive \/ SkipBlank \/ SkipLine \/ DeliverLine \/ FailLine
      BY <1>0, <2>0, <2>4, ReceiveLemma
    <2>. QED BY <2>0, <2>1, <2>2, <2>3, <2>4 DEF WireStep
  <1>4. CASE Consume
    <2>0. rows' = <<>> /\ UNCHANGED <<wal, confirmed, resumes, started, sent, wire, step>>
      BY <1>0, <1>4 DEF Consume, WireInv
    <2>s. step = "start" => ~started
      BY <1>0 DEF WireInv
    <2>1. CASE PassOver
      BY <1>0, <2>0, <2>s, <2>1, <1>a DEF PassOver, Continue, EventKinds
    <2>2. CASE Replay
      <3>1. applied' = applied \cup {out.rec} /\ out' = out /\ out.kind = "step"
        BY <2>2 DEF Replay
      <3>2. Steps' = Steps /\ ResumePoint' = ResumePoint /\ OrderInv' /\ \A i : InWire(i)' <=> InWire(i)
        BY <1>0, <2>0 DEF Steps, ResumePoint, WireInv, OrderInv, InWire
      <3>. QED BY <1>0, <2>0, <2>s, <3>1, <3>2 DEF WireInv
    <2>3. CASE SaveCheckpoint
      <3>1. out.rec \in applied /\ out' = Nothing /\ out.kind = "step" /\ applied' = applied
        BY <1>0, <2>3 DEF SaveCheckpoint, Continue, BreakOut, StreamInv
      <3>. QED BY <1>0, <2>0, <2>s, <3>1, <1>a
    <2>. QED BY <1>4, <2>1, <2>2, <2>3 DEF Consume
  <1>5. CASE Stop \/ Fail
    <2>1. Die /\ Disconnect
      BY <1>5 DEF Stop, Fail, PanicOnError, Leave, Crash
    <2>2. /\ rows' = <<>> /\ ~started' /\ wire' = <<>> /\ out' = Nothing
          /\ UNCHANGED <<wal, confirmed, applied, resumes>>
      BY <2>1 DEF Die, Disconnect
    <2>3. Steps' = Steps /\ ResumePoint' = ResumePoint
      BY <2>2 DEF Steps, ResumePoint
    <2>4. OrderInv'
      BY <2>2 DEF OrderInv
    <2>. QED BY <1>0, <2>2, <2>3, <2>4 DEF WireInv
  <1>6. CASE Database
    BY <1>0, <1>6, CommitLemma
  <1>7. CASE ReplicationServer
    BY <1>0, <1>7, SendLemma
  <1>8. CASE Collection
    BY <1>8 DEF Collection
  <1>9. CASE CancelContext
    <2>1. rows' = <<>> /\ (step' = "start" => ~started) /\ out' = out
          /\ UNCHANGED <<wal, confirmed, started, sent, wire, applied, resumes>>
      BY <1>0, <1>9 DEF CancelContext, Cancel, WireInv, pollVars
    <2>. QED BY <2>1, <1>a
  <1>. QED BY <1>1, <1>2, <1>3, <1>4, <1>5, <1>6, <1>7, <1>8, <1>9 DEF Next, Program

(* No step changes which decoder the worker opened.                        *)
LEMMA ReaderLemma == ASSUME Next PROVE reader' = reader
  <1>. USE DEF serverVars, readerVars, slotVars
  <1>1. CASE Decode
    BY <1>1 DEF Decode, PollStep, PollCheck, Query, QueryFails, SkipRow, DeliverRow, ScanRow, FailRow, RowsFail,
         EndOfRows, WaitForNextPoll, WireStep, StartReplication, WireFails, WireCheck, AcknowledgeFails,
         ReceiveKeepalive, ReceiveError, SkipBlank, SkipLine, DeliverLine, FailLine, CountLine, ReceiveLine, Receive,
         MongoStep, CheckContext, Watch, StreamFails, StreamEnds, DecodeFails, SkipChange, DeliverChange,
         FailChange, CountChange, NextChange
  <1>2. CASE Open \/ RangeOver \/ Consume \/ Stop \/ Fail
    BY <1>2 DEF Open, RangeOver, Consume, Stop, Fail, Disconnect
  <1>3. CASE Database \/ ReplicationServer \/ Collection \/ CancelContext
    BY <1>3 DEF Database, Commit, ReplicationServer, Server, SendLine, SendKeepalive, SendError, Collection,
         Write, CancelContext, Cancel
  <1>. QED BY <1>1, <1>2, <1>3 DEF Next, Program

LEMMA NextLemma == IInv /\ [Next]_vars => IInv'
  <1>1. ASSUME IInv, Next PROVE IInv'
    <2>1. TypeOK' /\ StreamInv' /\ reader' = reader
      BY <1>1, TypeLemma, StreamLemma, ReaderLemma
    <2>2. reader = "poll" => PollInv'
      BY <1>1, PollLemma
    <2>3. reader = "wire" => WireInv'
      BY <1>1, WireLemma
    <2>4. reader = "watch" => WatchInv'
      BY <1>1, WatchLemma
    <2>. QED BY <2>1, <2>2, <2>3, <2>4 DEF IInv, ReaderInv
  <1>2. ASSUME IInv, UNCHANGED vars PROVE IInv'
    <2>. USE <1>2 DEF vars, serverVars, readerVars, cursorVars, streamVars, workerVars, durableVars, pollVars, wireVars
    <2>1. TypeOK'
      BY DEF IInv, TypeOK, DecoderTypeOK, SlotTypeOK, MongoTypeOK, WorkerTypeOK, StreamTypeOK
    <2>2. StreamInv'
      BY DEF IInv, StreamInv
    <2>3. reader = "poll" => PollInv'
      BY DEF IInv, ReaderInv, PollInv
    <2>4. reader = "watch" => WatchInv'
      BY DEF IInv, ReaderInv, WatchInv
    <2>5. reader = "wire" => WireInv'
      BY DEF IInv, ReaderInv, WireInv, OrderInv, InWire, Steps, ResumePoint
    <2>. QED BY <2>1, <2>2, <2>3, <2>4, <2>5 DEF IInv, ReaderInv
  <1>. QED BY <1>1, <1>2

(* The inductive invariant holds in every reachable state.                 *)
THEOREM Invariance == Spec => []IInv
  BY InitLemma, NextLemma, PTL DEF Spec

(* Every variable keeps its type, however the decoders, the server and the *)
(* worker interleave.                                                      *)
THEOREM TypeCorrect == Spec => []TypeOK
  <1>1. IInv => TypeOK
    BY DEF IInv
  <1>. QED BY <1>1, Invariance, PTL

(* The polling decoder and the change stream never replay an operation     *)
(* twice, whatever checkpoint a restarted worker passes.                   *)
THEOREM AtMostOnceHolds == Spec => []AtMostOnce
  <1>1. IInv => AtMostOnce
    BY DEF IInv, TypeOK, DecoderTypeOK, Decoders, ReaderInv, PollInv, WatchInv, AtMostOnce
  <1>. QED BY <1>1, Invariance, PTL

(* The wire decoder acknowledges before it hands over, and the slot still  *)
(* gives up no operation that was not replayed.                            *)
THEOREM WireAtLeastOnceHolds == Spec => []WireAtLeastOnce
  <1>1. ASSUME IInv, reader = "wire", ~resumes PROVE ConsumedWasReplayed
    <2>1. \A i \in Steps : i <= ResumePoint => i \in applied
      BY <1>1 DEF IInv, ReaderInv, WireInv
    <2>2. Consumed = 1..ResumePoint
      BY <1>1 DEF Consumed
    <2>3. \A i \in Steps \cap Consumed : i \in applied
      BY <2>1, <2>2, <1>1, ResumePointLemma DEF IInv, TypeOK, SlotTypeOK
    <2>. QED BY <2>3 DEF ConsumedWasReplayed
  <1>2. IInv => WireAtLeastOnce
    BY <1>1 DEF WireAtLeastOnce
  <1>. QED BY <1>2, Invariance, PTL

(* What the current change stream returned was replayed or is being handed *)
(* over, also in the second loop over one decoder.                         *)
THEOREM WatchedWasReplayedHolds == Spec => []WatchedWasReplayed
  <1>1. IInv => WatchedWasReplayed
    BY DEF IInv, ReaderInv, WatchInv, WatchedWasReplayed
  <1>. QED BY <1>1, Invariance, PTL

==================================================================================
