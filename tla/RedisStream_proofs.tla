---------------------------- MODULE RedisStream_proofs ----------------------------
(***************************************************************************)
(* Proofs about RedisStream, for any number of commands, loops, failed     *)
(* handshakes, newlines and dropped connections.                           *)
(***************************************************************************)
EXTENDS RedisStream, SequenceTheorems, TLAPS

----------------------------------------------------------------------------------
(* What holds whatever the decoder misread.                                *)

(* What can follow on a connection that is synchronised.                   *)
Later == CommandKinds \cup TornKinds \cup {"ok"}

StageInv ==
  /\ handshook <=> step \in {"loop", "read"}
  /\ asked => step \in Requests
  /\ conn = "none" => ~asked /\ ~handshook /\ wire = <<>> /\ phase = "closed"
  /\ phase = "closed" => step \in {"auth", "port"}
  /\ phase # "closed" => step # "auth"
  /\ phase \in {"open", "done", "yielding"} => ~asked /\ (~handshook => step = "port")
  /\ ~handshook => position = 0

(* A connection is synchronised once, and nothing of the synchronisation   *)
(* is sent before.                                                         *)
ServerInv ==
  /\ streaming => conn = "open" /\ ~psync
  /\ psync \/ owed > 0 => conn = "open"
  /\ conn = "open" /\ (handshook \/ step = "rdb") => streaming
  /\ \A i \in 1..Len(wire) :
       conn = "open" /\ wire[i].kind \in {"fullresync", "continue", "rdb"} \cup CommandKinds => streaming

WireInv ==
  /\ \A i \in 1..Len(wire) : wire[i].kind = "rest" => i = 1 /\ garbled
  /\ \A i, j \in 1..Len(wire) : i < j /\ wire[i].kind \in {"continue", "rdb"} => wire[j].kind \in Later
  /\ handshook => \A i \in 1..Len(wire) : wire[i].kind \in Later \cup {"rest"}

(* The commands still to be read lie behind the position, in their order.  *)
RecInv ==
  /\ base + position <= executed
  /\ \A i \in 1..Len(wire) : wire[i].kind \in CommandKinds =>
       base + position < wire[i].rec /\ wire[i].rec <= executed
  /\ \A i, j \in 1..Len(wire) : i < j /\ wire[i].kind \in CommandKinds /\ wire[j].kind \in CommandKinds =>
       wire[i].rec < wire[j].rec

OutInv ==
  /\ phase # "yielding" => out = Nothing
  /\ phase = "yielding" => out.kind \in EventKinds \cup {"error"}
  /\ out.kind \in EventKinds => handshook /\ base + out.pos <= out.rec

LateInv ==
  /\ late <= 1
  /\ ctx = "live" => late = 0
  /\ step = "read" => late = 0

----------------------------------------------------------------------------------
(* What holds until something is misread.                                  *)

(* What stands on the wire before the commands of the server.              *)
Prelude == IF handshook \/ wire = <<>> THEN 0 ELSE IF wire[1].kind = "fullresync" THEN 2 ELSE 1

(* A newline stands where a reply or the snapshot is expected.             *)
Disturbed ==
  /\ ~handshook /\ wire # <<>>
  /\ \/ wire[1].kind = "ping"
     \/ wire[1].kind = "fullresync" /\ Len(wire) > 1 /\ wire[2].kind = "ping"

(* A request is out, or its reply is here; each reply is read before the   *)
(* next request is sent, and none is left when the handshake is over.      *)
RequestInv ==
  /\ owed > 0 => owed = 1 /\ asked /\ step # "psync" /\ wire = <<>> /\ ~psync
  /\ psync => asked /\ step = "psync" /\ (wire # <<>> => wire[1].kind = "ping")
  /\ ~handshook /\ wire # <<>> => asked \/ step = "rdb"

(* The first item tells how far the handshake has come.                    *)
ReplyInv ==
  ~handshook /\ wire # <<>> =>
    /\ step = "rdb" => wire[1].kind \in {"rdb", "ping"}
    /\ step # "rdb" => wire[1].kind \in {"ok", "error", "fullresync", "continue", "ping"}
    /\ wire[1].kind = "ok" => step # "psync"
    /\ wire[1].kind \in {"ok", "error"} => Len(wire) = 1 /\ ~streaming
    /\ wire[1].kind \in {"fullresync", "continue"} => step = "psync"
    /\ wire[1].kind = "fullresync" /\ Len(wire) > 1 => wire[2].kind \in {"rdb", "ping"}

StreamingInv == streaming => handshook \/ wire # <<>>

(* Behind the prelude come commands, numbered on from the position; one    *)
(* that is cut off is the last item of a connection that is gone.          *)
CommandsInv ==
  ~Disturbed => \A j \in 1..Len(wire) : j > Prelude =>
    /\ wire[j].kind \in CommandKinds \cup TornKinds
    /\ wire[j].kind \in CommandKinds => wire[j].rec = base + position + j - Prelude
    /\ wire[j].kind \in TornKinds => j = Len(wire) /\ conn # "open"

CountInv == streaming /\ ~Disturbed => base + position + Len(wire) = executed + Prelude

PlaceInv == out.kind \in EventKinds => base + out.pos = out.rec

ExactInv ==
  /\ RequestInv
  /\ ReplyInv
  /\ StreamingInv
  /\ CommandsInv
  /\ CountInv
  /\ PlaceInv

(* The inductive invariant.                                                *)
BaseInv == StageInv /\ ServerInv /\ WireInv /\ RecInv /\ OutInv /\ LateInv

IInv ==
  /\ TypeOK
  /\ BaseInv
  /\ ~garbled => ExactInv

----------------------------------------------------------------------------------
LEMMA OutputTypes ==
  /\ Nothing \in Outputs
  /\ [kind |-> "error", pos |-> 0, rec |-> 0] \in Outputs
  /\ \A kind \in EventKinds, pos, rec \in Nat : [kind |-> kind, pos |-> pos, rec |-> rec] \in Outputs
  BY DEF Nothing, Outputs, EventKinds

LEMMA ItemTypes ==
  /\ \A k \in TornKinds \cup ReplyKinds \cup {"rest"} : Item(k) \in Items /\ Item(k).kind = k
  /\ \A k \in CommandKinds, n \in Nat : [kind |-> k, rec |-> n] \in Items
  BY DEF Item, Items

LEMMA Kinds ==
  /\ EventKinds = {"step", "info"} /\ CommandKinds = {"step", "info", "long"} /\ TornKinds = {"header", "payload"}
  /\ OneLine = {"ok", "error", "fullresync", "continue", "ping"}
  BY DEF CommandKinds, EventKinds, TornKinds, OneLine, ReplyKinds

LEMMA InitLemma == Init => IInv
  <1>. SUFFICES ASSUME Init PROVE IInv
    OBVIOUS
  <1>. USE DEF Init, LiveInit
  <1>0. Len(<<>>) = 0 /\ <<>> \in Seq(Items)
    OBVIOUS
  <1>1. TypeOK
    <2>1. StreamTypeOK
      BY OutputTypes DEF StreamTypeOK, Phases
    <2>2. step \in Steps
      BY DEF Steps, Requests
    <2>3. base \in 0..executed /\ watchers \subseteq 1..loop
      OBVIOUS
    <2>. QED BY <1>0, <2>1, <2>2, <2>3 DEF TypeOK, LiveTypeOK
  <1>2. StageInv /\ ServerInv /\ WireInv /\ RecInv
    BY <1>0 DEF StageInv, ServerInv, WireInv, RecInv, Requests
  <1>3. OutInv /\ LateInv /\ PlaceInv
    BY DEF OutInv, LateInv, PlaceInv, Nothing, EventKinds
  <1>4. RequestInv /\ ReplyInv /\ StreamingInv /\ CommandsInv /\ CountInv
    BY <1>0 DEF RequestInv, ReplyInv, StreamingInv, CommandsInv, CountInv, Requests
  <1>. QED BY <1>1, <1>2, <1>3, <1>4 DEF IInv, BaseInv, ExactInv

(* Close() keeps a prefix of what was buffered, and may cut a command.     *)
LEMMA CloseLemma ==
  ASSUME LiveTypeOK, CloseConn
  PROVE  /\ conn' \in {"none", "closed"} /\ (conn' = "none" <=> conn = "none")
         /\ ~streaming' /\ owed' = 0 /\ ~psync'
         /\ wire' \in Seq(Items) /\ Len(wire') <= Len(wire)
         /\ \A i \in 1..Len(wire') :
              \/ wire'[i] = wire[i]
              \/ /\ i = Len(wire') /\ wire'[i].kind \in TornKinds
                 /\ wire[i].kind \in CommandKinds \cup {"payload"}
  <1>. USE DEF LiveTypeOK
  <1>0. wire \in Seq(Items) /\ Len(wire) \in Nat
    OBVIOUS
  <1>1. CASE conn \in {"none", "closed"}
    BY <1>0, <1>1 DEF CloseConn
  <1>2. CASE conn \in {"open", "dropped"}
    <2>0. CutWire /\ conn' = "closed" /\ ~streaming' /\ owed' = 0 /\ ~psync' /\ conn # "none"
      BY <1>2 DEF CloseConn
    <2>1. PICK n \in 0..Len(wire) :
             \/ wire' = SubSeq(wire, 1, n)
             \/ /\ n < Len(wire)
                /\ wire[n + 1].kind \in CommandKinds \cup {"payload"}
                /\ \E t \in TornKinds : wire' = Append(SubSeq(wire, 1, n), Item(t))
      BY <2>0, Zenon DEF CutWire
    <2>. DEFINE kept == SubSeq(wire, 1, n)
    <2>2. kept \in Seq(Items) /\ Len(kept) = n /\ \A i \in 1..n : kept[i] = wire[i]
      <3>1. \A i \in 1..n : wire[i] \in Items
        BY <1>0, <2>1
      <3>2. kept \in Seq(Items) /\ Len(kept) = (IF 1 <= n THEN n - 1 + 1 ELSE 0)
            /\ \A i \in 1..n-1+1 : kept[i] = wire[1 + i - 1]
        BY <2>1, <3>1, SubSeqProperties
      <3>. QED BY <2>1, <3>2
    <2>. HIDE DEF kept
    <2>3. CASE wire' = kept
      BY <1>0, <2>0, <2>1, <2>2, <2>3
    <2>4. CASE n < Len(wire) /\ wire[n + 1].kind \in CommandKinds \cup {"payload"}
               /\ \E t \in TornKinds : wire' = Append(kept, Item(t))
      <3>1. PICK t \in TornKinds : wire' = Append(kept, Item(t))
        BY <2>4
      <3>2. Item(t) \in Items /\ Item(t).kind = t
        BY ItemTypes
      <3>3. wire' \in Seq(Items) /\ Len(wire') = n + 1 /\ wire'[n + 1] = Item(t)
            /\ \A i \in 1..n : wire'[i] = wire[i]
        BY <2>1, <2>2, <3>1, <3>2
      <3>. QED BY <1>0, <2>0, <2>1, <2>4, <3>2, <3>3
    <2>. QED BY <2>1, <2>3, <2>4 DEF kept
  <1>. QED BY <1>1, <1>2

(* What a misread leaves of the wire: some items less, and possibly what   *)
(* is left of one in front.                                                *)
LEMMA MisreadLemma ==
  ASSUME LiveTypeOK, wire # <<>>, Misread
  PROVE  /\ garbled' /\ wire' \in Seq(Items)
         /\ \E d \in 0..2 : \A j \in 1..Len(wire') :
              \/ j + d \in 1..Len(wire) /\ wire'[j] = wire[j + d]
              \/ j = 1 /\ wire'[j].kind = "rest"
  <1>. USE DEF LiveTypeOK
  <1>0. wire \in Seq(Items) /\ Len(wire) \in Nat /\ Len(wire) > 0 /\ garbled'
    BY DEF Misread
  <1>1. Tail(wire) \in Seq(Items) /\ Len(Tail(wire)) = Len(wire) - 1
        /\ \A j \in 1..Len(wire) - 1 : Tail(wire)[j] = wire[j + 1]
    BY <1>0
  <1>2. Item("rest") \in Items /\ Item("rest").kind = "rest"
    BY ItemTypes
  <1>3. CASE wire' = Tail(wire)
    BY <1>0, <1>1, <1>3
  <1>4. CASE wire' = <<Item("rest")>> \o Tail(wire)
    <2>. DEFINE t == Tail(wire)
    <2>1. t \in Seq(Items) /\ Len(t) = Len(wire) - 1 /\ \A j \in 1..Len(wire) - 1 : t[j] = wire[j + 1]
      BY <1>1
    <2>. HIDE DEF t
    <2>2. wire' = <<Item("rest")>> \o t
      BY <1>4 DEF t
    <2>3. wire' \in Seq(Items) /\ Len(wire') = Len(wire) /\ wire'[1] = Item("rest")
          /\ \A j \in 2..Len(wire) : wire'[j] = t[j - 1]
      BY <1>0, <1>2, <2>1, <2>2
    <2>4. \A j \in 2..Len(wire) : wire'[j] = wire[j + 0]
      BY <1>0, <2>1, <2>3
    <2>. QED BY <1>0, <1>2, <2>3, <2>4
  <1>5. CASE \E left \in {<<>>, <<Item("rest")>>}, n \in {2, 3} :
               n <= Len(wire) + 1 /\ wire' = left \o SubSeq(wire, n, Len(wire))
    <2>1. PICK left \in {<<>>, <<Item("rest")>>}, n \in {2, 3} :
               n <= Len(wire) + 1 /\ wire' = left \o SubSeq(wire, n, Len(wire))
      BY <1>5
    <2>. DEFINE t == SubSeq(wire, n, Len(wire))
    <2>2. t \in Seq(Items) /\ Len(t) = Len(wire) - n + 1 /\ \A j \in 1..Len(t) : t[j] = wire[n + j - 1]
      <3>1. \A i \in n..Len(wire) : wire[i] \in Items
        BY <1>0, <2>1
      <3>2. t \in Seq(Items) /\ Len(t) = (IF n <= Len(wire) THEN Len(wire) - n + 1 ELSE 0)
            /\ \A i \in 1..Len(wire) - n + 1 : t[i] = wire[n + i - 1]
        BY <1>0, <2>1, <3>1, SubSeqProperties
      <3>. QED BY <1>0, <2>1, <3>2
    <2>. HIDE DEF t
    <2>3. CASE left = <<>>
      <3>1. wire' = t
        BY <2>1, <2>2, <2>3 DEF t
      <3>2. n - 1 \in 0..2 /\ \A j \in 1..Len(wire') : j + (n - 1) \in 1..Len(wire) /\ wire'[j] = wire[j + (n - 1)]
        BY <1>0, <2>1, <2>2, <3>1
      <3>. QED BY <1>0, <2>2, <3>1, <3>2
    <2>4. CASE left = <<Item("rest")>>
      <3>0. wire' = <<Item("rest")>> \o t
        BY <2>1, <2>4 DEF t
      <3>1. wire' \in Seq(Items) /\ Len(wire') = Len(t) + 1 /\ wire'[1] = Item("rest")
            /\ \A j \in 2..Len(wire') : wire'[j] = t[j - 1]
        BY <1>2, <2>2, <3>0
      <3>2. n - 2 \in 0..2 /\ n \in Nat /\ Len(t) \in Nat
        BY <1>0, <2>1, <2>2
      <3>3. ASSUME NEW j \in 1..Len(wire'), j # 1
            PROVE  j + (n - 2) \in 1..Len(wire) /\ wire'[j] = wire[j + (n - 2)]
        <4>1. j \in 2..Len(wire') /\ j - 1 \in 1..Len(t)
          BY <3>1, <3>2, <3>3
        <4>2. wire'[j] = t[j - 1] /\ t[j - 1] = wire[n + (j - 1) - 1]
          BY <2>2, <3>1, <4>1
        <4>3. n + (j - 1) - 1 = j + (n - 2)
          BY <3>2
        <4>. QED BY <1>0, <2>2, <3>2, <4>1, <4>2, <4>3
      <3>4. \A j \in 1..Len(wire') : \/ j + (n - 2) \in 1..Len(wire) /\ wire'[j] = wire[j + (n - 2)]
                                     \/ j = 1 /\ wire'[j].kind = "rest"
        BY <1>2, <3>1, <3>3
      <3>. QED BY <1>0, <3>1, <3>2, <3>4
    <2>. QED BY <2>1, <2>3, <2>4
  <1>. QED BY <1>3, <1>4, <1>5, Zenon DEF Misread

LEMMA TypeLemma == ASSUME TypeOK, Next PROVE TypeOK'
  <1>. USE DEF TypeOK, LiveTypeOK, StreamTypeOK, Phases, Steps, serverVars, socketVars, decoderVars, contextVars,
           streamVars
  <1>t. /\ executed \in Nat /\ wire \in Seq(Items)
        /\ \A k \in CommandKinds \cup TornKinds \cup ReplyKinds, n \in Nat : [kind |-> k, rec |-> n] \in Items
        /\ (wire # <<>> => Tail(wire) \in Seq(Items) /\ Head(wire) \in Items)
        /\ \A item \in Items : item.rec \in Nat
    <2>1. wire \in Seq(Items) /\ executed \in Nat
      OBVIOUS
    <2>2. wire # <<>> => Tail(wire) \in Seq(Items) /\ Head(wire) \in Items
      BY <2>1
    <2>. QED BY <2>1, <2>2 DEF Items
  <1>1. CASE Open
    BY <1>1, CheckpointsAssumption DEF Open, Dial, Requests
  <1>2. CASE RangeOver
    BY <1>2 DEF RangeOver, EnterEvents, Requests
  <1>3. CASE Body
    BY <1>3, OutputTypes DEF Body, Continue, BreakOut
  <1>4. CASE Watchers \/ OwnerClose
    <2>1. CASE \E k \in watchers : WatcherDone(k)
      BY <2>1 DEF WatcherDone
    <2>2. CASE \E k \in watchers : WatcherCancel(k)
      <3>1. CloseConn /\ LiveTypeOK
        BY <2>2 DEF WatcherCancel
      <3>2. conn' \in {"none", "closed"} /\ ~streaming' /\ owed' = 0 /\ ~psync' /\ wire' \in Seq(Items)
        BY <3>1, CloseLemma
      <3>3. psync' \in BOOLEAN /\ streaming' \in BOOLEAN
        BY <3>1 DEF CloseConn
      <3>. QED BY <2>2, <3>2, <3>3 DEF WatcherCancel
    <2>3. CASE OwnerClose
      <3>1. CloseConn /\ LiveTypeOK
        BY <2>3 DEF OwnerClose
      <3>2. conn' \in {"none", "closed"} /\ ~streaming' /\ owed' = 0 /\ ~psync' /\ wire' \in Seq(Items)
        BY <3>1, CloseLemma
      <3>3. psync' \in BOOLEAN /\ streaming' \in BOOLEAN
        BY <3>1 DEF CloseConn
      <3>. QED BY <2>3, <3>2, <3>3 DEF OwnerClose
    <2>. QED BY <1>4, <2>1, <2>2, <2>3 DEF Watchers
  <1>5. CASE Server
    <2>1. ASSUME NEW k \in Sent, Execute(k) PROVE TypeOK'
      <3>1. executed' \in Nat /\ executed' = executed + 1 /\ k \in CommandKinds
        BY <1>t, <2>1, SentAssumption DEF Execute
      <3>2. wire' \in Seq(Items)
        <4>1. [kind |-> k, rec |-> executed + 1] \in Items
          BY <1>t, <3>1
        <4>. QED BY <1>t, <2>1, <4>1 DEF Execute
      <3>. QED BY <1>t, <2>1, <3>1, <3>2 DEF Execute
    <2>2. ASSUME NEW k \in {"ok", "error"}, Answer(k) \/ RefuseSync \/ KeepAlive PROVE TypeOK'
      <3>1. Item(k) \in Items /\ Item("error") \in Items /\ Item("ping") \in Items
        BY ItemTypes DEF ReplyKinds
      <3>2. wire' \in Seq(Items)
        <4>1. PICK item \in Items : wire' = Append(wire, item)
          BY <2>2, <3>1, Zenon DEF Answer, RefuseSync, KeepAlive
        <4>. QED BY <1>t, <4>1
      <3>3. owed' \in Nat
        BY <2>2 DEF Answer, RefuseSync, KeepAlive
      <3>. QED BY <2>2, <3>2, <3>3 DEF Answer, RefuseSync, KeepAlive
    <2>3. ASSUME NEW k \in {"fullresync", "continue"}, GrantSync(k) PROVE TypeOK'
      <3>1. Item(k) \in Items /\ Item("rdb") \in Items /\ Item("ping") \in Items
        BY ItemTypes DEF ReplyKinds
      <3>2. /\ <<Item(k), Item("rdb")>> \in Seq(Items) /\ <<Item(k)>> \in Seq(Items)
            /\ <<Item(k), Item("ping"), Item("rdb")>> \in Seq(Items)
        BY <3>1
      <3>3. wire' \in Seq(Items)
        <4>1. PICK reply \in Seq(Items) : wire' = wire \o reply
          BY <2>3, <3>2, Zenon DEF GrantSync
        <4>. QED BY <1>t, <4>1
      <3>4. /\ base' = executed /\ UNCHANGED <<executed, owed, conn, decoderVars, contextVars, streamVars>>
            /\ psync' \in BOOLEAN /\ streaming' \in BOOLEAN
        BY <2>3, Zenon DEF GrantSync
      <3>. QED BY <1>t, <3>3, <3>4
    <2>4. ASSUME NEW t \in TornKinds \cup {"no"}, Drop(t) PROVE TypeOK'
      <3>1. wire' \in Seq(Items)
        <4>1. wire' = wire \/ \E item \in Items : wire' = Append(wire, item)
          BY <2>4, ItemTypes, Zenon DEF Drop
        <4>. QED BY <1>t, <4>1
      <3>. QED BY <2>4, <3>1 DEF Drop
    <2>. QED BY <1>5, <2>1, <2>2, <2>3, <2>4 DEF Server
  <1>6. CASE Cancel
    BY <1>6 DEF Cancel
  <1>7. CASE Handshake
    <2>1. CASE SendRequest
      <3>1. owed' \in Nat
        BY <2>1 DEF SendRequest
      <3>2. psync' \in BOOLEAN /\ asked' \in BOOLEAN
        BY <2>1, Zenon DEF SendRequest
      <3>. QED BY <2>1, <3>1, <3>2 DEF SendRequest
    <2>2. CASE FailSend \/ FailReply \/ FailRDB
      <3>1. GiveUp /\ wire' \in Seq(Items) /\ garbled' \in BOOLEAN
        <4>1. <<>> \in Seq(Items)
          OBVIOUS
        <4>2. CASE FailSend
          BY <1>t, <4>1, <4>2 DEF FailSend, GiveUp
        <4>3. CASE wire # <<>> /\ Misread /\ (FailReply \/ FailRDB)
          BY <4>3, MisreadLemma DEF FailReply, FailRDB, Misread
        <4>4. CASE (FailReply \/ FailRDB) /\ ~(wire # <<>> /\ Misread)
          <5>1. /\ garbled' = garbled /\ GiveUp
                /\ step # "auth" => \/ wire' = wire
                                    \/ wire # <<>> /\ wire' = Tail(wire)
            BY <4>4 DEF FailReply, FailRDB
          <5>. QED BY <1>t, <4>1, <5>1 DEF GiveUp
        <4>. QED BY <2>2, <4>2, <4>3, <4>4
      <3>2. /\ asked' \in BOOLEAN /\ streaming' \in BOOLEAN /\ psync' \in BOOLEAN
            /\ conn' \in {"none", "open", "dropped", "closed"}
        BY <3>1, Zenon DEF GiveUp
      <3>3. owed' \in Nat /\ step' \in Steps
        BY <3>1 DEF GiveUp, Requests
      <3>4. StreamTypeOK'
        BY <3>1, OutputTypes DEF GiveUp, YieldError, Return
      <3>. QED BY <3>1, <3>2, <3>3, <3>4 DEF GiveUp
    <2>3. CASE Greet \/ Synchronise
      <3>1. ReadReply /\ phase' \in {"closed", "open", "decoding"}
            /\ step' \in Steps /\ handshook' \in BOOLEAN
        BY <1>t, <2>3 DEF Greet, Synchronise, ReadReply, Connecting, Steps, Requests
      <3>2. wire' \in Seq(Items)
        BY <1>t, <3>1 DEF ReadReply
      <3>. QED BY <1>t, <3>1, <3>2 DEF ReadReply
    <2>4. CASE SkipRDB
      BY <1>t, <2>4 DEF SkipRDB
    <2>. QED BY <1>7, <2>1, <2>2, <2>3, <2>4 DEF Handshake
  <1>8. CASE Replicate
    <2>1. CASE CheckContext
      BY <2>1 DEF CheckContext, Return
    <2>2. CASE SkipCommand \/ DeliverCommand \/ RefuseCommand
      <3>0. ParseCommand
        BY <2>2 DEF SkipCommand, DeliverCommand, RefuseCommand
      <3>1. wire' \in Seq(Items) /\ position' = position + 1 /\ Head(wire).rec \in Nat /\ Head(wire).kind \in EventKinds
        BY <1>t, <3>0 DEF ParseCommand
      <3>a. position + 1 \in Nat
        OBVIOUS
      <3>2. out' \in Outputs /\ phase' \in Phases /\ late' \in Nat
        <4>1. CASE SkipCommand \/ RefuseCommand
          BY <4>1, OutputTypes DEF SkipCommand, RefuseCommand, YieldError
        <4>2. CASE DeliverCommand
          <5>1. out' = [kind |-> Head(wire).kind, pos |-> position + 1, rec |-> Head(wire).rec]
                /\ phase' = "yielding"
            BY <4>2 DEF DeliverCommand, Yield
          <5>2. out' \in Outputs
            BY <3>a, <3>1, <5>1, OutputTypes
          <5>3. late' \in Nat
            BY <4>2 DEF DeliverCommand
          <5>. QED BY <5>1, <5>2, <5>3
        <4>. QED BY <2>2, <4>1, <4>2
      <3>. QED BY <3>0, <3>1, <3>2 DEF ParseCommand
    <2>3. CASE EndOfStream
      BY <1>t, <2>3, OutputTypes DEF EndOfStream, Ended, Return, YieldError
    <2>4. CASE MisreadCommand
      <3>1. wire' \in Seq(Items) /\ garbled' \in BOOLEAN
        BY <2>4, MisreadLemma DEF MisreadCommand, Misread
      <3>. QED BY <2>4, <3>1, OutputTypes DEF MisreadCommand, Return, YieldError
    <2>. QED BY <1>8, <2>1, <2>2, <2>3, <2>4 DEF Replicate
  <1>. QED BY <1>1, <1>2, <1>3, <1>4, <1>5, <1>6, <1>7, <1>8 DEF Next, Goroutine

----------------------------------------------------------------------------------
(* Everything but the types, which TypeLemma keeps.                        *)
StreamInv == BaseInv /\ (~garbled => ExactInv)

(* A wire that lost items at its front, whose last item was cut, or whose  *)
(* first one was misread, is as good as the wire before.                   *)
LEMMA ShrinkLemma ==
  ASSUME IInv, NEW d \in Nat, wire' \in Seq(Items),
         \A j \in 1..Len(wire') : \/ j + d \in 1..Len(wire) /\ wire'[j] = wire[j + d]
                                  \/ wire'[j].kind \in TornKinds
                                  \/ j = 1 /\ wire'[j].kind = "rest" /\ garbled',
         garbled => garbled',
         handshook' => handshook \/ \A j \in 1..Len(wire') : wire'[j].kind \in Later \cup {"rest"},
         UNCHANGED <<executed, base, position>>
  PROVE  /\ WireInv' /\ RecInv'
         /\ conn' = "open" /\ conn = "open" /\ streaming' = streaming /\ ServerInv =>
              \A i \in 1..Len(wire') :
                wire'[i].kind \in {"fullresync", "continue", "rdb"} \cup CommandKinds => streaming'
  <1>k. /\ CommandKinds = {"step", "info", "long"} /\ TornKinds = {"header", "payload"}
        /\ Later = {"step", "info", "long", "header", "payload", "ok"}
    BY Kinds DEF Later
  <1>t. Len(wire) \in Nat /\ Len(wire') \in Nat
    BY DEF IInv, TypeOK, LiveTypeOK
  <1>. DEFINE same(j) == j + d \in 1..Len(wire) /\ wire'[j] = wire[j + d]
  <1>1. \A j \in 1..Len(wire') : wire'[j].kind \notin {"header", "payload", "rest"} => same(j)
    BY <1>k
  <1>2. WireInv'
    <2>1. ASSUME NEW i \in 1..Len(wire'), wire'[i].kind = "rest" PROVE i = 1 /\ garbled'
      <3>1. CASE same(i)
        <4>1. i + d = 1 /\ garbled
          BY <2>1, <3>1 DEF IInv, BaseInv, WireInv
        <4>. QED BY <4>1, <1>t
      <3>. QED BY <1>k, <2>1, <3>1
    <2>2. ASSUME NEW i \in 1..Len(wire'), NEW j \in 1..Len(wire'), i < j, wire'[i].kind \in {"continue", "rdb"}
          PROVE  wire'[j].kind \in Later
      <3>1. same(i)
        BY <1>1, <2>2
      <3>2. CASE same(j)
        <4>1. i + d \in 1..Len(wire) /\ j + d \in 1..Len(wire) /\ i + d < j + d /\ wire[i + d].kind \in {"continue", "rdb"}
          BY <2>2, <3>1, <3>2, <1>t
        <4>. QED BY <3>2, <4>1 DEF IInv, BaseInv, WireInv
      <3>3. j # 1
        BY <2>2, <1>t
      <3>. QED BY <1>k, <3>2, <3>3
    <2>3. ASSUME handshook', NEW i \in 1..Len(wire') PROVE wire'[i].kind \in Later \cup {"rest"}
      <3>1. CASE handshook /\ same(i)
        BY <3>1 DEF IInv, BaseInv, WireInv
      <3>. QED BY <1>k, <2>3, <3>1
    <2>. QED BY <2>1, <2>2, <2>3 DEF WireInv
  <1>3. RecInv'
    <2>1. \A i \in 1..Len(wire') : wire'[i].kind \in CommandKinds => same(i)
      BY <1>k, <1>1
    <2>2. ASSUME NEW i \in 1..Len(wire'), wire'[i].kind \in CommandKinds
          PROVE  base + position < wire'[i].rec /\ wire'[i].rec <= executed
      BY <2>1, <2>2 DEF IInv, BaseInv, RecInv
    <2>3. ASSUME NEW i \in 1..Len(wire'), NEW j \in 1..Len(wire'), i < j, wire'[i].kind \in CommandKinds,
                 wire'[j].kind \in CommandKinds
          PROVE  wire'[i].rec < wire'[j].rec
      <3>1. same(i) /\ same(j) /\ i + d < j + d
        BY <2>1, <2>3, <1>t
      <3>. QED BY <2>3, <3>1 DEF IInv, BaseInv, RecInv
    <2>. QED BY <2>2, <2>3 DEF IInv, BaseInv, RecInv
  <1>4. ASSUME conn = "open", streaming' = streaming, ServerInv, NEW i \in 1..Len(wire'),
               wire'[i].kind \in {"fullresync", "continue", "rdb"} \cup CommandKinds
        PROVE  streaming'
    <2>1. same(i)
      BY <1>1, <1>k, <1>4
    <2>. QED BY <1>4, <2>1 DEF ServerInv
  <1>. QED BY <1>2, <1>3, <1>4

(* Steps that leave the connection and what is on it alone.                *)
LEMMA QuietLemma ==
  ASSUME IInv, Cancel \/ (\E k \in watchers : WatcherDone(k)) \/ RangeOver \/ Body \/ CheckContext \/ SendRequest
  PROVE  StreamInv'
  <1>. USE DEF serverVars, socketVars, decoderVars, contextVars, streamVars
  <1>0. UNCHANGED <<executed, base, wire, handshook, position, streaming, conn, garbled>>
    BY DEF Cancel, WatcherDone, RangeOver, EnterEvents, Body, CheckContext, SendRequest
  <1>b. /\ StageInv /\ ServerInv /\ WireInv /\ RecInv /\ OutInv /\ LateInv
        /\ ~garbled => RequestInv /\ ReplyInv /\ StreamingInv /\ CommandsInv /\ CountInv /\ PlaceInv
    BY DEF IInv, BaseInv, ExactInv
  <1>1. /\ WireInv' /\ RecInv'
        /\ ~garbled => CommandsInv' /\ CountInv' /\ StreamingInv'
    BY <1>0, <1>b DEF WireInv, RecInv, CommandsInv, CountInv, Prelude, Disturbed, StreamingInv
  <1>n. Nothing.kind \notin EventKinds
    BY DEF Nothing, EventKinds
  <1>q. SUFFICES /\ StageInv' /\ ServerInv' /\ OutInv' /\ LateInv'
                 /\ ~garbled => RequestInv' /\ ReplyInv' /\ PlaceInv'
    BY <1>0, <1>1 DEF StreamInv, BaseInv, ExactInv
  <1>2. CASE Cancel \/ (\E k \in watchers : WatcherDone(k))
    BY <1>0, <1>b, <1>2 DEF Cancel, WatcherDone, StageInv, ServerInv, OutInv, LateInv, RequestInv, ReplyInv, PlaceInv
  <1>3. CASE RangeOver
    <2>1. phase \in {"open", "done"} /\ phase' = "decoding" /\ step' = (IF handshook THEN "loop" ELSE "port")
          /\ UNCHANGED <<asked, owed, psync, ctx, late, out>>
      BY <1>3 DEF RangeOver, EnterEvents
    <2>2. StageInv' /\ ServerInv'
      BY <1>0, <1>b, <2>1 DEF StageInv, ServerInv, Requests
    <2>3. ~garbled => RequestInv' /\ ReplyInv'
      BY <1>0, <1>b, <2>1 DEF StageInv, RequestInv, ReplyInv
    <2>4. OutInv' /\ LateInv' /\ (~garbled => PlaceInv')
      BY <1>0, <1>b, <2>1 DEF OutInv, LateInv, PlaceInv
    <2>. QED BY <2>2, <2>3, <2>4
  <1>4. CASE Body
    <2>1. /\ phase = "yielding" /\ phase' \in {"decoding", "open", "done"} /\ out' = Nothing
          /\ UNCHANGED <<asked, owed, psync, step, ctx, late>>
      BY <1>4 DEF Body, Continue, BreakOut
    <2>2. StageInv' /\ ServerInv'
      BY <1>0, <1>b, <2>1 DEF StageInv, ServerInv
    <2>3. ~garbled => RequestInv' /\ ReplyInv'
      BY <1>0, <1>b, <2>1 DEF RequestInv, ReplyInv
    <2>4. OutInv' /\ LateInv' /\ PlaceInv'
      BY <1>0, <1>b, <1>n, <2>1 DEF OutInv, LateInv, PlaceInv
    <2>. QED BY <2>2, <2>3, <2>4
  <1>5. CASE CheckContext
    <2>1. /\ phase = "decoding" /\ step = "loop" /\ out' = out /\ UNCHANGED <<asked, owed, psync, ctx, late>>
          /\ \/ ctx = "live" /\ step' = "read" /\ phase' = phase
             \/ phase' = "done" /\ step' = step
      BY <1>5 DEF CheckContext, Return
    <2>2. handshook /\ ~asked
      BY <1>b, <2>1 DEF StageInv, Requests
    <2>3. StageInv' /\ ServerInv'
      BY <1>0, <1>b, <2>1, <2>2 DEF StageInv, ServerInv
    <2>4. ~garbled => RequestInv' /\ ReplyInv'
      BY <1>0, <1>b, <2>1, <2>2 DEF RequestInv, ReplyInv
    <2>5. OutInv' /\ LateInv' /\ (~garbled => PlaceInv')
      BY <1>0, <1>b, <1>n, <2>1 DEF OutInv, LateInv, PlaceInv
    <2>. QED BY <2>3, <2>4, <2>5
  <1>6. CASE SendRequest
    <2>1. /\ step \in Requests /\ ~asked /\ conn \in {"open", "dropped"} /\ asked'
          /\ (IF step = "auth" THEN phase = "closed" ELSE phase = "decoding")
          /\ UNCHANGED <<step, phase, out, ctx, late>>
      BY <1>6 DEF SendRequest, Connecting
    <2>2. /\ owed' = (IF conn = "open" /\ step # "psync" THEN owed + 1 ELSE owed)
          /\ psync' => psync \/ (conn = "open" /\ step = "psync" /\ ~streaming)
      BY <1>6 DEF SendRequest
    <2>3. ~handshook /\ owed \in Nat
      BY <1>b, <2>1 DEF StageInv, Requests, IInv, TypeOK, LiveTypeOK
    <2>4. StageInv'
      BY <1>0, <1>b, <2>1, <2>3 DEF StageInv, Requests
    <2>5. psync' \/ owed' > 0 => conn = "open"
      BY <1>b, <2>2, <2>3 DEF ServerInv
    <2>6. ServerInv'
      BY <1>0, <1>b, <2>1, <2>2, <2>5 DEF ServerInv
    <2>7. ~garbled => RequestInv' /\ ReplyInv'
      <3>. SUFFICES ASSUME ~garbled PROVE RequestInv' /\ ReplyInv'
        OBVIOUS
      <3>1. wire = <<>> /\ owed = 0 /\ ~psync
        BY <1>b, <2>1, <2>3 DEF RequestInv, Requests
      <3>2. ReplyInv'
        BY <1>0, <3>1 DEF ReplyInv
      <3>3. RequestInv'
        BY <1>0, <2>1, <2>2, <2>3, <3>1 DEF RequestInv, Requests
      <3>. QED BY <3>2, <3>3
    <2>8. OutInv' /\ LateInv' /\ (~garbled => PlaceInv')
      BY <1>0, <1>b, <2>1 DEF OutInv, LateInv, PlaceInv
    <2>. QED BY <2>4, <2>6, <2>7, <2>8
  <1>. QED BY <1>2, <1>3, <1>4, <1>5, <1>6

(* A connection that is closed keeps what can still be read in its place.  *)
LEMMA ClosedLemma ==
  ASSUME IInv, OwnerClose \/ (\E k \in watchers : WatcherCancel(k)) PROVE StreamInv'
  <1>. USE DEF serverVars, socketVars, decoderVars, contextVars, streamVars
  <1>1. /\ CloseConn
        /\ UNCHANGED <<executed, base, step, asked, handshook, position, start, garbled, ctx, late, phase, out>>
    BY DEF OwnerClose, WatcherCancel
  <1>b. /\ StageInv /\ ServerInv /\ WireInv /\ RecInv /\ OutInv /\ LateInv
        /\ ~garbled => RequestInv /\ ReplyInv /\ StreamingInv /\ CommandsInv /\ CountInv /\ PlaceInv
    BY DEF IInv, BaseInv, ExactInv
  <1>t. LiveTypeOK /\ wire \in Seq(Items) /\ Len(wire) \in Nat
    BY DEF IInv, TypeOK, LiveTypeOK
  <1>2. /\ conn' \in {"none", "closed"} /\ (conn' = "none" <=> conn = "none")
        /\ ~streaming' /\ owed' = 0 /\ ~psync'
        /\ wire' \in Seq(Items) /\ Len(wire') <= Len(wire) /\ Len(wire') \in Nat
        /\ \A i \in 1..Len(wire') :
              \/ wire'[i] = wire[i]
              \/ /\ i = Len(wire') /\ wire'[i].kind \in TornKinds
                 /\ wire[i].kind \in CommandKinds \cup {"payload"}
    BY <1>1, <1>t, CloseLemma
  <1>k. /\ CommandKinds = {"step", "info", "long"} /\ TornKinds = {"header", "payload"}
    BY Kinds
  <1>3. WireInv' /\ RecInv'
    <2>1. \A j \in 1..Len(wire') : \/ j + 0 \in 1..Len(wire) /\ wire'[j] = wire[j + 0]
                                   \/ wire'[j].kind \in TornKinds
                                   \/ j = 1 /\ wire'[j].kind = "rest" /\ garbled'
      BY <1>2, <1>t
    <2>. QED BY <1>1, <1>2, <2>1, ShrinkLemma
  <1>4. StageInv'
    <2>1. wire = <<>> => wire' = <<>>
      BY <1>2
    <2>. QED BY <1>1, <1>2, <1>b, <2>1 DEF StageInv
  <1>5. ServerInv' /\ OutInv' /\ LateInv'
    <2>1. ~(owed' > 0)
      BY <1>2
    <2>. QED BY <1>1, <1>2, <1>b, <2>1 DEF ServerInv, OutInv, LateInv
  <1>6. ASSUME ~garbled PROVE ExactInv'
    <2>0. PlaceInv' /\ StreamingInv' /\ CountInv'
      BY <1>1, <1>2, <1>b, <1>6 DEF PlaceInv, StreamingInv, CountInv
    <2>a. ~(owed' > 0)
      BY <1>2
    <2>1. CASE wire' = <<>>
      <3>1. RequestInv' /\ ReplyInv'
        BY <1>1, <1>2, <2>1, <2>a DEF RequestInv, ReplyInv
      <3>2. CommandsInv'
        BY <2>1 DEF CommandsInv
      <3>. QED BY <2>0, <3>1, <3>2 DEF ExactInv
    <2>2. CASE wire' # <<>>
      <3>0. Len(wire') > 0 /\ wire # <<>> /\ 1 \in 1..Len(wire') /\ 1 \in 1..Len(wire)
        BY <1>t, <1>2, <2>2
      <3>1. ~handshook => wire'[1] = wire[1]
        <4>1. ASSUME ~handshook PROVE wire[1].kind \in {"ok", "error", "fullresync", "continue", "rdb", "ping"}
          BY <1>b, <1>6, <3>0, <4>1 DEF ReplyInv
        <4>. QED BY <1>2, <1>k, <3>0, <4>1
      <3>2. Prelude' = Prelude
        BY <1>1, <2>2, <3>0, <3>1 DEF Prelude
      <3>3. ~handshook /\ Len(wire') > 1 /\ wire[1].kind = "fullresync" => Len(wire) > 1 /\ wire'[2] = wire[2]
        <4>1. ASSUME ~handshook, Len(wire') > 1, wire[1].kind = "fullresync" PROVE Len(wire) > 1 /\ wire'[2] = wire[2]
          <5>1. 2 \in 1..Len(wire') /\ Len(wire) > 1
            BY <1>2, <1>t, <4>1
          <5>2. wire[2].kind \in {"rdb", "ping"}
            BY <1>b, <1>6, <3>0, <4>1, <5>1 DEF ReplyInv
          <5>. QED BY <1>2, <1>k, <5>1, <5>2
        <4>. QED BY <4>1
      <3>4. RequestInv'
        BY <1>1, <1>2, <1>b, <1>6, <2>a, <3>0 DEF RequestInv
      <3>5. ReplyInv'
        <4>1. ~handshook /\ wire[1].kind \in {"ok", "error"} => Len(wire') = 1
          BY <1>2, <1>t, <1>b, <1>6, <3>0 DEF ReplyInv
        <4>. QED BY <1>1, <1>2, <1>t, <1>b, <1>6, <3>0, <3>1, <3>3, <4>1 DEF ReplyInv
      <3>6. CommandsInv'
        <4>1. CASE Disturbed
          <5>0. ~handshook /\ ~handshook' /\ wire'[1] = wire[1]
            BY <1>1, <3>1, <4>1 DEF Disturbed
          <5>a. ASSUME wire[1].kind = "ping" PROVE Disturbed'
            BY <2>2, <5>0, <5>a DEF Disturbed
          <5>c. ASSUME wire[1].kind = "fullresync", wire[2].kind = "ping", Len(wire') > 1 PROVE Disturbed'
            BY <2>2, <3>3, <5>0, <5>c DEF Disturbed
          <5>d. ASSUME wire[1].kind = "fullresync", ~(Len(wire') > 1) PROVE Prelude = 2 /\ Len(wire') = 1
            <6>1. Prelude = 2
              BY <3>0, <5>0, <5>d DEF Prelude
            <6>2. Len(wire') \in Nat /\ Len(wire') > 0
              BY <1>2, <3>0
            <6>3. \A n \in Nat : n > 0 => n > 1 \/ n = 1
              OBVIOUS
            <6>. QED BY <5>d, <6>1, <6>2, <6>3, Zenon
          <5>1. Disturbed' \/ (Prelude = 2 /\ Len(wire') = 1)
            BY <4>1, <5>a, <5>c, <5>d DEF Disturbed
          <5>. QED BY <1>2, <3>2, <5>1 DEF CommandsInv
        <4>2. CASE ~Disturbed
          <5>. SUFFICES ASSUME NEW j \in 1..Len(wire'), j > Prelude
               PROVE  /\ wire'[j].kind \in CommandKinds \cup TornKinds
                      /\ wire'[j].kind \in CommandKinds => wire'[j].rec = base + position + j - Prelude
                      /\ wire'[j].kind \in TornKinds => j = Len(wire')
            BY <1>1, <1>2, <3>2 DEF CommandsInv
          <5>1. j \in 1..Len(wire)
            BY <1>t, <1>2
          <5>2. CASE wire'[j] = wire[j]
            BY <1>t, <1>2, <1>b, <1>6, <4>2, <5>1, <5>2 DEF CommandsInv
          <5>3. CASE j = Len(wire') /\ wire'[j].kind \in TornKinds
            BY <1>k, <5>3
          <5>. QED BY <1>2, <5>2, <5>3
        <4>. QED BY <4>1, <4>2
      <3>. QED BY <2>0, <3>4, <3>5, <3>6 DEF ExactInv
    <2>. QED BY <2>1, <2>2
  <1>. QED BY <1>1, <1>3, <1>4, <1>5, <1>6 DEF StreamInv, BaseInv

LEMMA DialLemma == ASSUME IInv, Open PROVE StreamInv'
  <1>. USE DEF serverVars, socketVars, decoderVars, contextVars, streamVars
  <1>1. /\ phase = "closed" /\ conn = "none" /\ conn' = "open" /\ step' \in {"auth", "port"}
        /\ phase' = (IF step' = "auth" THEN "closed" ELSE "open")
        /\ UNCHANGED <<executed, base, streaming, owed, psync, wire, asked, handshook, position, garbled, ctx, late, out>>
    BY DEF Open, Dial
  <1>b. /\ StageInv /\ ServerInv /\ WireInv /\ RecInv /\ OutInv /\ LateInv
        /\ ~garbled => PlaceInv
    BY DEF IInv, BaseInv, ExactInv
  <1>2. ~asked /\ ~handshook /\ wire = <<>> /\ ~streaming /\ ~psync /\ ~(owed > 0) /\ position = 0 /\ Len(wire) = 0
    BY <1>1, <1>b DEF StageInv, ServerInv
  <1>3. StageInv' /\ ServerInv' /\ WireInv' /\ RecInv'
    BY <1>1, <1>2, <1>b DEF StageInv, ServerInv, WireInv, RecInv, Requests
  <1>4. OutInv' /\ LateInv' /\ (~garbled => PlaceInv')
    BY <1>1, <1>2, <1>b DEF OutInv, LateInv, PlaceInv, Nothing, EventKinds
  <1>5. RequestInv' /\ ReplyInv' /\ StreamingInv' /\ CommandsInv' /\ CountInv'
    BY <1>1, <1>2 DEF RequestInv, ReplyInv, StreamingInv, CommandsInv, CountInv
  <1>. QED BY <1>1, <1>3, <1>4, <1>5 DEF StreamInv, BaseInv, ExactInv

(* The server sends one more item: a command it executed, one cut off when *)
(* it goes away, or a reply.                                               *)
LEMMA AppendLemma ==
  ASSUME IInv, NEW item \in Items, wire' = Append(wire, item),
         item.kind \in Later \/ (item.kind \in {"error", "ping"} /\ ~handshook
            /\ \A i \in 1..Len(wire) : wire[i].kind \notin {"fullresync", "continue", "rdb"}),
         item.kind \in CommandKinds =>
           /\ item.rec > executed /\ item.rec <= executed'
           /\ \A i \in 1..Len(wire) : wire[i].kind \in CommandKinds => wire[i].rec <= executed,
         executed <= executed', executed' \in Nat,
         UNCHANGED <<base, position, garbled, handshook>>
  PROVE  WireInv' /\ RecInv' /\ wire' # <<>> /\ Len(wire') = Len(wire) + 1 /\ wire'[Len(wire) + 1] = item
         /\ \A i \in 1..Len(wire) : wire'[i] = wire[i]
  <1>t. /\ wire \in Seq(Items) /\ Len(wire) \in Nat /\ executed \in Nat /\ base \in Nat /\ position \in Nat
    BY DEF IInv, TypeOK, LiveTypeOK
  <1>k. /\ CommandKinds = {"step", "info", "long"} /\ TornKinds = {"header", "payload"}
        /\ Later = {"step", "info", "long", "header", "payload", "ok"}
    BY Kinds DEF Later
  <1>1. /\ wire' # <<>> /\ Len(wire') = Len(wire) + 1 /\ wire'[Len(wire) + 1] = item
        /\ \A i \in 1..Len(wire) : wire'[i] = wire[i]
    BY <1>t
  <1>b. WireInv /\ RecInv
    BY DEF IInv, BaseInv
  <1>r. \A n \in Nat : n <= executed => n <= executed'
    BY <1>t
  <1>i. item.rec \in Nat /\ \A i \in 1..Len(wire) : wire[i].rec \in Nat
    <2>1. \A i \in 1..Len(wire) : wire[i] \in Items
      BY <1>t
    <2>. QED BY <2>1 DEF Items
  <1>2. WireInv'
    <2>1. \A i \in 1..Len(wire') : wire'[i].kind = "rest" => i = 1 /\ garbled'
      <3>. SUFFICES ASSUME NEW i \in 1..Len(wire'), wire'[i].kind = "rest" PROVE i = 1 /\ garbled'
        OBVIOUS
      <3>1. item.kind # "rest"
        BY <1>k
      <3>2. i \in 1..Len(wire)
        BY <1>1, <1>t, <3>1
      <3>. QED BY <1>1, <1>b, <3>2 DEF WireInv
    <2>2. ASSUME NEW i \in 1..Len(wire'), NEW j \in 1..Len(wire'), i < j, wire'[i].kind \in {"continue", "rdb"}
          PROVE  wire'[j].kind \in Later
      <3>1. i \in 1..Len(wire) /\ wire'[i] = wire[i]
        BY <1>1, <1>t, <2>2
      <3>2. CASE j \in 1..Len(wire)
        BY <1>1, <1>b, <2>2, <3>1, <3>2 DEF WireInv
      <3>3. CASE j = Len(wire) + 1
        BY <1>1, <2>2, <3>1, <3>3
      <3>. QED BY <1>1, <1>t, <3>2, <3>3
    <2>3. ASSUME handshook, NEW i \in 1..Len(wire') PROVE wire'[i].kind \in Later \cup {"rest"}
      <3>1. CASE i \in 1..Len(wire)
        BY <1>1, <1>b, <2>3, <3>1 DEF WireInv
      <3>2. CASE i = Len(wire) + 1
        BY <1>1, <2>3, <3>2
      <3>. QED BY <1>1, <1>t, <3>1, <3>2
    <2>. QED BY <2>1, <2>2, <2>3 DEF WireInv
  <1>3. RecInv'
    <2>1. base + position <= executed'
      BY <1>t, <1>b DEF RecInv
    <2>2. ASSUME NEW i \in 1..Len(wire'), wire'[i].kind \in CommandKinds
          PROVE  base + position < wire'[i].rec /\ wire'[i].rec <= executed'
      <3>1. CASE i \in 1..Len(wire)
        <4>1. base + position < wire[i].rec /\ wire[i].rec <= executed
          BY <1>1, <1>b, <2>2, <3>1 DEF RecInv
        <4>. QED BY <1>1, <1>i, <1>r, <3>1, <4>1
      <3>2. CASE i = Len(wire) + 1
        <4>1. item.rec > executed /\ item.rec <= executed'
          BY <1>1, <2>2, <3>2
        <4>2. base + position < item.rec
          BY <1>i, <1>t, <1>b, <4>1 DEF RecInv
        <4>. QED BY <1>1, <3>2, <4>1, <4>2
      <3>. QED BY <1>1, <1>t, <3>1, <3>2
    <2>3. ASSUME NEW i \in 1..Len(wire'), NEW j \in 1..Len(wire'), i < j, wire'[i].kind \in CommandKinds,
                 wire'[j].kind \in CommandKinds
          PROVE  wire'[i].rec < wire'[j].rec
      <3>1. i \in 1..Len(wire) /\ wire'[i] = wire[i]
        BY <1>1, <1>t, <2>3
      <3>2. CASE j \in 1..Len(wire)
        BY <1>1, <1>b, <2>3, <3>1, <3>2 DEF RecInv
      <3>3. CASE j = Len(wire) + 1
        <4>1. wire[i].rec <= executed /\ item.rec > executed
          BY <1>1, <2>3, <3>1, <3>3
        <4>. QED BY <1>1, <1>i, <1>t, <3>1, <3>3, <4>1
      <3>. QED BY <1>1, <1>t, <3>2, <3>3
    <2>. QED BY <2>1, <2>2, <2>3 DEF RecInv
  <1>. QED BY <1>1, <1>2, <1>3

(* Whatever the server sends, it sends in turn: a reply to a request, and  *)
(* commands once it granted the synchronisation.                           *)
LEMMA ExecuteLemma == ASSUME IInv, NEW k \in Sent, Execute(k) PROVE StreamInv'
  <1>. USE DEF serverVars, socketVars, decoderVars, contextVars, streamVars
  <1>t. /\ wire \in Seq(Items) /\ Len(wire) \in Nat /\ executed \in Nat /\ k \in CommandKinds
        /\ base \in Nat /\ base <= executed /\ position \in Nat
    BY SentAssumption DEF IInv, TypeOK, LiveTypeOK
  <1>b. /\ StageInv /\ ServerInv /\ WireInv /\ RecInv /\ OutInv /\ LateInv
        /\ ~garbled => RequestInv /\ ReplyInv /\ StreamingInv /\ CommandsInv /\ CountInv /\ PlaceInv
    BY DEF IInv, BaseInv, ExactInv
  <1>k. /\ CommandKinds = {"step", "info", "long"} /\ TornKinds = {"header", "payload"}
        /\ Later = {"step", "info", "long", "header", "payload", "ok"}
    BY Kinds DEF Later
  <1>0. /\ UNCHANGED <<step, asked, handshook, position, start, garbled, ctx, late, phase, out>>
        /\ UNCHANGED <<base, streaming, owed, psync, conn>> /\ executed' = executed + 1 /\ executed' \in Nat
    BY <1>t DEF Execute
  <1>1. ~streaming => StageInv' /\ OutInv' /\ LateInv' /\ (~garbled => PlaceInv')
    <2>1. ~streaming => wire' = wire
      BY DEF Execute
    <2>. QED BY <1>0, <1>b, <2>1 DEF StageInv, OutInv, LateInv, PlaceInv
  <1>2. CASE ~streaming
    <2>1. wire' = wire
      BY <1>2 DEF Execute
    <2>2. RecInv'
      <3>. SUFFICES /\ base + position <= executed + 1
                    /\ \A i \in 1..Len(wire) : wire[i].kind \in CommandKinds => wire[i].rec <= executed + 1
        BY <1>0, <1>b, <2>1 DEF RecInv
      <3>1. \A i \in 1..Len(wire) : wire[i].rec \in Nat
        <4>1. \A i \in 1..Len(wire) : wire[i] \in Items
          BY <1>t
        <4>. QED BY <4>1 DEF Items
      <3>. QED BY <1>t, <1>b, <3>1 DEF RecInv
    <2>3. ServerInv' /\ WireInv'
      BY <1>0, <1>b, <2>1 DEF ServerInv, WireInv
    <2>4. ~garbled => RequestInv' /\ ReplyInv' /\ StreamingInv' /\ CommandsInv' /\ CountInv'
      BY <1>0, <1>2, <1>b, <2>1
      DEF RequestInv, ReplyInv, StreamingInv, CommandsInv, CountInv, Prelude, Disturbed
    <2>. QED BY <1>0, <1>1, <1>2, <2>2, <2>3, <2>4 DEF StreamInv, BaseInv, ExactInv
  <1>3. CASE streaming
    <2>0. conn = "open" /\ ~psync
      BY <1>3, <1>b DEF ServerInv
    <2>. DEFINE item == [kind |-> k, rec |-> executed + 1]
    <2>1. item \in Items /\ item.kind = k /\ item.rec = executed + 1
      BY <1>t DEF Items
    <2>2. wire' = Append(wire, item)
      BY <1>3, <2>0 DEF Execute
    <2>. HIDE DEF item
    <2>3. WireInv' /\ RecInv' /\ wire' # <<>> /\ Len(wire') = Len(wire) + 1 /\ wire'[Len(wire) + 1] = item
          /\ \A i \in 1..Len(wire) : wire'[i] = wire[i]
      <3>1. item.kind \in Later /\ item.rec > executed /\ item.rec <= executed' /\ executed <= executed'
        BY <1>0, <1>t, <1>k, <2>1
      <3>2. \A i \in 1..Len(wire) : wire[i].kind \in CommandKinds => wire[i].rec <= executed
        BY <1>b DEF RecInv
      <3>. QED BY <1>0, <2>1, <2>2, <3>1, <3>2, AppendLemma
    <2>4. StageInv' /\ ServerInv' /\ OutInv' /\ LateInv'
      <3>1. ServerInv'
        BY <1>0, <1>3, <1>b DEF ServerInv
      <3>2. StageInv'
        BY <1>0, <1>b, <2>0 DEF StageInv
      <3>. QED BY <1>0, <1>b, <3>1, <3>2 DEF OutInv, LateInv
    <2>5. ASSUME ~garbled PROVE ExactInv'
      <3>0. (handshook \/ wire # <<>>) /\ ~(owed > 0 /\ wire = <<>>)
        <4>1. handshook => ~asked
          BY <1>b DEF StageInv, Requests
        <4>. QED BY <1>3, <1>b, <2>5, <4>1 DEF StreamingInv, RequestInv
      <3>1. ~handshook => wire'[1] = wire[1] /\ Len(wire) >= 1
        BY <1>t, <2>3, <3>0
      <3>2. Prelude' = Prelude /\ Prelude \in 0..2 /\ (handshook => Prelude = 0)
        BY <1>0, <2>3, <3>0, <3>1 DEF Prelude
      <3>3. ~Disturbed => Prelude <= Len(wire) /\ base + position + Len(wire) = executed + Prelude
        <4>1. ~handshook => position = 0
          BY <1>b DEF StageInv
        <4>. QED BY <1>t, <1>3, <1>b, <2>5, <3>2, <4>1 DEF CountInv
      <3>4. ~handshook /\ wire[1].kind = "fullresync" => Len(wire) > 1 /\ wire'[2] = wire[2]
        <4>. SUFFICES ASSUME ~handshook, wire[1].kind = "fullresync" PROVE Len(wire) > 1
          BY <1>t, <2>3
        <4>1. Prelude = 2
          BY <3>0 DEF Prelude
        <4>. QED BY <1>t, <3>3, <4>1 DEF Disturbed
      <3>5. Disturbed' <=> Disturbed
        BY <1>0, <1>t, <2>3, <3>0, <3>1, <3>4 DEF Disturbed
      <3>6. CountInv'
        BY <1>0, <1>t, <2>3, <3>2, <3>3, <3>5 DEF CountInv
      <3>7. CommandsInv'
        <4>. SUFFICES ASSUME ~Disturbed, NEW j \in 1..Len(wire'), j > Prelude
             PROVE  /\ wire'[j].kind \in CommandKinds
                    /\ wire'[j].rec = base + position + j - Prelude
          BY <1>0, <1>k, <3>2, <3>5 DEF CommandsInv
        <4>1. CASE j \in 1..Len(wire)
          BY <2>0, <2>3, <1>b, <2>5, <4>1 DEF CommandsInv
        <4>2. CASE j = Len(wire) + 1
          BY <1>t, <2>1, <2>3, <3>2, <3>3, <4>2
        <4>. QED BY <1>t, <2>3, <4>1, <4>2
      <3>8. RequestInv' /\ StreamingInv' /\ PlaceInv'
        BY <1>0, <1>b, <2>0, <2>3, <2>5, <3>0 DEF RequestInv, StreamingInv, PlaceInv
      <3>9. ReplyInv'
        <4>. SUFFICES ASSUME ~handshook PROVE ReplyInv'
          BY <1>0 DEF ReplyInv
        <4>1. wire'[1] = wire[1] /\ wire[1].kind \notin {"ok", "error"}
          BY <1>3, <1>b, <2>5, <3>0, <3>1 DEF ReplyInv
        <4>2. wire[1].kind = "fullresync" => wire'[2] = wire[2] /\ wire[2].kind \in {"rdb", "ping"}
          BY <1>b, <2>5, <3>0, <3>4 DEF ReplyInv
        <4>. QED BY <1>0, <1>b, <2>5, <3>0, <4>1, <4>2 DEF ReplyInv
      <3>. QED BY <3>6, <3>7, <3>8, <3>9 DEF ExactInv
    <2>. QED BY <1>0, <2>3, <2>4, <2>5 DEF StreamInv, BaseInv
  <1>. QED BY <1>2, <1>3

LEMMA ReplyLemma ==
  ASSUME IInv, NEW k \in {"ok", "error"}, Answer(k) \/ RefuseSync \/ KeepAlive PROVE StreamInv'
  <1>. USE DEF serverVars, socketVars, decoderVars, contextVars, streamVars
  <1>t. /\ wire \in Seq(Items) /\ Len(wire) \in Nat /\ executed \in Nat /\ owed \in Nat
    BY DEF IInv, TypeOK, LiveTypeOK
  <1>b. /\ StageInv /\ ServerInv /\ WireInv /\ RecInv /\ OutInv /\ LateInv
        /\ ~garbled => RequestInv /\ ReplyInv /\ StreamingInv /\ CommandsInv /\ CountInv /\ PlaceInv
    BY DEF IInv, BaseInv, ExactInv
  <1>k. /\ CommandKinds = {"step", "info", "long"} /\ TornKinds = {"header", "payload"}
        /\ Later = {"step", "info", "long", "header", "payload", "ok"}
    BY Kinds DEF Later
  <1>1. PICK r \in {"ok", "error", "ping"} :
          /\ wire' = Append(wire, Item(r)) /\ conn = "open"
          /\ \/ /\ r \in {"ok", "error"} /\ owed > 0 /\ owed' = owed - 1 /\ psync' = psync
                /\ r = "ok" \/ ~(streaming \/ psync)
             \/ /\ r = "error" /\ psync /\ ~psync' /\ owed' = owed
             \/ /\ r = "ping" /\ psync /\ psync' = psync /\ owed' = owed
                /\ \A i \in 1..Len(wire) : wire[i].kind # "ping"
    BY Zenon DEF Answer, RefuseSync, KeepAlive
  <1>0. /\ UNCHANGED <<step, asked, handshook, position, start, garbled, ctx, late, phase, out>>
        /\ UNCHANGED <<executed, base, streaming, conn>>
    BY DEF Answer, RefuseSync, KeepAlive
  <1>2. Item(r).kind = r /\ Item(r) \in Items
    BY ItemTypes DEF ReplyKinds
  <1>3. ASSUME r # "ok"
        PROVE  ~streaming /\ ~handshook
               /\ \A i \in 1..Len(wire) : wire[i].kind \notin {"fullresync", "continue", "rdb"}
    <2>1. ~streaming
      BY <1>1, <1>3, <1>b DEF ServerInv
    <2>. QED BY <1>1, <1>b, <2>1 DEF ServerInv
  <1>4. WireInv' /\ RecInv' /\ wire' # <<>> /\ Len(wire') = Len(wire) + 1 /\ wire'[Len(wire) + 1] = Item(r)
        /\ \A i \in 1..Len(wire) : wire'[i] = wire[i]
    <2>1. Item(r).kind \in Later \/ (Item(r).kind \in {"error", "ping"} /\ ~handshook
            /\ \A i \in 1..Len(wire) : wire[i].kind \notin {"fullresync", "continue", "rdb"})
      BY <1>k, <1>2, <1>3
    <2>2. Item(r).kind \notin CommandKinds
      BY <1>k, <1>2
    <2>. QED BY <1>0, <1>1, <1>2, <1>t, <2>1, <2>2, AppendLemma
  <1>5. ServerInv'
    <2>1. \A i \in 1..Len(wire') :
            wire'[i].kind \in {"fullresync", "continue", "rdb"} \cup CommandKinds => streaming
      <3>. SUFFICES ASSUME NEW i \in 1..Len(wire'),
                           wire'[i].kind \in {"fullresync", "continue", "rdb"} \cup CommandKinds
           PROVE  streaming
        OBVIOUS
      <3>1. i \in 1..Len(wire)
        BY <1>k, <1>2, <1>4, <1>t
      <3>. QED BY <1>1, <1>4, <1>b, <3>1 DEF ServerInv
    <2>2. psync' => psync
      BY <1>1
    <2>3. conn' = "open"
      BY <1>0, <1>1
    <2>. QED BY <1>0, <1>b, <2>1, <2>2, <2>3 DEF ServerInv
  <1>6. StageInv' /\ OutInv' /\ LateInv'
    BY <1>0, <1>1, <1>b DEF StageInv, OutInv, LateInv
  <1>7. ASSUME ~garbled PROVE ExactInv'
    <2>0. asked /\ ~handshook /\ ~streaming
      <3>1. asked
        BY <1>1, <1>b, <1>7 DEF RequestInv
      <3>2. ~handshook
        BY <1>b, <3>1 DEF StageInv, Requests
      <3>3. owed > 0 => wire = <<>>
        BY <1>b, <1>7 DEF RequestInv
      <3>. QED BY <1>1, <1>b, <1>7, <3>1, <3>2, <3>3 DEF StreamingInv, ServerInv
    <2>1. StreamingInv' /\ CountInv' /\ PlaceInv'
      BY <1>0, <1>b, <1>7, <2>0 DEF StreamingInv, CountInv, PlaceInv
    <2>2. CASE wire = <<>>
      <3>1. Len(wire') = 1 /\ wire'[1].kind = r
        BY <1>2, <1>4, <2>2
      <3>2. ReplyInv'
        <4>1. r = "ok" => step # "psync"
          BY <1>1, <1>b, <1>7 DEF RequestInv
        <4>2. r = "ping" => step = "psync"
          BY <1>1, <1>b, <1>7 DEF RequestInv
        <4>3. step # "rdb"
          BY <1>b, <2>0 DEF StageInv, Requests
        <4>. QED BY <1>0, <2>0, <3>1, <4>1, <4>2, <4>3 DEF ReplyInv
      <3>3. RequestInv'
        <4>1. CASE owed > 0
          <5>1. owed = 1 /\ ~psync /\ owed' = 0 /\ ~psync'
            BY <1>1, <1>b, <1>7, <1>t, <4>1 DEF RequestInv
          <5>. QED BY <1>0, <2>0, <5>1 DEF RequestInv
        <4>2. CASE ~(owed > 0)
          <5>1. ~(owed' > 0) /\ psync /\ (psync' => r = "ping") /\ step = "psync"
            BY <1>1, <1>b, <1>7, <4>2 DEF RequestInv
          <5>. QED BY <1>0, <2>0, <3>1, <5>1 DEF RequestInv
        <4>. QED BY <4>1, <4>2
      <3>4. CommandsInv'
        <4>1. Prelude' = 1 \/ Disturbed'
          BY <1>0, <1>4, <2>0, <3>1 DEF Prelude, Disturbed
        <4>. QED BY <3>1, <4>1 DEF CommandsInv
      <3>. QED BY <2>1, <3>2, <3>3, <3>4 DEF ExactInv
    <2>3. CASE wire # <<>>
      <3>1. psync /\ ~(owed > 0) /\ owed' = owed /\ wire[1].kind = "ping" /\ step = "psync"
        BY <1>1, <1>b, <1>7, <2>3 DEF RequestInv
      <3>2. wire'[1].kind = "ping" /\ wire' # <<>>
        BY <1>4, <1>t, <2>3, <3>1
      <3>3. Disturbed'
        BY <1>0, <2>0, <3>2 DEF Disturbed
      <3>4. RequestInv' /\ ReplyInv'
        BY <1>0, <2>0, <3>1, <3>2 DEF RequestInv, ReplyInv
      <3>5. CommandsInv'
        BY <3>3 DEF CommandsInv
      <3>. QED BY <2>1, <3>4, <3>5 DEF ExactInv
    <2>. QED BY <2>2, <2>3
  <1>. QED BY <1>0, <1>4, <1>5, <1>6, <1>7 DEF StreamInv, BaseInv

LEMMA GrantLemma == ASSUME IInv, NEW k \in {"fullresync", "continue"}, GrantSync(k) PROVE StreamInv'
  <1>. USE DEF serverVars, socketVars, decoderVars, contextVars, streamVars
  <1>t. /\ wire \in Seq(Items) /\ Len(wire) \in Nat /\ executed \in Nat
    BY DEF IInv, TypeOK, LiveTypeOK
  <1>b. /\ StageInv /\ ServerInv /\ WireInv /\ RecInv /\ OutInv /\ LateInv
        /\ ~garbled => RequestInv /\ ReplyInv /\ StreamingInv /\ CommandsInv /\ CountInv /\ PlaceInv
    BY DEF IInv, BaseInv, ExactInv
  <1>k. CommandKinds = {"step", "info", "long"}
    BY Kinds
  <1>0. /\ UNCHANGED <<step, asked, handshook, position, start, garbled, ctx, late, phase, out>>
        /\ UNCHANGED <<executed, owed, conn>> /\ psync /\ ~psync' /\ streaming' /\ base' = executed /\ conn = "open"
    BY DEF GrantSync
  <1>1. ~streaming /\ ~handshook /\ step # "rdb" /\ position = 0
    BY <1>0, <1>b DEF ServerInv, StageInv
  <1>2. \A i \in 1..Len(wire) : wire[i].kind \notin {"fullresync", "continue", "rdb"} \cup CommandKinds
    BY <1>0, <1>1, <1>b DEF ServerInv
  <1>3. PICK reply \in Seq(Items) :
          /\ wire' = wire \o reply
          /\ \/ k = "continue" /\ reply = <<Item(k)>>
             \/ k = "fullresync" /\ reply = <<Item(k), Item("rdb")>>
             \/ k = "fullresync" /\ reply = <<Item(k), Item("ping"), Item("rdb")>>
    <2>1. Item(k) \in Items /\ Item("ping") \in Items /\ Item("rdb") \in Items
      BY ItemTypes DEF ReplyKinds
    <2>2. /\ <<Item(k), Item("rdb")>> \in Seq(Items) /\ <<Item(k)>> \in Seq(Items)
          /\ <<Item(k), Item("ping"), Item("rdb")>> \in Seq(Items)
      BY <2>1
    <2>. QED BY <2>2, Zenon DEF GrantSync
  <1>4. /\ Len(reply) \in 1..3 /\ reply[1].kind = k
        /\ k = "continue" => Len(reply) = 1
        /\ k = "fullresync" => /\ Len(reply) > 1 /\ reply[2].kind \in {"rdb", "ping"}
                               /\ reply[2].kind = "rdb" => Len(reply) = 2
        /\ \A i \in 1..Len(reply) : reply[i].kind \in {"fullresync", "continue", "ping", "rdb"}
                                    /\ (reply[i].kind \in {"continue", "rdb"} => i = Len(reply))
    <2>1. Item(k).kind = k /\ Item("ping").kind = "ping" /\ Item("rdb").kind = "rdb"
      BY ItemTypes DEF ReplyKinds
    <2>2. CASE reply = <<Item(k)>>
      BY <1>3, <2>1, <2>2
    <2>3. CASE reply = <<Item(k), Item("rdb")>>
      BY <1>3, <2>1, <2>3
    <2>4. CASE reply = <<Item(k), Item("ping"), Item("rdb")>>
      BY <1>3, <2>1, <2>4
    <2>. QED BY <1>3, <2>2, <2>3, <2>4
  <1>5. /\ Len(wire') = Len(wire) + Len(reply) /\ wire' # <<>>
        /\ \A i \in 1..Len(wire) : wire'[i] = wire[i]
        /\ \A i \in 1..Len(wire') : i > Len(wire) => i - Len(wire) \in 1..Len(reply) /\ wire'[i] = reply[i - Len(wire)]
    BY <1>t, <1>3, <1>4
  <1>6. WireInv'
    <2>1. ASSUME NEW i \in 1..Len(wire'), wire'[i].kind = "rest" PROVE i = 1 /\ garbled'
      <3>1. i \in 1..Len(wire)
        BY <1>4, <1>5, <1>t, <2>1
      <3>. QED BY <1>0, <1>5, <1>b, <2>1, <3>1 DEF WireInv
    <2>2. ASSUME NEW i \in 1..Len(wire'), NEW j \in 1..Len(wire'), i < j, wire'[i].kind \in {"continue", "rdb"}
          PROVE  FALSE
      <3>1. CASE i \in 1..Len(wire)
        BY <1>2, <1>5, <2>2, <3>1
      <3>2. CASE i > Len(wire)
        <4>1. i - Len(wire) = Len(reply)
          BY <1>4, <1>5, <2>2, <3>2
        <4>. QED BY <1>4, <1>5, <1>t, <2>2, <4>1
      <3>. QED BY <1>5, <1>t, <3>1, <3>2
    <2>. QED BY <1>0, <1>1, <2>1, <2>2 DEF WireInv
  <1>7. \A i \in 1..Len(wire') : wire'[i].kind \notin CommandKinds
    <2>. SUFFICES ASSUME NEW i \in 1..Len(wire'), wire'[i].kind \in CommandKinds PROVE FALSE
      OBVIOUS
    <2>1. CASE i \in 1..Len(wire)
      BY <1>2, <1>5, <2>1
    <2>2. CASE i > Len(wire)
      BY <1>4, <1>5, <1>k, <2>2
    <2>. QED BY <1>5, <1>t, <2>1, <2>2
  <1>8. RecInv'
    BY <1>0, <1>1, <1>7, <1>t DEF RecInv
  <1>9. StageInv' /\ ServerInv' /\ OutInv' /\ LateInv'
    <2>1. StageInv'
      BY <1>0, <1>b DEF StageInv
    <2>2. ServerInv'
      BY <1>0, <1>b DEF ServerInv
    <2>3. out.kind \notin EventKinds
      BY <1>1, <1>b DEF OutInv
    <2>. QED BY <1>0, <1>b, <2>1, <2>2, <2>3 DEF OutInv, LateInv
  <1>10. ASSUME ~garbled PROVE ExactInv'
    <2>0. step = "psync" /\ asked /\ ~(owed > 0) /\ (wire # <<>> => wire[1].kind = "ping")
      BY <1>0, <1>b, <1>10 DEF RequestInv
    <2>1. StreamingInv' /\ RequestInv'
      BY <1>0, <1>5, <2>0 DEF StreamingInv, RequestInv
    <2>2. out.kind \notin EventKinds
      BY <1>1, <1>b DEF OutInv
    <2>3. PlaceInv'
      BY <1>0, <2>2 DEF PlaceInv
    <2>4. CASE wire # <<>>
      <3>1. wire'[1].kind = "ping"
        BY <1>5, <1>t, <2>0, <2>4
      <3>2. Disturbed'
        BY <1>0, <1>1, <1>5, <3>1 DEF Disturbed
      <3>3. ReplyInv'
        BY <1>0, <2>0, <3>1 DEF ReplyInv
      <3>. QED BY <2>1, <2>3, <3>2, <3>3 DEF ExactInv, CommandsInv, CountInv
    <2>5. CASE wire = <<>>
      <3>1. Len(wire') = Len(reply) /\ wire'[1].kind = k /\ (k = "fullresync" => wire'[2] = reply[2])
        BY <1>4, <1>5, <2>5
      <3>2. ReplyInv'
        BY <1>0, <1>4, <2>0, <3>1 DEF ReplyInv
      <3>3. Disturbed' \/ Prelude' = Len(wire')
        BY <1>0, <1>1, <1>4, <1>5, <3>1 DEF Disturbed, Prelude
      <3>4. CommandsInv'
        BY <3>3 DEF CommandsInv
      <3>5. CountInv'
        BY <1>0, <1>1, <1>t, <3>1, <1>4, <3>3 DEF CountInv
      <3>. QED BY <2>1, <2>3, <3>2, <3>4, <3>5 DEF ExactInv
    <2>. QED BY <2>4, <2>5
  <1>. QED BY <1>0, <1>6, <1>8, <1>9, <1>10 DEF StreamInv, BaseInv

LEMMA DropLemma == ASSUME IInv, NEW torn \in TornKinds \cup {"no"}, Drop(torn) PROVE StreamInv'
  <1>. USE DEF serverVars, socketVars, decoderVars, contextVars, streamVars
  <1>t. /\ wire \in Seq(Items) /\ Len(wire) \in Nat /\ executed \in Nat /\ base \in Nat /\ position \in Nat
    BY DEF IInv, TypeOK, LiveTypeOK
  <1>b. /\ StageInv /\ ServerInv /\ WireInv /\ RecInv /\ OutInv /\ LateInv
        /\ ~garbled => RequestInv /\ ReplyInv /\ StreamingInv /\ CommandsInv /\ CountInv /\ PlaceInv
    BY DEF IInv, BaseInv, ExactInv
  <1>k. /\ CommandKinds = {"step", "info", "long"} /\ TornKinds = {"header", "payload"}
        /\ Later = {"step", "info", "long", "header", "payload", "ok"}
    BY Kinds DEF Later
  <1>0. /\ UNCHANGED <<step, asked, handshook, position, start, garbled, ctx, late, phase, out>>
        /\ UNCHANGED <<executed, base>> /\ conn = "open" /\ conn' = "dropped" /\ ~(owed' > 0) /\ ~psync' /\ ~streaming'
    BY DEF Drop
  <1>1. StageInv' /\ ServerInv' /\ OutInv' /\ LateInv'
    BY <1>0, <1>b DEF StageInv, ServerInv, OutInv, LateInv
  <1>2. StreamingInv' /\ CountInv' /\ (~garbled => PlaceInv')
    BY <1>0, <1>b DEF StreamingInv, CountInv, PlaceInv
  <1>3. CASE wire' = wire
    <2>1. WireInv' /\ RecInv'
      BY <1>0, <1>3, <1>b DEF WireInv, RecInv
    <2>2. ~garbled => RequestInv' /\ ReplyInv' /\ CommandsInv'
      BY <1>0, <1>3, <1>b DEF RequestInv, ReplyInv, CommandsInv, Prelude, Disturbed
    <2>. QED BY <1>0, <1>1, <1>2, <2>1, <2>2 DEF StreamInv, BaseInv, ExactInv
  <1>4. CASE torn \in TornKinds /\ streaming /\ wire' = Append(wire, Item(torn))
    <2>1. Item(torn) \in Items /\ Item(torn).kind = torn /\ torn \in {"header", "payload"}
      BY <1>4, <1>k, ItemTypes
    <2>2. WireInv' /\ RecInv' /\ wire' # <<>> /\ Len(wire') = Len(wire) + 1 /\ wire'[Len(wire) + 1] = Item(torn)
          /\ \A i \in 1..Len(wire) : wire'[i] = wire[i]
      <3>1. Item(torn).kind \in Later /\ Item(torn).kind \notin CommandKinds
        BY <1>k, <2>1
      <3>. QED BY <1>0, <1>4, <1>t, <2>1, <3>1, AppendLemma
    <2>3. ASSUME ~garbled PROVE ExactInv'
      <3>0. handshook \/ wire # <<>>
        BY <1>4, <1>b, <2>3 DEF StreamingInv
      <3>1. ~handshook => wire'[1] = wire[1] /\ Len(wire) >= 1
        BY <1>t, <2>2, <3>0
      <3>2. Prelude' = Prelude /\ Prelude \in 0..2 /\ (handshook => Prelude = 0)
        BY <1>0, <2>2, <3>0, <3>1 DEF Prelude
      <3>3. ~Disturbed => Prelude <= Len(wire)
        <4>1. ~handshook => position = 0
          BY <1>b DEF StageInv
        <4>2. base <= executed
          BY DEF IInv, TypeOK, LiveTypeOK
        <4>. QED BY <1>t, <1>4, <1>b, <2>3, <3>2, <4>1, <4>2 DEF CountInv
      <3>4. ~handshook /\ wire[1].kind = "fullresync" => Len(wire) > 1 /\ wire'[2] = wire[2]
        <4>. SUFFICES ASSUME ~handshook, wire[1].kind = "fullresync" PROVE Len(wire) > 1
          BY <1>t, <2>2
        <4>1. Prelude = 2
          BY <3>0 DEF Prelude
        <4>. QED BY <1>t, <3>3, <4>1 DEF Disturbed
      <3>5. Disturbed' <=> Disturbed
        BY <1>0, <1>t, <2>2, <3>0, <3>1, <3>4 DEF Disturbed
      <3>6. CommandsInv'
        <4>. SUFFICES ASSUME ~Disturbed, NEW j \in 1..Len(wire'), j > Prelude
             PROVE  /\ wire'[j].kind \in CommandKinds \cup TornKinds
                    /\ wire'[j].kind \in CommandKinds => wire'[j].rec = base + position + j - Prelude
                    /\ wire'[j].kind \in TornKinds => j = Len(wire')
          BY <1>0, <3>2, <3>5 DEF CommandsInv
        <4>1. CASE j \in 1..Len(wire)
          BY <1>0, <2>2, <1>b, <2>3, <4>1 DEF CommandsInv
        <4>2. CASE j = Len(wire) + 1
          BY <1>k, <2>1, <2>2, <4>2
        <4>. QED BY <1>t, <2>2, <4>1, <4>2
      <3>7. RequestInv'
        BY <1>0, <1>b, <2>3, <3>0 DEF RequestInv
      <3>8. ReplyInv'
        <4>. SUFFICES ASSUME ~handshook PROVE ReplyInv'
          BY <1>0 DEF ReplyInv
        <4>1. wire'[1] = wire[1] /\ wire[1].kind \notin {"ok", "error"}
          BY <1>4, <1>b, <2>3, <3>0, <3>1 DEF ReplyInv
        <4>2. wire[1].kind = "fullresync" => wire'[2] = wire[2] /\ wire[2].kind \in {"rdb", "ping"}
          BY <1>b, <2>3, <3>0, <3>4 DEF ReplyInv
        <4>. QED BY <1>0, <1>b, <2>3, <3>0, <4>1, <4>2 DEF ReplyInv
      <3>. QED BY <1>2, <2>3, <3>6, <3>7, <3>8 DEF ExactInv
    <2>. QED BY <1>0, <1>1, <2>2, <2>3 DEF StreamInv, BaseInv
  <1>. QED BY <1>3, <1>4, Zenon DEF Drop

(* A handshake that fails, and no reply that was misread, leaves nothing   *)
(* on the connection and no request.                                       *)
LEMMA GiveUpLemma ==
  ASSUME IInv, FailSend \/ FailReply \/ FailRDB PROVE StreamInv'
  <1>. USE DEF serverVars, socketVars, decoderVars, contextVars, streamVars
  <1>t. LiveTypeOK /\ wire \in Seq(Items) /\ Len(wire) \in Nat
    BY DEF IInv, TypeOK, LiveTypeOK
  <1>b. /\ StageInv /\ ServerInv /\ WireInv /\ RecInv /\ OutInv /\ LateInv
        /\ ~garbled => RequestInv /\ ReplyInv /\ StreamingInv /\ CommandsInv /\ CountInv /\ PlaceInv
    BY DEF IInv, BaseInv, ExactInv
  <1>0. GiveUp /\ UNCHANGED <<executed, base, handshook, position, start, ctx, late>>
    BY DEF FailSend, FailReply, FailRDB, GiveUp
  <1>1. /\ ~handshook /\ step \in Requests \cup {"rdb"} /\ step \notin {"loop", "read"}
        /\ step = "auth" => phase = "closed"
        /\ step # "auth" => phase = "decoding"
        /\ conn # "none"
    <2>1. step \in Requests \cup {"rdb"} /\ (step = "auth" => phase = "closed") /\ (step # "auth" => phase = "decoding")
      BY DEF FailSend, FailReply, FailRDB, Connecting, Requests
    <2>2. conn # "none"
      BY <1>b DEF StageInv, FailSend, FailReply, FailRDB, Connecting
    <2>. QED BY <1>b, <2>1, <2>2 DEF StageInv, Requests
  <1>2. /\ ~asked' /\ step' = "port"
        /\ step = "auth" => conn' = "closed" /\ wire' = <<>> /\ ~streaming' /\ ~(owed' > 0) /\ ~psync' /\ phase' = "closed"
                            /\ out' = out
        /\ step # "auth" => UNCHANGED <<conn, streaming, owed, psync>> /\ phase' \in {"done", "yielding"}
    BY <1>0, <1>1 DEF GiveUp, YieldError, Return
  <1>3. wire' \in Seq(Items) /\ (garbled => garbled')
        /\ \E d \in Nat : \A j \in 1..Len(wire') :
             \/ j + d \in 1..Len(wire) /\ wire'[j] = wire[j + d]
             \/ wire'[j].kind \in TornKinds
             \/ j = 1 /\ wire'[j].kind = "rest" /\ garbled'
    <2>1. CASE step = "auth"
      <3>1. garbled' = garbled
        BY <2>1 DEF FailSend, FailReply, FailRDB, Granting
      <3>. QED BY <1>2, <2>1, <3>1
    <2>2. CASE wire # <<>> /\ Misread
      <3>1. garbled' /\ wire' \in Seq(Items)
            /\ \E d \in 0..2 : \A j \in 1..Len(wire') :
                 \/ j + d \in 1..Len(wire) /\ wire'[j] = wire[j + d]
                 \/ j = 1 /\ wire'[j].kind = "rest"
        BY <1>t, <2>2, MisreadLemma
      <3>2. PICK d \in 0..2 : \A j \in 1..Len(wire') :
                 \/ j + d \in 1..Len(wire) /\ wire'[j] = wire[j + d]
                 \/ j = 1 /\ wire'[j].kind = "rest"
        BY <3>1
      <3>3. d \in Nat
        OBVIOUS
      <3>. QED BY <3>1, <3>2, <3>3, Zenon
    <2>3. CASE step # "auth" /\ ~(wire # <<>> /\ Misread)
      <3>1. garbled' = garbled /\ (wire' = wire \/ (wire # <<>> /\ wire' = Tail(wire)))
        BY <2>3 DEF FailSend, FailReply, FailRDB
      <3>2. CASE wire' = wire
        <4>1. \A j \in 1..Len(wire') : j + 0 \in 1..Len(wire) /\ wire'[j] = wire[j + 0]
          BY <1>t, <3>2
        <4>2. 0 \in Nat
          OBVIOUS
        <4>. QED BY <1>t, <3>1, <3>2, <4>1, <4>2
      <3>3. CASE wire # <<>> /\ wire' = Tail(wire)
        <4>1. wire' \in Seq(Items) /\ \A j \in 1..Len(wire') : j + 1 \in 1..Len(wire) /\ wire'[j] = wire[j + 1]
          BY <1>t, <3>3
        <4>2. 1 \in Nat
          OBVIOUS
        <4>. QED BY <3>1, <4>1, <4>2
      <3>. QED BY <3>1, <3>2, <3>3
    <2>. QED BY <2>1, <2>2, <2>3
  <1>4. PICK d \in Nat : \A j \in 1..Len(wire') :
             \/ j + d \in 1..Len(wire) /\ wire'[j] = wire[j + d]
             \/ wire'[j].kind \in TornKinds
             \/ j = 1 /\ wire'[j].kind = "rest" /\ garbled'
    BY <1>3
  <1>5. WireInv' /\ RecInv' /\
        (step # "auth" => \A i \in 1..Len(wire') :
           conn = "open" /\ wire'[i].kind \in {"fullresync", "continue", "rdb"} \cup CommandKinds => streaming')
    <2>1. /\ WireInv' /\ RecInv'
          /\ conn' = "open" /\ conn = "open" /\ streaming' = streaming /\ ServerInv =>
              \A i \in 1..Len(wire') :
                wire'[i].kind \in {"fullresync", "continue", "rdb"} \cup CommandKinds => streaming'
      BY <1>0, <1>3, <1>4, ShrinkLemma
    <2>. QED BY <1>2, <1>b, <2>1
  <1>6. StageInv'
    BY <1>0, <1>1, <1>2, <1>b DEF StageInv, Requests
  <1>7. ServerInv'
    <2>1. CASE step = "auth"
      BY <1>2, <2>1 DEF ServerInv
    <2>2. CASE step # "auth"
      BY <1>0, <1>1, <1>2, <1>5, <1>b, <2>2 DEF ServerInv
    <2>. QED BY <2>1, <2>2
  <1>8. OutInv' /\ PlaceInv'
    <2>1. out.kind \notin EventKinds /\ (phase # "yielding" => out = Nothing)
      BY <1>1, <1>b DEF OutInv
    <2>. QED BY <1>0, <1>1, <1>2, <2>1 DEF OutInv, PlaceInv, GiveUp, YieldError, Return, Nothing, EventKinds
  <1>9. LateInv'
    BY <1>0, <1>2, <1>b DEF LateInv
  <1>10. ASSUME ~garbled' PROVE ExactInv'
    <2>0. ~garbled
      BY <1>3, <1>10
    <2>1. ~(owed > 0) /\ ~psync /\ ~streaming /\ (step # "auth" => wire' = <<>>)
      <3>1. CASE FailSend
        <4>1. ~asked /\ conn # "open" /\ step \in Requests /\ (step # "auth" => wire' = wire)
          BY <3>1 DEF FailSend, Connecting
        <4>2. wire = <<>>
          BY <1>1, <1>b, <2>0, <4>1 DEF RequestInv, Requests
        <4>. QED BY <1>b, <4>1, <4>2 DEF ServerInv
      <3>2. CASE FailRDB
        <4>1. wire = <<>> /\ wire' = wire /\ conn # "open"
          BY <1>10, <3>2 DEF FailRDB, Misread
        <4>. QED BY <1>b, <4>1 DEF ServerInv
      <3>3. CASE FailReply
        <4>1. asked /\ step \in Requests
          BY <3>3 DEF FailReply, Connecting
        <4>2. CASE wire = <<>>
          <5>1. conn # "open" /\ (step # "auth" => wire' = wire)
            BY <3>3, <4>2 DEF FailReply
          <5>. QED BY <1>b, <4>2, <5>1 DEF ServerInv
        <4>3. CASE wire # <<>>
          <5>1. Head(wire) = wire[1] /\ wire[1].kind \in {"error", "header"} /\ (step # "auth" => wire' = Tail(wire))
            BY <1>t, <1>10, <3>3, <4>3 DEF FailReply, Misread
          <5>2. wire[1].kind = "error" /\ Len(wire) = 1 /\ ~streaming
            BY <1>1, <1>b, <2>0, <4>1, <4>3, <5>1 DEF ReplyInv, Requests
          <5>3. step # "auth" => wire' = <<>>
            BY <1>t, <4>3, <5>1, <5>2
          <5>. QED BY <1>b, <2>0, <4>3, <5>2, <5>3 DEF RequestInv
        <4>. QED BY <4>2, <4>3
      <3>. QED BY <3>1, <3>2, <3>3
    <2>2. wire' = <<>> /\ ~(owed' > 0) /\ ~psync' /\ ~streaming'
      BY <1>2, <2>1
    <2>3. RequestInv' /\ ReplyInv' /\ StreamingInv' /\ CommandsInv' /\ CountInv'
      BY <2>2 DEF RequestInv, ReplyInv, StreamingInv, CommandsInv, CountInv
    <2>. QED BY <1>8, <2>3 DEF ExactInv
  <1>. QED BY <1>5, <1>6, <1>7, <1>8, <1>9, <1>10 DEF StreamInv, BaseInv

(* A reply is read, or the snapshot: the prelude is one item shorter.      *)
LEMMA ReadLemma == ASSUME IInv, Greet \/ Synchronise \/ SkipRDB PROVE StreamInv'
  <1>. USE DEF serverVars, socketVars, decoderVars, contextVars, streamVars
  <1>t. /\ wire \in Seq(Items) /\ Len(wire) \in Nat /\ base \in Nat /\ base <= executed
        /\ executed \in Nat
    BY DEF IInv, TypeOK, LiveTypeOK
  <1>b. /\ StageInv /\ ServerInv /\ WireInv /\ RecInv /\ OutInv /\ LateInv
        /\ ~garbled => RequestInv /\ ReplyInv /\ StreamingInv /\ CommandsInv /\ CountInv /\ PlaceInv
    BY DEF IInv, BaseInv, ExactInv
  <1>1. /\ wire # <<>> /\ wire' = Tail(wire) /\ Head(wire) = wire[1] /\ ~asked'
        /\ step \in Requests \cup {"rdb"} /\ (step = "auth" => phase = "closed") /\ (step # "auth" => phase = "decoding")
        /\ UNCHANGED <<executed, base, streaming, owed, psync, conn, position, start, garbled, ctx, late, out>>
    <2>0. wire # <<>> => Head(wire) = wire[1]
      BY <1>t
    <2>1. CASE Greet \/ Synchronise
      <3>1. ReadReply
        BY <2>1 DEF Greet, Synchronise
      <3>2. step \in Requests /\ (step = "auth" => phase = "closed") /\ (step # "auth" => phase = "decoding")
        BY <3>1 DEF ReadReply, Connecting
      <3>. QED BY <2>0, <3>1, <3>2 DEF ReadReply
    <2>2. CASE SkipRDB
      <3>1. step = "rdb" /\ phase = "decoding" /\ wire # <<>> /\ wire' = Tail(wire)
            /\ UNCHANGED <<executed, base, streaming, owed, psync, conn, asked, position, start, garbled, ctx, late, out>>
        BY <2>2 DEF SkipRDB
      <3>2. ~asked
        BY <1>b, <3>1 DEF StageInv, Requests
      <3>. QED BY <2>0, <3>1, <3>2
    <2>. QED BY <2>1, <2>2
  <1>2. /\ Len(wire') = Len(wire) - 1 /\ Len(wire) > 0 /\ wire' \in Seq(Items)
        /\ \A j \in 1..Len(wire') : j + 1 \in 1..Len(wire) /\ wire'[j] = wire[j + 1]
    BY <1>t, <1>1
  <1>3. ~handshook /\ position = 0 /\ conn # "none" /\ phase # "yielding"
    BY <1>1, <1>b DEF StageInv, Requests
  <1>4. /\ (Greet /\ wire[1].kind \in Granting /\ asked /\ handshook' = handshook
              /\ \/ step = "auth" /\ phase' = "open" /\ step' = "port"
                 \/ step = "port" /\ step' = "capa" /\ phase' = "decoding"
                 \/ step = "capa" /\ step' = "psync" /\ phase' = "decoding")
           \/ (wire[1].kind = "fullresync" /\ asked /\ step = "psync" /\ step' = "rdb" /\ handshook' = handshook
                 /\ phase' = "decoding")
           \/ (wire[1].kind \in {"continue", "rdb"} /\ step \in {"psync", "rdb"} /\ step' = "loop" /\ handshook'
                 /\ phase' = "decoding")
    BY <1>1 DEF Greet, Synchronise, SkipRDB, ReadReply, Connecting
  <1>5. StageInv'
    BY <1>1, <1>3, <1>4 DEF StageInv, Requests
  <1>6. WireInv' /\ RecInv' /\ ServerInv'
    <2>1. handshook' => \A j \in 1..Len(wire') : wire'[j].kind \in Later \cup {"rest"}
      <3>. SUFFICES ASSUME handshook', NEW j \in 1..Len(wire') PROVE wire'[j].kind \in Later
        OBVIOUS
      <3>1. wire[1].kind \in {"continue", "rdb"}
        BY <1>3, <1>4
      <3>2. 1 \in 1..Len(wire) /\ j + 1 \in 1..Len(wire) /\ 1 < j + 1 /\ wire'[j] = wire[j + 1]
        BY <1>2, <1>t
      <3>. QED BY <1>b, <3>1, <3>2 DEF WireInv
    <2>2. /\ WireInv' /\ RecInv'
          /\ conn' = "open" /\ conn = "open" /\ streaming' = streaming /\ ServerInv =>
              \A i \in 1..Len(wire') :
                wire'[i].kind \in {"fullresync", "continue", "rdb"} \cup CommandKinds => streaming'
      <3>1. 1 \in Nat /\ (garbled => garbled')
        BY <1>1
      <3>2. handshook' => handshook \/ \A j \in 1..Len(wire') : wire'[j].kind \in Later \cup {"rest"}
        BY <2>1
      <3>. QED BY <1>1, <1>2, <3>1, <3>2, ShrinkLemma
    <2>3. conn = "open" /\ (handshook' \/ step' = "rdb") => streaming
      <3>1. handshook' \/ step' = "rdb" => wire[1].kind \in {"fullresync", "continue", "rdb"}
        BY <1>3, <1>4
      <3>2. 1 \in 1..Len(wire)
        BY <1>2, <1>t
      <3>. QED BY <1>b, <3>1, <3>2 DEF ServerInv
    <2>4. ServerInv'
      BY <1>1, <1>b, <2>2, <2>3 DEF ServerInv
    <2>. QED BY <2>2, <2>4
  <1>7. OutInv' /\ LateInv' /\ PlaceInv'
    <2>1. out = Nothing /\ phase' # "yielding"
      BY <1>3, <1>4, <1>b DEF OutInv
    <2>. QED BY <1>1, <1>4, <1>b, <2>1 DEF OutInv, LateInv, PlaceInv, Nothing, EventKinds
  <1>8. ASSUME ~garbled PROVE ExactInv'
    <2>0. RequestInv /\ ReplyInv /\ StreamingInv /\ CommandsInv /\ CountInv
      BY <1>b, <1>8
    <2>a. wire[1].kind # "ping" => ~(owed > 0) /\ ~psync
      BY <1>1, <2>0 DEF RequestInv
    <2>1. CASE Greet
      <3>1. wire[1].kind = "ok" /\ Len(wire) = 1 /\ ~streaming
        BY <1>1, <1>3, <2>0, <2>1 DEF ReplyInv, Greet, ReadReply, Connecting, Granting, Requests
      <3>2. wire' = <<>>
        BY <1>t, <1>1, <3>1
      <3>3. RequestInv' /\ ReplyInv' /\ StreamingInv' /\ CommandsInv' /\ CountInv'
        BY <1>1, <2>a, <3>1, <3>2 DEF RequestInv, ReplyInv, StreamingInv, CommandsInv, CountInv
      <3>. QED BY <1>7, <3>3 DEF ExactInv
    <2>2. CASE Synchronise /\ wire[1].kind = "fullresync"
      <3>1. asked /\ step = "psync" /\ phase = "decoding" /\ phase' = "decoding" /\ step' = "rdb" /\ ~handshook'
        BY <1>1, <1>3, <2>2 DEF Synchronise, ReadReply, Connecting
      <3>2. Prelude = 2
        BY <1>1, <1>3, <2>2 DEF Prelude
      <3>3. wire' # <<>> => Len(wire) > 1 /\ wire'[1] = wire[2] /\ wire'[1].kind \in {"rdb", "ping"}
        <4>1. wire' # <<>> => Len(wire) > 1 /\ wire'[1] = wire[2]
          BY <1>t, <1>1, <1>2
        <4>. QED BY <1>1, <1>3, <2>0, <2>2, <4>1 DEF ReplyInv
      <3>4. wire' # <<>> => Prelude' = 1 /\ (Disturbed' <=> Disturbed)
        BY <1>1, <1>3, <2>2, <3>1, <3>3 DEF Prelude, Disturbed
      <3>5. streaming /\ ~Disturbed => base + position + Len(wire) = executed + 2
        BY <2>0, <3>2 DEF CountInv
      <3>6. streaming => wire' # <<>>
        <4>1. CASE Disturbed
          <5>1. Len(wire) > 1
            BY <2>2, <4>1 DEF Disturbed
          <5>. QED BY <1>2, <1>t, <5>1
        <4>2. CASE ~Disturbed
          <5>1. streaming => Len(wire) >= 2
            BY <1>t, <1>3, <3>5, <4>2
          <5>. QED BY <1>2, <1>t, <5>1
        <4>. QED BY <4>1, <4>2
      <3>7. RequestInv' /\ ReplyInv' /\ StreamingInv'
        BY <1>1, <2>2, <2>a, <3>1, <3>3, <3>6 DEF RequestInv, ReplyInv, StreamingInv
      <3>8. CountInv'
        <4>. SUFFICES ASSUME streaming, ~Disturbed' PROVE base + position + Len(wire') = executed + Prelude'
          BY <1>1 DEF CountInv
        <4>1. Prelude' = 1 /\ ~Disturbed
          BY <3>4, <3>6
        <4>. QED BY <1>t, <1>2, <1>3, <3>5, <4>1
      <3>9. CommandsInv'
        <4>. SUFFICES ASSUME ~Disturbed', NEW j \in 1..Len(wire'), j > Prelude'
             PROVE  /\ wire'[j].kind \in CommandKinds \cup TornKinds
                    /\ wire'[j].kind \in CommandKinds => wire'[j].rec = base + position + j - Prelude'
                    /\ wire'[j].kind \in TornKinds => j = Len(wire') /\ conn # "open"
          <5>1. base' = base /\ position' = position /\ conn' = conn
            BY <1>1
          <5>. QED BY <5>1 DEF CommandsInv
        <4>1. wire' # <<>> /\ Prelude' = 1 /\ ~Disturbed
          BY <1>2, <1>t, <3>4
        <4>2. j + 1 \in 1..Len(wire) /\ j + 1 > 2 /\ wire'[j] = wire[j + 1]
          BY <1>2, <4>1
        <4>. QED BY <1>t, <1>2, <1>3, <2>0, <3>2, <4>1, <4>2 DEF CommandsInv
      <3>. QED BY <1>7, <3>7, <3>8, <3>9 DEF ExactInv
    <2>3. CASE (Synchronise /\ wire[1].kind = "continue") \/ SkipRDB
      <3>1. step' = "loop" /\ handshook' /\ wire[1].kind \in {"continue", "rdb"}
        BY <1>1, <2>3 DEF Synchronise, SkipRDB, ReadReply, Connecting
      <3>2. Prelude = 1 /\ Prelude' = 0 /\ ~Disturbed
        BY <1>1, <1>3, <3>1 DEF Prelude, Disturbed
      <3>3. RequestInv' /\ ReplyInv' /\ StreamingInv'
        BY <1>1, <2>a, <3>1 DEF RequestInv, ReplyInv, StreamingInv
      <3>4. CountInv'
        <4>1. streaming => base + position + Len(wire) = executed + 1
          BY <2>0, <3>2 DEF CountInv
        <4>. QED BY <1>t, <1>1, <1>2, <1>3, <3>2, <4>1 DEF CountInv
      <3>5. CommandsInv'
        <4>. SUFFICES ASSUME NEW j \in 1..Len(wire')
             PROVE  /\ wire'[j].kind \in CommandKinds \cup TornKinds
                    /\ wire'[j].kind \in CommandKinds => wire'[j].rec = base + position + j
                    /\ wire'[j].kind \in TornKinds => j = Len(wire') /\ conn # "open"
          <5>1. base' = base /\ position' = position /\ conn' = conn
            BY <1>1
          <5>2. \A j \in 1..Len(wire') : base + position + j - Prelude' = base + position + j
            BY <1>t, <1>3, <1>2, <3>2
          <5>. QED BY <3>2, <5>1, <5>2 DEF CommandsInv
        <4>1. j + 1 \in 1..Len(wire) /\ j + 1 > 1 /\ wire'[j] = wire[j + 1]
          BY <1>2
        <4>. QED BY <1>t, <1>2, <1>3, <2>0, <3>2, <4>1 DEF CommandsInv
      <3>. QED BY <1>7, <3>3, <3>4, <3>5 DEF ExactInv
    <2>4. Synchronise => wire[1].kind \in {"fullresync", "continue"}
      BY <1>1 DEF Synchronise
    <2>. QED BY <2>1, <2>2, <2>3, <2>4
  <1>. QED BY <1>1, <1>5, <1>6, <1>7, <1>8 DEF StreamInv, BaseInv

(* A command is counted and taken off the connection at once.              *)
LEMMA CommandLemma ==
  ASSUME IInv, SkipCommand \/ DeliverCommand \/ RefuseCommand PROVE StreamInv'
  <1>. USE DEF serverVars, socketVars, decoderVars, contextVars, streamVars
  <1>t. /\ wire \in Seq(Items) /\ Len(wire) \in Nat /\ base \in Nat /\ position \in Nat /\ executed \in Nat
    BY DEF IInv, TypeOK, LiveTypeOK
  <1>b. /\ StageInv /\ ServerInv /\ WireInv /\ RecInv /\ OutInv /\ LateInv
        /\ ~garbled => RequestInv /\ ReplyInv /\ StreamingInv /\ CommandsInv /\ CountInv /\ PlaceInv
    BY DEF IInv, BaseInv, ExactInv
  <1>k. /\ CommandKinds = {"step", "info", "long"} /\ EventKinds = {"step", "info"}
    BY Kinds
  <1>1. /\ phase = "decoding" /\ step = "read" /\ step' = "loop" /\ wire # <<>> /\ wire' = Tail(wire)
        /\ Head(wire) = wire[1] /\ wire[1].kind \in EventKinds /\ position' = position + 1
        /\ UNCHANGED <<executed, base, streaming, owed, psync, conn, asked, handshook, garbled, ctx>>
    BY <1>t DEF SkipCommand, DeliverCommand, RefuseCommand, ParseCommand
  <1>2. /\ Len(wire') = Len(wire) - 1 /\ Len(wire) > 0 /\ 1 \in 1..Len(wire)
        /\ \A j \in 1..Len(wire') : j + 1 \in 1..Len(wire) /\ 1 < j + 1 /\ wire'[j] = wire[j + 1]
    BY <1>t, <1>1
  <1>3. handshook /\ ~asked /\ conn # "none"
    BY <1>1, <1>b DEF StageInv, Requests
  <1>i. \A i \in 1..Len(wire) : wire[i].rec \in Nat
    <2>1. \A i \in 1..Len(wire) : wire[i] \in Items
      BY <1>t
    <2>. QED BY <2>1 DEF Items
  <1>r. base + position < wire[1].rec /\ wire[1].rec <= executed /\ wire[1].rec \in Nat
    BY <1>1, <1>2, <1>b, <1>i, <1>k DEF RecInv
  <1>4. RecInv'
    <2>1. base + (position + 1) <= executed
      BY <1>t, <1>r
    <2>2. ASSUME NEW i \in 1..Len(wire'), wire'[i].kind \in CommandKinds
          PROVE  base + (position + 1) < wire'[i].rec /\ wire'[i].rec <= executed
      <3>1. wire[i + 1].kind \in CommandKinds /\ i + 1 \in 1..Len(wire) /\ 1 < i + 1 /\ wire'[i] = wire[i + 1]
        BY <1>2, <2>2
      <3>2. wire[1].rec < wire[i + 1].rec /\ wire[i + 1].rec <= executed /\ wire[i + 1].rec \in Nat
        BY <1>1, <1>2, <1>b, <1>i, <1>k, <3>1 DEF RecInv
      <3>3. wire'[i].rec = wire[i + 1].rec
        BY <3>1
      <3>. QED BY <1>t, <1>r, <3>2, <3>3
    <2>3. ASSUME NEW i \in 1..Len(wire'), NEW j \in 1..Len(wire'), i < j, wire'[i].kind \in CommandKinds,
                 wire'[j].kind \in CommandKinds
          PROVE  wire'[i].rec < wire'[j].rec
      <3>1. i + 1 < j + 1 /\ i + 1 \in 1..Len(wire) /\ j + 1 \in 1..Len(wire)
            /\ wire'[i] = wire[i + 1] /\ wire'[j] = wire[j + 1]
        BY <1>2, <1>t, <2>3
      <3>. QED BY <1>b, <2>3, <3>1 DEF RecInv
    <2>4. base' = base /\ executed' = executed /\ position' = position + 1
      BY <1>1
    <2>. QED BY <2>1, <2>2, <2>3, <2>4 DEF RecInv
  <1>5. WireInv'
    <2>1. \A i \in 1..Len(wire') : wire'[i].kind # "rest"
      <3>. SUFFICES ASSUME NEW i \in 1..Len(wire'), wire'[i].kind = "rest" PROVE FALSE
        OBVIOUS
      <3>1. i + 1 = 1
        BY <1>2, <1>b DEF WireInv
      <3>. QED BY <1>2, <3>1
    <2>2. \A i, j \in 1..Len(wire') : wire'[j].kind \in Later
      <3>. SUFFICES ASSUME NEW j \in 1..Len(wire') PROVE wire'[j].kind \in Later
        OBVIOUS
      <3>1. wire[j + 1].kind \in Later \cup {"rest"}
        BY <1>2, <1>3, <1>b DEF WireInv
      <3>. QED BY <1>2, <2>1, <3>1
    <2>. QED BY <2>1, <2>2 DEF WireInv
  <1>6. StageInv' /\ ServerInv'
    <2>1. phase' # "closed" /\ phase' \in {"decoding", "yielding"}
      BY <1>1 DEF SkipCommand, DeliverCommand, RefuseCommand, Yield, YieldError
    <2>2. StageInv'
      BY <1>1, <1>3, <2>1 DEF StageInv
    <2>3. ServerInv'
      BY <1>1, <1>3, <1>b DEF ServerInv
    <2>. QED BY <2>2, <2>3
  <1>7. OutInv' /\ (~garbled => PlaceInv')
    <2>1. CASE SkipCommand
      BY <1>1, <1>b, <2>1 DEF OutInv, PlaceInv, SkipCommand, Nothing, EventKinds
    <2>2. CASE DeliverCommand
      <3>1. ~garbled => wire[1].rec = base + position + 1
        <4>. SUFFICES ASSUME ~garbled PROVE wire[1].rec = base + position + 1
          OBVIOUS
        <4>1. Prelude = 0 /\ ~Disturbed
          BY <1>3 DEF Prelude, Disturbed
        <4>2. 1 > Prelude /\ wire[1].kind \in CommandKinds
          BY <1>1, <1>k, <4>1
        <4>3. wire[1].rec = base + position + 1 - Prelude
          BY <1>2, <1>b, <4>1, <4>2 DEF CommandsInv
        <4>. QED BY <1>t, <4>1, <4>3
      <3>2. phase' = "yielding" /\ out' = [kind |-> wire[1].kind, pos |-> position + 1, rec |-> wire[1].rec]
        BY <1>1, <2>2 DEF DeliverCommand, Yield
      <3>3. base + (position + 1) <= wire[1].rec
        BY <1>t, <1>r
      <3>4. out'.kind \in EventKinds /\ out'.pos = position + 1 /\ out'.rec = wire[1].rec
        BY <1>1, <3>2
      <3>5. OutInv'
        BY <1>1, <1>3, <3>2, <3>3, <3>4 DEF OutInv
      <3>6. ~garbled => PlaceInv'
        BY <1>1, <1>t, <3>1, <3>4 DEF PlaceInv
      <3>. QED BY <3>5, <3>6
    <2>3. CASE RefuseCommand
      BY <2>3 DEF OutInv, PlaceInv, RefuseCommand, YieldError, EventKinds
    <2>. QED BY <2>1, <2>2, <2>3
  <1>8. LateInv'
    <2>1. late = 0
      BY <1>1, <1>b DEF LateInv
    <2>. QED BY <1>1, <2>1 DEF LateInv, SkipCommand, DeliverCommand, RefuseCommand
  <1>9. ASSUME ~garbled PROVE ExactInv'
    <2>1. Prelude = 0 /\ Prelude' = 0 /\ ~Disturbed
      BY <1>1, <1>3 DEF Prelude, Disturbed
    <2>2. RequestInv' /\ ReplyInv' /\ StreamingInv'
      BY <1>1, <1>3, <1>b, <1>9 DEF RequestInv, ReplyInv, StreamingInv
    <2>3. CountInv'
      <3>1. streaming => base + position + Len(wire) = executed
        BY <1>b, <1>9, <1>t, <2>1 DEF CountInv
      <3>. QED BY <1>t, <1>1, <1>2, <2>1, <3>1 DEF CountInv
    <2>4. CommandsInv'
      <3>. SUFFICES ASSUME NEW j \in 1..Len(wire')
           PROVE  /\ wire'[j].kind \in CommandKinds \cup TornKinds
                  /\ wire'[j].kind \in CommandKinds => wire'[j].rec = base + (position + 1) + j
                  /\ wire'[j].kind \in TornKinds => j = Len(wire') /\ conn # "open"
        <4>1. base' = base /\ position' = position + 1 /\ conn' = conn
          BY <1>1
        <4>. QED BY <1>t, <1>2, <2>1, <4>1 DEF CommandsInv
      <3>1. j + 1 \in 1..Len(wire) /\ j + 1 > 0 /\ wire'[j] = wire[j + 1]
        BY <1>2
      <3>. QED BY <1>t, <1>2, <1>b, <1>9, <2>1, <3>1 DEF CommandsInv
    <2>. QED BY <1>7, <1>9, <2>2, <2>3, <2>4 DEF ExactInv
  <1>. QED BY <1>1, <1>4, <1>5, <1>6, <1>7, <1>8, <1>9 DEF StreamInv, BaseInv

(* An item that cannot be parsed is consumed in part, the end of the       *)
(* stream takes a torn one with it.                                        *)
LEMMA EndLemma == ASSUME IInv, MisreadCommand \/ EndOfStream PROVE StreamInv'
  <1>. USE DEF serverVars, socketVars, decoderVars, contextVars, streamVars
  <1>t. LiveTypeOK /\ wire \in Seq(Items) /\ Len(wire) \in Nat
    BY DEF IInv, TypeOK, LiveTypeOK
  <1>b. /\ StageInv /\ ServerInv /\ WireInv /\ RecInv /\ OutInv /\ LateInv
        /\ ~garbled => RequestInv /\ ReplyInv /\ StreamingInv /\ CommandsInv /\ CountInv /\ PlaceInv
    BY DEF IInv, BaseInv, ExactInv
  <1>1. /\ phase = "decoding" /\ step = "read"
        /\ \/ phase' = "done" /\ out' = Nothing
           \/ phase' = "yielding" /\ out' = [kind |-> "error", pos |-> 0, rec |-> 0]
        /\ UNCHANGED <<executed, base, streaming, owed, psync, conn, step, asked, handshook, position, ctx, late>>
    <2>1. CASE MisreadCommand
      BY <2>1, <1>b DEF MisreadCommand, Return, YieldError, OutInv
    <2>2. CASE EndOfStream
      BY <2>2, <1>b DEF EndOfStream, Ended, Return, YieldError, OutInv
    <2>. QED BY <2>1, <2>2
  <1>2. handshook /\ ~asked /\ conn # "none" /\ handshook'
    BY <1>1, <1>b DEF StageInv, Requests
  <1>3. (MisreadCommand /\ Misread /\ wire # <<>>) \/ (EndOfStream /\ conn # "open" /\ garbled' = garbled)
    BY DEF MisreadCommand, EndOfStream
  <1>4. /\ garbled => garbled'
        /\ wire' \in Seq(Items)
        /\ \E d \in Nat : \A j \in 1..Len(wire') : \/ j + d \in 1..Len(wire) /\ wire'[j] = wire[j + d]
                                                   \/ j = 1 /\ wire'[j].kind = "rest" /\ garbled'
    <2>1. CASE MisreadCommand
      <3>1. Misread /\ wire # <<>>
        BY <2>1 DEF MisreadCommand
      <3>2. garbled' /\ wire' \in Seq(Items) /\ \E d \in 0..2 : \A j \in 1..Len(wire') :
              \/ j + d \in 1..Len(wire) /\ wire'[j] = wire[j + d]
              \/ j = 1 /\ wire'[j].kind = "rest"
        BY <1>t, <3>1, MisreadLemma
      <3>3. PICK d \in 0..2 : \A j \in 1..Len(wire') :
              \/ j + d \in 1..Len(wire) /\ wire'[j] = wire[j + d]
              \/ j = 1 /\ wire'[j].kind = "rest"
        BY <3>2, Zenon
      <3>4. d \in Nat
        OBVIOUS
      <3>. QED BY <3>2, <3>3, <3>4, Zenon
    <2>2. CASE EndOfStream /\ wire' = wire
      <3>1. \A j \in 1..Len(wire') : j + 0 \in 1..Len(wire) /\ wire'[j] = wire[j + 0]
        BY <1>t, <2>2
      <3>. QED BY <1>t, <2>2, <3>1 DEF EndOfStream
    <2>3. CASE EndOfStream /\ wire # <<>> /\ wire' = Tail(wire)
      <3>1. wire' \in Seq(Items) /\ \A j \in 1..Len(wire') : j + 1 \in 1..Len(wire) /\ wire'[j] = wire[j + 1]
        BY <1>t, <2>3
      <3>. QED BY <2>3, <3>1 DEF EndOfStream
    <2>. QED BY <1>3, <2>1, <2>2, <2>3 DEF EndOfStream
  <1>5. PICK d \in Nat : \A j \in 1..Len(wire') : \/ j + d \in 1..Len(wire) /\ wire'[j] = wire[j + d]
                                                  \/ j = 1 /\ wire'[j].kind = "rest" /\ garbled'
    BY <1>4
  <1>6. /\ WireInv' /\ RecInv'
        /\ conn' = "open" /\ conn = "open" /\ streaming' = streaming /\ ServerInv =>
             \A i \in 1..Len(wire') :
               wire'[i].kind \in {"fullresync", "continue", "rdb"} \cup CommandKinds => streaming'
    BY <1>1, <1>2, <1>4, <1>5, ShrinkLemma
  <1>7. StageInv' /\ ServerInv'
    <2>1. StageInv'
      BY <1>1, <1>2 DEF StageInv
    <2>2. ServerInv'
      BY <1>1, <1>2, <1>6, <1>b DEF ServerInv
    <2>. QED BY <2>1, <2>2
  <1>8. OutInv' /\ LateInv' /\ PlaceInv'
    BY <1>1, <1>b DEF OutInv, LateInv, PlaceInv, Nothing, EventKinds
  <1>9. ASSUME ~garbled' PROVE ExactInv'
    <2>1. EndOfStream /\ conn # "open" /\ ~garbled
      BY <1>3, <1>9 DEF Misread
    <2>2. RequestInv /\ CommandsInv /\ Prelude = 0 /\ ~Disturbed /\ ~streaming
      BY <1>2, <1>b, <2>1 DEF ServerInv, Prelude, Disturbed
    <2>3. wire' = <<>>
      <3>1. CASE wire = <<>>
        BY <2>1, <3>1 DEF EndOfStream
      <3>2. CASE wire # <<>>
        <4>1. wire' = Tail(wire) /\ Head(wire) = wire[1] /\ wire[1].kind \in TornKinds \cup {"rest"}
          BY <1>t, <2>1, <3>2 DEF EndOfStream, TornKinds
        <4>2. 1 \in 1..Len(wire) /\ 1 > Prelude
          BY <1>t, <2>2, <3>2
        <4>3. wire[1].kind \in TornKinds
          BY <1>b, <2>1, <4>1, <4>2 DEF WireInv
        <4>4. Len(wire) = 1
          BY <2>2, <4>2, <4>3 DEF CommandsInv
        <4>. QED BY <1>t, <4>1, <4>4
      <3>. QED BY <3>1, <3>2
    <2>4. RequestInv' /\ ReplyInv' /\ StreamingInv' /\ CommandsInv' /\ CountInv'
      BY <1>1, <1>2, <2>2, <2>3 DEF RequestInv, ReplyInv, StreamingInv, CommandsInv, CountInv
    <2>. QED BY <1>8, <2>4 DEF ExactInv
  <1>. QED BY <1>6, <1>7, <1>8, <1>9 DEF StreamInv, BaseInv

LEMMA NextLemma == IInv /\ [Next]_vars => IInv'
  <1>1. ASSUME IInv, Next PROVE IInv'
    <2>1. TypeOK'
      BY <1>1, TypeLemma DEF IInv
    <2>2. StreamInv'
      <3>1. CASE Open
        BY <1>1, <3>1, DialLemma
      <3>2. CASE Server
        <4>1. ASSUME NEW k \in Sent, Execute(k) PROVE StreamInv'
          BY <1>1, <4>1, ExecuteLemma
        <4>2. ASSUME NEW k \in {"ok", "error"}, Answer(k) PROVE StreamInv'
          BY <1>1, <4>2, ReplyLemma
        <4>3. CASE RefuseSync \/ KeepAlive
          BY <1>1, <4>3, ReplyLemma
        <4>4. ASSUME NEW k \in {"fullresync", "continue"}, GrantSync(k) PROVE StreamInv'
          BY <1>1, <4>4, GrantLemma
        <4>5. ASSUME NEW torn \in TornKinds \cup {"no"}, Drop(torn) PROVE StreamInv'
          BY <1>1, <4>5, DropLemma
        <4>. QED BY <3>2, <4>1, <4>2, <4>3, <4>4, <4>5 DEF Server
      <3>3. CASE Watchers \/ OwnerClose \/ Cancel \/ RangeOver
        BY <1>1, <3>3, ClosedLemma, QuietLemma DEF Watchers
      <3>4. CASE Goroutine
        BY <1>1, <3>4, QuietLemma, GiveUpLemma, ReadLemma, CommandLemma, EndLemma DEF Goroutine, Handshake, Replicate
      <3>. QED BY <1>1, <3>1, <3>2, <3>3, <3>4 DEF Next
    <2>. QED BY <2>1, <2>2 DEF IInv, StreamInv
  <1>2. ASSUME IInv, UNCHANGED vars PROVE IInv'
    <2>. USE <1>2 DEF vars, serverVars, socketVars, decoderVars, contextVars, streamVars
    <2>1. TypeOK'
      BY DEF IInv, TypeOK, LiveTypeOK, StreamTypeOK
    <2>2. BaseInv'
      BY DEF IInv, BaseInv, StageInv, ServerInv, WireInv, RecInv, OutInv, LateInv
    <2>3. ASSUME ~garbled PROVE ExactInv'
      BY <2>3 DEF IInv, ExactInv, RequestInv, ReplyInv, StreamingInv, CommandsInv, CountInv, PlaceInv, Prelude, Disturbed
    <2>. QED BY <2>1, <2>2, <2>3 DEF IInv
  <1>. QED BY <1>1, <1>2

(* The inductive invariant holds in every reachable state.                 *)
THEOREM Invariance == Spec => []IInv
  BY InitLemma, NextLemma, PTL DEF Spec

(* Every field keeps its type, and the snapshot never holds more than what *)
(* the server executed.                                                    *)
THEOREM TypeCorrect == Spec => []TypeOK
  <1>1. IInv => TypeOK
    BY DEF IInv
  <1>. QED BY <1>1, Invariance, PTL

(* After any number of failed handshakes, a decoder that reads commands    *)
(* has nothing but commands before it, or, once it met something it could  *)
(* not parse, late replies and what is left of that (skipRDB, d.handshook, *)
(* ErrInvalidRESP).                                                        *)
THEOREM InSyncHolds == Spec => []InSync
  <1>1. IInv => InSync
    <2>. SUFFICES ASSUME IInv, step \in {"loop", "read"}, NEW i \in 1..Len(wire)
         PROVE  wire[i].kind \in CommandKinds \cup TornKinds \cup (IF garbled THEN {"ok", "rest"} ELSE {})
      BY DEF InSync
    <2>1. handshook
      BY DEF IInv, BaseInv, StageInv
    <2>2. CASE garbled
      BY <2>1, <2>2 DEF IInv, BaseInv, WireInv, Later
    <2>3. CASE ~garbled
      <3>1. Prelude = 0 /\ ~Disturbed /\ i > Prelude
        BY <2>1 DEF Prelude, Disturbed
      <3>. QED BY <2>3, <3>1 DEF IInv, ExactInv, CommandsInv
    <2>. QED BY <2>2, <2>3
  <1>. QED BY <1>1, Invariance, PTL

(* No command is lost between two loops over one decoder, until something  *)
(* on its connection cannot be parsed.                                     *)
THEOREM StreamConservedHolds == Spec => []StreamConserved
  <1>1. IInv => StreamConserved
    <2>. SUFFICES ASSUME IInv, conn = "open", handshook, ~garbled PROVE base + position + Len(wire) = executed
      BY DEF StreamConserved
    <2>1. streaming /\ Prelude = 0 /\ ~Disturbed /\ executed \in Nat
      BY DEF IInv, BaseInv, ServerInv, Prelude, Disturbed, TypeOK, LiveTypeOK
    <2>. QED BY <2>1 DEF IInv, ExactInv, CountInv
  <1>. QED BY <1>1, Invariance, PTL

(* The position of an event is its place in the replication stream; behind *)
(* a command the decoder could not parse it never runs ahead of it.        *)
THEOREM PositionCountsStreamHolds == Spec => []PositionCountsStream
  <1>1. IInv => PositionCountsStream
    BY DEF IInv, BaseInv, ExactInv, OutInv, PlaceInv, PositionCountsStream
  <1>. QED BY <1>1, Invariance, PTL

(* A cancelled context lets at most the event through that is being read.  *)
THEOREM OneEventAfterCancelHolds == Spec => []OneEventAfterCancel
  <1>1. IInv => OneEventAfterCancel
    BY DEF IInv, BaseInv, LateInv, OneEventAfterCancel
  <1>. QED BY <1>1, Invariance, PTL

==================================================================================
