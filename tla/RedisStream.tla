------------------------------- MODULE RedisStream -------------------------------
(***************************************************************************)
(* One LiveDecoder of redis/decode/decoder under a caller that ranges over *)
(* Events() several times, breaks out of some loops, cancels the context   *)
(* and closes the decoder whenever it likes.                               *)
(***************************************************************************)
EXTENDS RedisLive

CONSTANT Checkpoints   \* the start positions a decoder is opened with

ASSUME CheckpointsAssumption == Checkpoints \subseteq Nat

vars == <<serverVars, socketVars, decoderVars, contextVars, streamVars>>

Init ==
  /\ LiveInit
  /\ phase = "closed"
  /\ out = Nothing

Open == \E c \in Checkpoints : Dial(c)

RangeOver ==
  /\ phase \in {"open", "done"}
  /\ phase' = "decoding"
  /\ EnterEvents
  /\ UNCHANGED out

(* The body of the loop ends, or breaks; after an error Events() returns.  *)
Body ==
  /\ \/ Continue
     \/ BreakOut
     \/ out.kind = "error" /\ phase = "yielding" /\ phase' = "done" /\ out' = Nothing
  /\ UNCHANGED <<serverVars, socketVars, decoderVars, contextVars>>

Goroutine == Handshake \/ Replicate \/ Body

Next == Open \/ RangeOver \/ Goroutine \/ Watchers \/ Server \/ Cancel \/ OwnerClose

(* Goroutines run and loop bodies end; neither the server nor the owner    *)
(* need ever do anything.                                                  *)
Spec == Init /\ [][Next]_vars /\ WF_vars(Goroutine) /\ WF_vars(Watchers)

--------------------------------------------------------------------------------

TypeOK == LiveTypeOK /\ StreamTypeOK

(* Whatever handshakes failed before, a decoder that reads commands has no *)
(* reply to PSYNC and no byte of the snapshot before it, and nothing but   *)
(* commands unless it met something it could not parse: then late replies, *)
(* and what is left of that, may stand among them (handshake, skipRDB,     *)
(* d.handshook).                                                           *)
InSync ==
  step \in {"loop", "read"} =>
    \A i \in 1..Len(wire) :
      wire[i].kind \in CommandKinds \cup TornKinds
                       \cup (IF garbled THEN {"ok", "rest"} ELSE {})

(* Nothing is lost between two loops over one decoder: the commands of the *)
(* snapshot, those counted and those still to be read are all there are,   *)
(* until something on the connection cannot be parsed.                     *)
StreamConserved ==
  conn = "open" /\ handshook /\ ~garbled => base + position + Len(wire) = executed

(* The position of an event is its place in the replication stream, over   *)
(* every loop of the connection (d.position is a field of the decoder).    *)
(* A command the decoder cannot parse is not counted: from there on the    *)
(* position may lag behind the stream, and it never runs ahead of it.      *)
PositionCountsStream ==
  out.kind \in EventKinds =>
    IF garbled THEN base + out.pos <= out.rec ELSE base + out.pos = out.rec

(* Cancelling the context while a command is being read or handed over     *)
(* lets at most that one event through.                                    *)
OneEventAfterCancel == late <= 1

(* Cancelling the context ends a loop wherever it stands, also one that is *)
(* blocked on a silent server: the watcher closes the connection under it. *)
CancelEndsLoop == ctx = "cancelled" ~> ~Running

(* No watcher outlives its call of Events() for good, whichever way the    *)
(* call ended (defer close(done)).                                         *)
WatchersExit ==
  \A k \in 1..MaxLoops : (k \in watchers /\ Returned(k)) ~> k \notin watchers

================================================================================
