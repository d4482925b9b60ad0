------------------------------ MODULE EventStream ------------------------------
(***************************************************************************)
(* The iter.Seq2[Event, error] that Decoder.Events() returns, as the       *)
(* decoder and the loop ranging over it share it.  A yield is a call: the  *)
(* decoder stands still while the loop body runs and goes on when the body *)
(* ends (true) or returns when the body broke out of the loop (false).     *)
(***************************************************************************)
EXTENDS Naturals

VARIABLES
  phase,   \* where the decoder stands
  out      \* the pair handed to yield while phase is "yielding"

streamVars == <<phase, out>>

(* "closed"    no decoder is open                                          *)
(* "open"      a decoder is open and no loop ranges over it                *)
(* "decoding"  Events() runs                                               *)
(* "yielding"  Events() is inside yield and the loop body runs             *)
(* "done"      Events() returned: the loop ended by itself                 *)
Phases == {"closed", "open", "decoding", "yielding", "done"}

(* A "step" is an event whose Reverse() returns an operation, an "info"    *)
(* one without.  pos is the position the event carries, rec the record of  *)
(* the log it was decoded from, which the code does not keep.              *)
EventKinds == {"step", "info"}

Outputs ==
  [kind : EventKinds \cup {"none", "error"}, pos : Nat, rec : Nat]

Nothing == [kind |-> "none", pos |-> 0, rec |-> 0]

Yield(kind, pos, rec) ==
  /\ phase' = "yielding"
  /\ out' = [kind |-> kind, pos |-> pos, rec |-> rec]

YieldError ==
  /\ phase' = "yielding"
  /\ out' = [kind |-> "error", pos |-> 0, rec |-> 0]

Return ==
  /\ phase' = "done"
  /\ UNCHANGED out

(* The loop body ends: the decoder goes on.                                *)
Continue ==
  /\ phase = "yielding"
  /\ out.kind \in EventKinds
  /\ phase' = "decoding"
  /\ out' = Nothing

(* The loop body breaks: yield returns false and so does the decoder.      *)
BreakOut ==
  /\ phase = "yielding"
  /\ out.kind \in EventKinds
  /\ phase' = "open"
  /\ out' = Nothing

StreamTypeOK ==
  /\ phase \in Phases
  /\ out \in Outputs

================================================================================
