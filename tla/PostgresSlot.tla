------------------------------- MODULE PostgresSlot -------------------------------
(***************************************************************************)
(* A PostgreSQL logical replication slot, as far as the two live decoders  *)
(* of postgres/decode/decoder rely on it.  PostgresPoll reads the slot     *)
(* with SQL queries, PostgresWire over the replication protocol.           *)
(***************************************************************************)
EXTENDS LiveDecoder

CONSTANTS
  MaxWal,      \* bound on the lines the slot decodes
  MaxFlight    \* bound on the messages on their way to the wire decoder

VARIABLES
  wal,         \* the lines of the committed transactions, in commit order
  confirmed    \* the line up to which the slot was consumed

slotVars == <<reader, wal, confirmed>>

(* BEGIN and COMMIT are events without a reverse; a change has one, or its *)
(* line is blank or does not parse.                                        *)
Changes == {"step", "blank", "bad"}
Lines   == Changes \cup {"begin", "commit"}

EventOf(line) == IF line = "step" THEN "step" ELSE "info"

SlotInit ==
  /\ wal = <<>>
  /\ confirmed = 0

(* A transaction commits; its lines are decoded at once.                   *)
Commit(changes) ==
  /\ Len(wal) + Len(changes) + 2 <= MaxWal
  /\ wal' = wal \o <<"begin">> \o changes \o <<"commit">>
  /\ UNCHANGED <<reader, confirmed, cursorVars, streamVars>>

(* A slot goes on with whole transactions: with the first one that was not *)
(* confirmed up to its end.                                                *)
ResumePoint ==
  Max({0} \cup {i \in 1..confirmed : wal[i] = "commit"})

SlotTypeOK ==
  /\ wal \in Seq(Lines)
  /\ confirmed \in 0..Len(wal)

================================================================================
