--------------------------------- MODULE MySQLRows --------------------------------
(***************************************************************************)
(* The compensating rows events of mysql/decode/events/types, and the      *)
(* tables whose changes they undo.                                         *)
(***************************************************************************)
EXTENDS RowTable

CONSTANT MaxRows   \* bound on the rows of a statement

ASSUME MaxRowsAssumption == MaxRows \in Nat

(* Settings of binlog_row_image.                                           *)
RowImages == {"full", "minimal"}

(* What a minimal image keeps of a row after its update: what has changed. *)
ChangedOnly(r, before) ==
  [ key |-> IF r.key = before.key THEN Skipped ELSE r.key,
    val |-> IF r.val = before.val THEN Skipped ELSE r.val ]

The(S) == CHOOSE x \in S : TRUE

(* Statements of one operation on several rows, each once, in the order    *)
(* the server changes them.                                                *)
Statements(t) ==
  {cs \in UNION {[1..n -> Changes] : n \in 1..MaxRows} :
     /\ \A i \in DOMAIN cs : cs[i].old \subseteq t /\ Operation(cs[i]) = Operation(cs[1])
     /\ Outcome(cs, t) # {}}

EmptyEvent == [type |-> "write", rows |-> <<>>, before |-> <<>>, after |-> <<>>, error |-> FALSE]

(* The rows event of a statement as BinRowsEvent holds it.                 *)
RowsEvent(cs, images) ==
  LET old == [i \in DOMAIN cs |-> IF images = "full" THEN The(cs[i].old) ELSE KeyOnly(The(cs[i].old))]
      new == [i \in DOMAIN cs |-> IF images = "full" \/ cs[i].old = {}
                                  THEN The(cs[i].new)
                                  ELSE ChangedOnly(The(cs[i].new), The(cs[i].old))]
  IN  CASE Operation(cs[1]) = "insert" -> [EmptyEvent EXCEPT !.rows = new]
        [] Operation(cs[1]) = "delete" -> [EmptyEvent EXCEPT !.type = "delete", !.rows = old]
        [] OTHER -> [EmptyEvent EXCEPT !.type = "update", !.before = old, !.after = new]

(* An event whose table map is missing, with its rows undecoded.           *)
Undecoded(event) == [EmptyEvent EXCEPT !.type = event.type, !.error = TRUE]

(* completeRows                                                            *)
CompleteRows(rows) == \A i \in DOMAIN rows : \A c \in Columns : rows[i][c] # Skipped

(* A plausible mistake in ReverseRows: incomplete images are let through.  *)
ReverseRowsUnchecked(type, rows, before, after) ==
  IF <<rows, before, after>> = << <<>>, <<>>, <<>> >>
  THEN {}
  ELSE {[type |-> type, rows |-> rows, before |-> before, after |-> after, error |-> FALSE]}

(* reverseRows: an operation, or none.                                     *)
ReverseRows(type, rows, before, after) ==
  IF \/ <<rows, before, after>> = << <<>>, <<>>, <<>> >>
     \/ ~(CompleteRows(rows) /\ CompleteRows(before) /\ CompleteRows(after))
  THEN {}
  ELSE {[type |-> type, rows |-> rows, before |-> before, after |-> after, error |-> FALSE]}

(* A plausible mistake in ReverseEvent: the images of an update stay where *)
(* they are.                                                               *)
ReverseEventUnswapped(e) ==
  IF e.error THEN {} ELSE
  CASE e.type = "write"  -> ReverseRows("delete", e.rows, <<>>, <<>>)
    [] e.type = "delete" -> ReverseRows("write", e.rows, <<>>, <<>>)
    [] e.type = "update" -> ReverseRows("update", <<>>, e.before, e.after)

(* BinRowsEvent.Reverse.  The rows of an event keep their order.           *)
ReverseEvent(e) ==
  IF e.error THEN {} ELSE
  CASE e.type = "write"  -> ReverseRows("delete", e.rows, <<>>, <<>>)
    [] e.type = "delete" -> ReverseRows("write", e.rows, <<>>, <<>>)
    [] e.type = "update" -> IF e.before = <<>> \/ Len(e.before) # Len(e.after)
                            THEN {}
                            ELSE ReverseRows("update", <<>>, e.after, e.before)

(* Applying a rows event, in its order and as a whole.                     *)
ReplayRows(e, t) ==
  LET changes ==
        CASE e.type = "write"  -> [i \in DOMAIN e.rows |-> [old |-> {}, new |-> {e.rows[i]}]]
          [] e.type = "delete" -> [i \in DOMAIN e.rows |-> [old |-> {e.rows[i]}, new |-> {}]]
          [] OTHER -> [i \in DOMAIN e.before |-> [old |-> {e.before[i]}, new |-> {e.after[i]}]]
  IN  Outcome(changes, t)

(* One row of the statement moved to the key another had left: backwards,  *)
(* the first to go back finds its key taken.                               *)
HandsOver(cs) ==
  \E i, j \in DOMAIN cs : i < j /\ KeysOf(cs[i].old) \cap KeysOf(cs[j].new) # {}

(* What a log may hold of a table in state t.                              *)
MySQLWrites(t, images) ==
  UNION {{[ event  |-> event,
            after  |-> The(Outcome(cs, t)),
            keys   |-> UNION {KeysOf(cs[i].old \cup cs[i].new) : i \in DOMAIN cs},
            unsafe |-> HandsOver(cs) ]
          : event \in {RowsEvent(cs, images), Undecoded(RowsEvent(cs, images))}}
         : cs \in Statements(t)}

==================================================================================
