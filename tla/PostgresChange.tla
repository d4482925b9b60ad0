------------------------------ MODULE PostgresChange ------------------------------
(***************************************************************************)
(* The compensating SQL of postgres/decode/events/types, and the tables    *)
(* whose changes it undoes.                                                *)
(***************************************************************************)
EXTENDS RowTable

(* Settings of REPLICA IDENTITY.                                           *)
Identities == {"full", "default"}

(* test_decoding prints of an old row what the identity covers, without    *)
(* the columns that are NULL.                                              *)
OldImage(rows, identity) ==
  {IF identity = "full" /\ r.val # Null THEN r ELSE KeyOnly(r) : r \in rows}

KeyChanged(c) == KeysOf(c.old) # KeysOf(c.new)

(* The line of a change as parseChange reads it: an update has an old-key  *)
(* section when the whole row is the identity or the identity changed.     *)
Change(c, identity) ==
  CASE Operation(c) = "insert" ->
         [operation |-> "insert", columns |-> c.new, oldKey |-> {}, newTuple |-> {}]
    [] Operation(c) = "delete" ->
         [operation |-> "delete", columns |-> OldImage(c.old, identity), oldKey |-> {}, newTuple |-> {}]
    [] Operation(c) = "update" ->
         IF identity = "full" \/ KeyChanged(c)
         THEN [operation |-> "update", columns |-> c.new,
               oldKey |-> OldImage(c.old, identity), newTuple |-> c.new]
         ELSE [operation |-> "update", columns |-> c.new, oldKey |-> {}, newTuple |-> {}]

(* coversColumns                                                           *)
CoversColumns(oldKey, newTuple) ==
  \A old \in oldKey, new \in newTuple, c \in Columns : new[c] # Skipped => old[c] # Skipped

SQL(verb, values, where) == [verb |-> verb, values |-> values, where |-> where]

(* A plausible mistake in ReverseChange: WHERE names the old row.          *)
ReverseChangeOldWhere(change) ==
  CASE change.operation = "insert" -> {SQL("delete", {}, change.columns)}
    [] change.operation = "update" ->
         IF change.oldKey = {} \/ change.newTuple = {} \/ ~CoversColumns(change.oldKey, change.newTuple)
         THEN {}
         ELSE {SQL("update", change.oldKey, change.oldKey)}
    [] change.operation = "delete" -> {SQL("insert", change.columns, {})}

(* Event.Reverse with deleteSQL, updateSQL and insertSQL.                  *)
ReverseChange(change) ==
  CASE change.operation = "insert" -> {SQL("delete", {}, change.columns)}
    [] change.operation = "update" ->
         IF change.oldKey = {} \/ change.newTuple = {} \/ ~CoversColumns(change.oldKey, change.newTuple)
         THEN {}
         ELSE {SQL("update", change.oldKey, change.newTuple)}
    [] change.operation = "delete" -> {SQL("insert", change.columns, {})}

(* whereSQL: every column that is there has to be equal.                   *)
Matches(where, t) ==
  {r \in t : \A w \in where, c \in Columns : w[c] # Skipped => r[c] = w[c]}

(* A column that is not set keeps its value, or is NULL in a new row.      *)
Assigned(values, r) ==
  {[c \in Columns |-> IF v[c] = Skipped THEN r[c] ELSE v[c]] : v \in values}

NewRow(values) ==
  {[key |-> v.key, val |-> IF v.val = Skipped THEN Null ELSE v.val] : v \in values}

(* The server executes a statement of the plan: no table when it refuses.  *)
ExecuteSQL(sql, t) ==
  LET old == Matches(sql.where, t)
      new == CASE sql.verb = "insert" -> NewRow(sql.values)
               [] sql.verb = "delete" -> {}
               [] sql.verb = "update" -> UNION {Assigned(sql.values, r) : r \in old}
  IN  IF sql.verb = "insert"
      THEN {u \in {t \cup new} : KeysOf(new) \cap KeysOf(t) = {}}
      ELSE {u \in {(t \ old) \cup new} : KeysOf(new) \cap KeysOf(t \ old) = {}}

PostgresWrites(t, identity) ==
  {[ event  |-> Change(c, identity),
     after  |-> (t \ c.old) \cup c.new,
     keys   |-> KeysOf(c.old \cup c.new),
     unsafe |-> c.new = {} /\ Lossy(OldImage(c.old, identity), c.old) ]
   : c \in {d \in Changes : Fits(d, t)}}

==================================================================================
