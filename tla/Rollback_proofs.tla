----------------------------- MODULE Rollback_proofs -----------------------------
(***************************************************************************)
(* Proofs about Rollback for windows of any length over MySQL and          *)
(* PostgreSQL tables, MongoDB collections and Redis keys, with statements  *)
(* of any number of rows and any keys, values and crashes.                 *)
(***************************************************************************)
EXTENDS Rollback, FiniteSetTheorems, SequenceTheorems, WellFoundedInduction, TLAPS

----------------------------------------------------------------------------------
(* Changes of a table.                                                     *)

RowsAt(t, k) == {r \in t : r.key = k}

(* A change inserts, deletes or updates one row.                           *)
LEMMA ChangeShape ==
  ASSUME NEW c \in Changes
  PROVE  \/ \E n \in Rows : c.old = {} /\ c.new = {n} /\ Operation(c) = "insert"
         \/ \E o \in Rows : c.old = {o} /\ c.new = {} /\ Operation(c) = "delete"
         \/ \E o, n \in Rows : o # n /\ c.old = {o} /\ c.new = {n} /\ Operation(c) = "update"
  BY DEF Changes, Optional, Operation

(* A row is its key and its value, none of them Skipped.                   *)
LEMMA RowShape ==
  /\ \A r \in Rows : r.key \in Keys /\ r.val \in Values /\ r.key # Skipped /\ r.val # Skipped
  /\ \A r, s \in Rows : r.key = s.key /\ r.val = s.val => r = s
  /\ \A k \in Keys, v \in Values : [key |-> k, val |-> v] \in Rows
  BY SkippedAssumption DEF Rows

(* The rows of a table have different keys.                                *)
LEMMA TableShape ==
  ASSUME NEW t \in Tables
  PROVE  /\ t \subseteq Rows
         /\ \A r, s \in t : r.key = s.key => r = s
  BY DEF Tables

(* Rows leave a table, and at most one comes whose key is then free.       *)
LEMMA UnionLemma ==
  ASSUME NEW t \in Tables, NEW old, NEW new \in SUBSET Rows, \A r, q \in new : r = q,
         KeysOf(new) \cap KeysOf(t \ old) = {}
  PROVE  t \ old \in Tables /\ (t \ old) \cup new \in Tables
  <1>1. \A r \in new, q \in t \ old : r.key # q.key
    BY DEF KeysOf
  <1>2. t \ old \in Tables
    BY DEF Tables
  <1>3. (t \ old) \cup new \in SUBSET Rows
    BY TableShape
  <1>4. \A r, q \in (t \ old) \cup new : r.key = q.key => r = q
    BY <1>1, TableShape
  <1>. QED BY <1>2, <1>3, <1>4 DEF Tables

(* A change that fits leaves a table, and the keys it does not name alone. *)
LEMMA ChangeLemma ==
  ASSUME NEW t \in Tables, NEW c \in Changes, Fits(c, t)
  PROVE  /\ (t \ c.old) \cup c.new \in Tables
         /\ KeysOf(c.old \cup c.new) \subseteq Keys
         /\ \A k : k \notin KeysOf(c.old \cup c.new) => RowsAt((t \ c.old) \cup c.new, k) = RowsAt(t, k)
  <1>0. c.old \subseteq t /\ KeysOf(c.new) \cap KeysOf(t \ c.old) = {} /\ c.old \subseteq Rows /\ c.new \subseteq Rows
        /\ \A r, s \in c.new : r = s
    BY ChangeShape DEF Fits
  <1>1. (t \ c.old) \cup c.new \in Tables
    BY <1>0, UnionLemma
  <1>2. KeysOf(c.old \cup c.new) \subseteq Keys
    BY <1>0, RowShape DEF KeysOf
  <1>3. \A k : k \notin KeysOf(c.old \cup c.new) => RowsAt((t \ c.old) \cup c.new, k) = RowsAt(t, k)
    BY DEF KeysOf, RowsAt
  <1>. QED BY <1>1, <1>2, <1>3

(* The opposite of a change, on any table that agrees with one of the two  *)
(* it led between on the keys of the change.                               *)
Opposite(c, s) ==
  IF c.new \subseteq s
  THEN {u \in {(s \ c.new) \cup c.old} : KeysOf(c.old) \cap KeysOf(s \ c.new) = {}}
  ELSE {s}

(* It undoes the change, and does nothing where it was undone already.     *)
LEMMA OppositeLemma ==
  ASSUME NEW t \in Tables, NEW c \in Changes, Fits(c, t), NEW s \in Tables
  PROVE  LET after == (t \ c.old) \cup c.new
             keys  == KeysOf(c.old \cup c.new)
         IN  /\ \A u \in Opposite(c, s) : u \in Tables /\ \A k : k \notin keys => RowsAt(u, k) = RowsAt(s, k)
             /\ (\A k \in keys : RowsAt(s, k) = RowsAt(after, k)) =>
                  /\ Opposite(c, s) # {}
                  /\ \A u \in Opposite(c, s), k \in keys : RowsAt(u, k) = RowsAt(t, k)
             /\ (\A k \in keys : RowsAt(s, k) = RowsAt(t, k)) =>
                  \A u \in Opposite(c, s), k \in keys : RowsAt(u, k) = RowsAt(t, k)
  <1>. DEFINE after == (t \ c.old) \cup c.new
              keys  == KeysOf(c.old \cup c.new)
  <1>0. /\ c.old \subseteq t /\ KeysOf(c.new) \cap KeysOf(t \ c.old) = {} /\ c.old \subseteq Rows /\ c.new \subseteq Rows
        /\ (\A r, q \in c.new : r = q) /\ (\A r, q \in c.old : r = q) /\ c.old \cap c.new = {}
        /\ c.old = {} \/ c.new = {} \/ (c.old # {} /\ c.new # {})
    BY ChangeShape DEF Fits
  <1>k. \A r : r \in c.old \cup c.new => r.key \in keys
    BY DEF KeysOf
  <1>a. \A r \in c.new : r \notin t /\ \A q \in t : q.key = r.key => q \in c.old
    BY <1>0 DEF KeysOf
  <1>1. ASSUME NEW u \in Opposite(c, s)
        PROVE  u \in Tables /\ \A k : k \notin keys => RowsAt(u, k) = RowsAt(s, k)
    <2>1. CASE c.new \subseteq s
      <3>1. u = (s \ c.new) \cup c.old /\ KeysOf(c.old) \cap KeysOf(s \ c.new) = {}
        BY <1>1, <2>1 DEF Opposite
      <3>2. s \ c.new \in Tables
        BY DEF Tables
      <3>3. u \in Tables
        <4>1. KeysOf(c.old) \cap KeysOf((s \ c.new) \ {}) = {}
          BY <3>1
        <4>2. ((s \ c.new) \ {}) \cup c.old = u
          BY <3>1
        <4>. QED BY <1>0, <3>2, <4>1, <4>2, UnionLemma
      <3>. QED BY <3>1, <3>3, <1>k DEF RowsAt
    <2>2. CASE ~(c.new \subseteq s)
      BY <1>1, <2>2 DEF Opposite
    <2>. QED BY <2>1, <2>2
  <1>2. ASSUME \A k \in keys : RowsAt(s, k) = RowsAt(after, k)
        PROVE  /\ Opposite(c, s) # {}
               /\ \A u \in Opposite(c, s), k \in keys : RowsAt(u, k) = RowsAt(t, k)
    <2>0. \A r : r.key \in keys => (r \in s <=> r \in after)
      BY <1>2 DEF RowsAt
    <2>1. c.new \subseteq s
      BY <1>k, <2>0
    <2>2. KeysOf(c.old) \cap KeysOf(s \ c.new) = {}
      <3>. SUFFICES ASSUME NEW o \in c.old, NEW r \in s \ c.new, r.key = o.key PROVE FALSE
        BY DEF KeysOf
      <3>1. r \in t \ c.old
        BY <1>k, <2>0
      <3>. QED BY <1>0, <3>1, TableShape
    <2>3. Opposite(c, s) = {(s \ c.new) \cup c.old}
      BY <2>1, <2>2 DEF Opposite
    <2>4. ASSUME NEW k \in keys PROVE RowsAt((s \ c.new) \cup c.old, k) = RowsAt(t, k)
      <3>1. \A r : r.key = k => (r \in (s \ c.new) \cup c.old <=> r \in t)
        BY <1>0, <1>a, <2>0
      <3>. QED BY <3>1 DEF RowsAt
    <2>. QED BY <2>3, <2>4
  <1>3. ASSUME \A k \in keys : RowsAt(s, k) = RowsAt(t, k), NEW u \in Opposite(c, s), NEW k \in keys
        PROVE  RowsAt(u, k) = RowsAt(t, k)
    <2>0. \A r : r.key \in keys => (r \in s <=> r \in t)
      BY <1>3 DEF RowsAt
    <2>1. CASE c.new # {}
      <3>1. ~(c.new \subseteq s)
        BY <1>k, <1>a, <2>0, <2>1
      <3>. QED BY <1>3, <3>1 DEF Opposite
    <2>2. CASE c.new = {}
      <3>1. c.old \subseteq s
        BY <1>0, <1>k, <2>0
      <3>2. u = s
        BY <1>3, <2>2, <3>1 DEF Opposite
      <3>. QED BY <1>3, <3>2
    <2>. QED BY <2>1, <2>2
  <1>. QED BY <1>1, <1>2, <1>3

----------------------------------------------------------------------------------
(* The SQL of a reversed change.                                           *)

(* An insert finds the key of its row free.                                *)
Opened(s, x) == {u \in {s \cup {x}} : KeysOf({x}) \cap KeysOf(s) = {}}

(* WHERE with every column of a row finds that row or none.                *)
LEMMA MatchLemma ==
  ASSUME NEW n \in Rows, NEW s \in Tables
  PROVE  Matches({n}, s) = IF n \in s THEN {n} ELSE {}
  <1>1. \A r \in s : (\A w \in {n}, c \in Columns : w[c] # Skipped => r[c] = w[c]) <=> r = n
    <2>. SUFFICES ASSUME NEW r \in s
         PROVE  (\A c \in {"key", "val"} : n[c] # Skipped => r[c] = n[c]) <=> r = n
      BY DEF Columns
    <2>1. r \in Rows
      BY TableShape
    <2>2. n.key # Skipped /\ n.val # Skipped /\ (r.key = n.key /\ r.val = n.val => r = n)
      BY <2>1, RowShape
    <2>. QED BY <2>2
  <1>. QED BY <1>1 DEF Matches

(* UPDATE sets both columns.                                               *)
LEMMA AssignLemma ==
  ASSUME NEW o \in Rows, NEW r
  PROVE  Assigned({o}, r) = {o}
  <1>1. o = [c \in {"key", "val"} |-> o[c]]
    BY DEF Rows
  <1>2. \A c \in {"key", "val"} : o[c] # Skipped
    BY RowShape
  <1>3. [c \in Columns |-> IF o[c] = Skipped THEN r[c] ELSE o[c]] = [c \in {"key", "val"} |-> o[c]]
    BY <1>2 DEF Columns
  <1>. QED BY <1>1, <1>3 DEF Assigned

(* INSERT of a whole row, and of an image that only has the key.           *)
LEMMA NewRowLemma ==
  ASSUME NEW o \in Rows
  PROVE  /\ NewRow({o}) = {o}
         /\ NewRow({KeyOnly(o)}) = {[key |-> o.key, val |-> Null]}
         /\ [key |-> o.key, val |-> Null] \in Rows
         /\ KeyOnly(o).key = o.key /\ KeyOnly(o).val = Skipped
  <1>1. o = [key |-> o.key, val |-> o.val] /\ o.val # Skipped
    BY RowShape DEF Rows
  <1>2. KeyOnly(o).key = o.key /\ KeyOnly(o).val = Skipped
    BY <1>1 DEF KeyOnly, Rows
  <1>3. [key |-> o.key, val |-> Null] \in Rows
    BY RowShape, NullAssumption
  <1>. QED BY <1>1, <1>2, <1>3 DEF NewRow

(* UPDATE and its rows as operators of their own.                          *)
AssignedTo(values, rows) == UNION {Assigned(values, r) : r \in rows}

Moved(s, rows, images) == {u \in {(s \ rows) \cup images} : KeysOf(images) \cap KeysOf(s \ rows) = {}}

LEMMA UpdateLemma ==
  ASSUME NEW sql, sql.verb = "update", NEW s
  PROVE  ExecuteSQL(sql, s) = Moved(s, Matches(sql.where, s), AssignedTo(sql.values, Matches(sql.where, s)))
  BY DEF ExecuteSQL, AssignedTo, Moved

(* The SQL undoes the change, or inserts a row with its key from an image  *)
(* that lost something.                                                    *)
LEMMA PostgresOperations ==
  ASSUME NEW t \in Tables, NEW c \in Changes, Fits(c, t), NEW identity \in Identities, NEW s \in Tables,
         NEW sql \in ReverseChange(Change(c, identity))
  PROVE  \/ ExecuteSQL(sql, s) = Opposite(c, s)
         \/ /\ c.new = {} /\ Lossy(OldImage(c.old, identity), c.old)
            /\ \E x \in Rows : /\ x.key \in KeysOf(c.old)
                               /\ ExecuteSQL(sql, s) = Opened(s, x)
  <1>1. CASE \E n \in Rows : c.old = {} /\ c.new = {n} /\ Operation(c) = "insert"
    <2>1. PICK n \in Rows : c.old = {} /\ c.new = {n} /\ Operation(c) = "insert"
      BY <1>1
    <2>2. Change(c, identity) = [operation |-> "insert", columns |-> {n}, oldKey |-> {}, newTuple |-> {}]
      BY <2>1 DEF Change
    <2>3. sql = SQL("delete", {}, {n})
      BY <2>2 DEF ReverseChange
    <2>4. sql.verb = "delete" /\ sql.values = {} /\ sql.where = {n}
      BY <2>3 DEF SQL
    <2>5. KeysOf({}) = {}
      BY DEF KeysOf
    <2>6. ExecuteSQL(sql, s) = {u \in {(s \ Matches({n}, s)) \cup {}} : {} \cap KeysOf(s \ Matches({n}, s)) = {}}
      BY <2>4, <2>5 DEF ExecuteSQL
    <2>7. CASE n \in s
      BY <2>1, <2>5, <2>6, <2>7, MatchLemma DEF Opposite
    <2>8. CASE n \notin s
      <3>1. ExecuteSQL(sql, s) = {s}
        <4>1. Matches({n}, s) = {}
          BY <2>8, MatchLemma
        <4>2. (s \ {}) \cup {} = s
          OBVIOUS
        <4>. QED BY <2>6, <4>1, <4>2
      <3>2. Opposite(c, s) = {s}
        BY <2>1, <2>8 DEF Opposite
      <3>. QED BY <3>1, <3>2
    <2>. QED BY <2>7, <2>8
  <1>2. CASE \E o \in Rows : c.old = {o} /\ c.new = {} /\ Operation(c) = "delete"
    <2>1. PICK o \in Rows : c.old = {o} /\ c.new = {} /\ Operation(c) = "delete"
      BY <1>2
    <2>2. Change(c, identity) = [operation |-> "delete", columns |-> OldImage({o}, identity), oldKey |-> {}, newTuple |-> {}]
      BY <2>1 DEF Change
    <2>3. sql = SQL("insert", OldImage({o}, identity), {})
      BY <2>2 DEF ReverseChange
    <2>4. OldImage({o}, identity) = {IF identity = "full" /\ o.val # Null THEN o ELSE KeyOnly(o)}
      BY DEF OldImage
    <2>5. PICK x \in Rows : /\ NewRow(OldImage({o}, identity)) = {x} /\ x.key = o.key
                            /\ x = o \/ Lossy(OldImage({o}, identity), {o})
      <3>1. CASE identity = "full" /\ o.val # Null
        BY <2>4, <3>1, NewRowLemma
      <3>2. CASE ~(identity = "full" /\ o.val # Null)
        <4>1. OldImage({o}, identity) = {KeyOnly(o)} /\ KeyOnly(o) # o
          BY <2>4, <3>2, NewRowLemma, RowShape
        <4>2. o.val = Null => [key |-> o.key, val |-> Null] = o
          BY NewRowLemma, RowShape
        <4>3. o.val # Null => Lossy(OldImage({o}, identity), {o})
          BY <4>1 DEF Lossy
        <4>. QED BY <4>1, <4>2, <4>3, NewRowLemma
      <3>. QED BY <3>1, <3>2
    <2>6. ExecuteSQL(sql, s) = Opened(s, x)
      <3>1. sql.verb = "insert" /\ sql.values = OldImage({o}, identity)
        BY <2>3 DEF SQL
      <3>. QED BY <2>5, <3>1 DEF ExecuteSQL, Opened
    <2>7. Opposite(c, s) = {u \in {s \cup {o}} : KeysOf({o}) \cap KeysOf(s) = {}}
      <3>1. s \ {} = s /\ {} \subseteq s
        OBVIOUS
      <3>. QED BY <2>1, <3>1 DEF Opposite
    <2>8. x.key \in KeysOf(c.old)
      BY <2>1, <2>5 DEF KeysOf
    <2>9. CASE x = o
      BY <2>6, <2>7, <2>9 DEF Opened
    <2>10. CASE Lossy(OldImage({o}, identity), {o})
      BY <2>1, <2>6, <2>8, <2>10
    <2>. QED BY <2>5, <2>9, <2>10
  <1>3. CASE \E o, n \in Rows : o # n /\ c.old = {o} /\ c.new = {n} /\ Operation(c) = "update"
    <2>1. PICK o \in Rows, n \in Rows : o # n /\ c.old = {o} /\ c.new = {n} /\ Operation(c) = "update"
      BY <1>3
    <2>2. PICK image \in {{}, OldImage({o}, identity)} :
            \E new \in {{}, {n}} : Change(c, identity) =
              [operation |-> "update", columns |-> {n}, oldKey |-> image, newTuple |-> new]
      BY <2>1 DEF Change
    <2>3. PICK new \in {{}, {n}} : Change(c, identity) =
              [operation |-> "update", columns |-> {n}, oldKey |-> image, newTuple |-> new]
      BY <2>2
    <2>4. image # {} /\ new # {} /\ CoversColumns(image, new) /\ sql = SQL("update", image, new)
      BY <2>3 DEF ReverseChange
    <2>5. OldImage({o}, identity) = {IF identity = "full" /\ o.val # Null THEN o ELSE KeyOnly(o)}
      BY DEF OldImage
    <2>6. image = {o} /\ new = {n}
      <3>1. image = {KeyOnly(o)} => ~CoversColumns(image, {n})
        BY NewRowLemma, RowShape DEF CoversColumns, Columns
      <3>. QED BY <2>2, <2>3, <2>4, <2>5, <3>1
    <2>7. sql.verb = "update" /\ sql.values = {o} /\ sql.where = {n}
      BY <2>4, <2>6 DEF SQL
    <2>8. AssignedTo({o}, {n}) = {o} /\ AssignedTo({o}, {}) = {}
      BY AssignLemma DEF AssignedTo
    <2>11. ExecuteSQL(sql, s) = Moved(s, Matches({n}, s), AssignedTo({o}, Matches({n}, s)))
      BY <2>7, UpdateLemma
    <2>9. CASE n \in s
      <3>1. ExecuteSQL(sql, s) = Moved(s, {n}, {o})
        BY <2>8, <2>9, <2>11, MatchLemma
      <3>. QED BY <2>1, <2>9, <3>1 DEF Opposite, Moved
    <2>10. CASE n \notin s
      <3>1. ExecuteSQL(sql, s) = Moved(s, {}, {})
        BY <2>8, <2>10, <2>11, MatchLemma
      <3>2. Moved(s, {}, {}) = {s}
        BY DEF Moved, KeysOf
      <3>3. Opposite(c, s) = {s}
        BY <2>1, <2>10 DEF Opposite
      <3>. QED BY <3>1, <3>2, <3>3
    <2>. QED BY <2>9, <2>10
  <1>. QED BY <1>1, <1>2, <1>3, ChangeShape

----------------------------------------------------------------------------------
(* What replaying the step of a write w on a table s may lead to, the set  *)
(* outcomes: other keys stay, a table as the write left it becomes what    *)
(* it was before, t, and so does one that already is.                      *)
UndoesRow(w, t, s, outcomes) ==
  /\ \A u \in outcomes : u \in Tables /\ \A k \in Keys \ w.keys : RowsAt(u, k) = RowsAt(s, k)
  /\ ~w.unsafe /\ (\A k \in w.keys : RowsAt(s, k) = RowsAt(w.after, k)) =>
       outcomes # {} /\ \A u \in outcomes, k \in w.keys : RowsAt(u, k) = RowsAt(t, k)
  /\ ~w.unsafe /\ (\A k \in w.keys : RowsAt(s, k) = RowsAt(t, k)) =>
       \A u \in outcomes, k \in w.keys : RowsAt(u, k) = RowsAt(t, k)

ChangesRow(w, t) ==
  /\ w.after \in Tables /\ w.keys \subseteq Keys /\ w.keys # {}
  /\ \A k \in Keys \ w.keys : RowsAt(w.after, k) = RowsAt(t, k)

(* A row whose key is free enters a table.                                 *)
LEMMA OpensLemma ==
  ASSUME NEW s \in Tables, NEW x \in Rows, KeysOf({x}) \cap KeysOf(s) = {}
  PROVE  s \cup {x} \in Tables /\ \A k : k # x.key => RowsAt(s \cup {x}, k) = RowsAt(s, k)
  <1>1. s \ {} = s /\ {x} \in SUBSET Rows /\ \A r, q \in {x} : r = q
    OBVIOUS
  <1>2. s \cup {x} \in Tables
    BY <1>1, UnionLemma
  <1>. QED BY <1>2 DEF RowsAt

(* PostgreSQL: ReverseChange and ExecuteSQL.                               *)
LEMMA PostgresLemma ==
  ASSUME NEW t \in Tables, NEW identity \in Identities, NEW w \in PostgresWrites(t, identity)
  PROVE  /\ ChangesRow(w, t)
         /\ \A sql \in ReverseChange(w.event), s \in Tables : UndoesRow(w, t, s, ExecuteSQL(sql, s))
  <1>1. PICK c \in Changes : /\ Fits(c, t)
                             /\ w = [event |-> Change(c, identity), after |-> (t \ c.old) \cup c.new,
                                     keys |-> KeysOf(c.old \cup c.new),
                                     unsafe |-> c.new = {} /\ Lossy(OldImage(c.old, identity), c.old)]
    BY DEF PostgresWrites
  <1>2. /\ w.event = Change(c, identity) /\ w.after = (t \ c.old) \cup c.new
        /\ w.keys = KeysOf(c.old \cup c.new)
        /\ w.unsafe <=> c.new = {} /\ Lossy(OldImage(c.old, identity), c.old)
    BY <1>1
  <1>3. ChangesRow(w, t)
    <2>1. /\ (t \ c.old) \cup c.new \in Tables
          /\ KeysOf(c.old \cup c.new) \subseteq Keys
          /\ \A k : k \notin KeysOf(c.old \cup c.new) => RowsAt((t \ c.old) \cup c.new, k) = RowsAt(t, k)
      BY <1>1, ChangeLemma
    <2>2. KeysOf(c.old \cup c.new) # {}
      BY ChangeShape DEF KeysOf
    <2>. QED BY <1>2, <2>1, <2>2 DEF ChangesRow
  <1>4. ASSUME NEW sql \in ReverseChange(w.event), NEW s \in Tables
        PROVE  UndoesRow(w, t, s, ExecuteSQL(sql, s))
    <2>1. CASE ExecuteSQL(sql, s) = Opposite(c, s)
      <3>1. /\ \A u \in Opposite(c, s) : u \in Tables /\ \A k : k \notin w.keys => RowsAt(u, k) = RowsAt(s, k)
            /\ (\A k \in w.keys : RowsAt(s, k) = RowsAt(w.after, k)) =>
                 /\ Opposite(c, s) # {}
                 /\ \A u \in Opposite(c, s), k \in w.keys : RowsAt(u, k) = RowsAt(t, k)
            /\ (\A k \in w.keys : RowsAt(s, k) = RowsAt(t, k)) =>
                 \A u \in Opposite(c, s), k \in w.keys : RowsAt(u, k) = RowsAt(t, k)
        <4>. DEFINE after == (t \ c.old) \cup c.new
                    keys  == KeysOf(c.old \cup c.new)
        <4>1. /\ \A u \in Opposite(c, s) : u \in Tables /\ \A k : k \notin keys => RowsAt(u, k) = RowsAt(s, k)
              /\ (\A k \in keys : RowsAt(s, k) = RowsAt(after, k)) =>
                   /\ Opposite(c, s) # {}
                   /\ \A u \in Opposite(c, s), k \in keys : RowsAt(u, k) = RowsAt(t, k)
              /\ (\A k \in keys : RowsAt(s, k) = RowsAt(t, k)) =>
                   \A u \in Opposite(c, s), k \in keys : RowsAt(u, k) = RowsAt(t, k)
          BY <1>1, OppositeLemma
        <4>2. w.after = after /\ w.keys = keys
          BY <1>2
        <4>. HIDE DEF after, keys
        <4>. QED BY <4>1, <4>2
      <3>. QED BY <2>1, <3>1 DEF UndoesRow
    <2>2. CASE /\ w.unsafe
               /\ \E x \in Rows : /\ x.key \in KeysOf(c.old)
                                  /\ ExecuteSQL(sql, s) = Opened(s, x)
      <3>1. PICK x \in Rows : /\ x.key \in KeysOf(c.old)
                              /\ ExecuteSQL(sql, s) = Opened(s, x)
        BY <2>2
      <3>2. x.key \in w.keys
        BY <1>2, <3>1 DEF KeysOf
      <3>3. ASSUME NEW u \in ExecuteSQL(sql, s)
            PROVE  u \in Tables /\ \A k \in Keys \ w.keys : RowsAt(u, k) = RowsAt(s, k)
        BY <3>1, <3>2, <3>3, OpensLemma DEF Opened
      <3>. QED BY <2>2, <3>3 DEF UndoesRow
    <2>3. sql \in ReverseChange(Change(c, identity))
      BY <1>2, <1>4
    <2>. QED BY <1>1, <1>2, <2>1, <2>2, <2>3, PostgresOperations
  <1>. QED BY <1>3, <1>4

----------------------------------------------------------------------------------
(* The commands of a reversed change of a collection.                      *)

(* A whole document is stored as it is, one without the field as Null.     *)
LEMMA StoredLemma ==
  ASSUME NEW o \in Rows
  PROVE  /\ Stored({o}) = {o} /\ Stored({}) = {}
         /\ Stored({KeyOnly(o)}) = {[key |-> o.key, val |-> Null]}
  <1>1. o = [key |-> o.key, val |-> o.val] /\ o.val # Skipped
    BY RowShape DEF Rows
  <1>2. KeyOnly(o) = [key |-> o.key, val |-> Skipped]
    BY <1>1 DEF KeyOnly
  <1>3. [o EXCEPT !.val = IF @ = Skipped THEN Null ELSE @] = o
    BY <1>1
  <1>4. [KeyOnly(o) EXCEPT !.val = IF @ = Skipped THEN Null ELSE @] = [key |-> o.key, val |-> Null]
    BY <1>2
  <1>. QED BY <1>3, <1>4 DEF Stored

(* MongoDB: ReverseDocument and ExecuteCommand.                            *)
LEMMA MongoLemma ==
  ASSUME NEW t \in Tables, NEW capture \in Captures, NEW w \in MongoWrites(t, capture)
  PROVE  /\ ChangesRow(w, t)
         /\ \A command \in ReverseDocument(w.event), s \in Tables :
              UndoesRow(w, t, s, ExecuteCommand(command, s))
  <1>1. PICK c \in Changes : /\ Fits(c, t) /\ Cardinality(KeysOf(c.old \cup c.new)) = 1
                             /\ w = [event |-> ParsedChange(c, capture), after |-> (t \ c.old) \cup c.new,
                                     keys |-> KeysOf(c.old \cup c.new),
                                     unsafe |-> c.new = {} /\ Lossy(ParsedChange(c, capture).document, c.old)]
    BY DEF MongoWrites
  <1>2. /\ w.event = ParsedChange(c, capture) /\ w.after = (t \ c.old) \cup c.new
        /\ w.keys = KeysOf(c.old \cup c.new)
        /\ w.unsafe <=> c.new = {} /\ Lossy(ParsedChange(c, capture).document, c.old)
    BY <1>1
  <1>3. ChangesRow(w, t)
    <2>1. /\ (t \ c.old) \cup c.new \in Tables
          /\ KeysOf(c.old \cup c.new) \subseteq Keys
          /\ \A k : k \notin KeysOf(c.old \cup c.new) => RowsAt((t \ c.old) \cup c.new, k) = RowsAt(t, k)
      BY <1>1, ChangeLemma
    <2>2. KeysOf(c.old \cup c.new) # {}
      BY ChangeShape DEF KeysOf
    <2>. QED BY <1>2, <2>1, <2>2 DEF ChangesRow
  <1>p. /\ ParsedChange(c, capture).operation = Operation(c)
        /\ ParsedChange(c, capture).documentKey = KeysOf(c.old \cup c.new)
        /\ ParsedChange(c, capture).beforeDocument = IF capture = "preimages" THEN c.old ELSE {}
    BY DEF ParsedChange
  <1>4. ASSUME NEW command \in ReverseDocument(w.event), NEW s \in Tables
        PROVE  UndoesRow(w, t, s, ExecuteCommand(command, s))
    <2>1. CASE \E n \in Rows : c.old = {} /\ c.new = {n} /\ Operation(c) = "insert"
      <3>1. PICK n \in Rows : c.old = {} /\ c.new = {n} /\ Operation(c) = "insert"
        BY <2>1
      <3>2. KeysOf(c.old \cup c.new) = {n.key} /\ KeysOf({n}) = {n.key} /\ t \ {} = t
        BY <3>1 DEF KeysOf
      <3>3. command = Command("delete", {n.key}, {})
        BY <1>2, <1>4, <1>p, <3>1, <3>2 DEF ReverseDocument
      <3>4. ExecuteCommand(command, s) = {s \ RowsAt(s, n.key)}
        BY <3>3 DEF ExecuteCommand, Command, RowsAt
      <3>5. s \ RowsAt(s, n.key) \in Tables
        BY DEF Tables
      <3>6. RowsAt(t, n.key) = {} /\ RowsAt(s \ RowsAt(s, n.key), n.key) = {}
        BY <1>1, <3>1, <3>2 DEF Fits, KeysOf, RowsAt
      <3>7. \A k : k # n.key => RowsAt(s \ RowsAt(s, n.key), k) = RowsAt(s, k)
        BY DEF RowsAt
      <3>8. w.keys = {n.key}
        BY <1>2, <3>2
      <3>. DEFINE u == s \ RowsAt(s, n.key)
      <3>9. ExecuteCommand(command, s) = {u} /\ u \in Tables /\ RowsAt(u, n.key) = RowsAt(t, n.key)
        BY <3>4, <3>5, <3>6
      <3>10. \A k : k # n.key => RowsAt(u, k) = RowsAt(s, k)
        BY <3>7
      <3>. HIDE DEF u
      <3>. QED BY <3>8, <3>9, <3>10 DEF UndoesRow
    <2>2. CASE \E o \in Rows : c.old = {o} /\ c.new = {} /\ Operation(c) = "delete"
      <3>1. PICK o \in Rows : c.old = {o} /\ c.new = {} /\ Operation(c) = "delete"
        BY <2>2
      <3>2. KeysOf(c.old \cup c.new) = {o.key} /\ KeysOf({o}) = {o.key}
        BY <3>1 DEF KeysOf
      <3>3. ParsedChange(c, capture).document =
              IF capture = "oplog" THEN {KeyOnly(o)} ELSE IF capture = "preimages" THEN {o} ELSE {}
        BY <3>1 DEF ParsedChange
      <3>4. /\ ParsedChange(c, capture).document # {}
            /\ command = Command("insert", {}, ParsedChange(c, capture).document)
        BY <1>2, <1>4, <1>p, <3>1 DEF ReverseDocument
      <3>5. PICK x \in Rows : /\ x.key = o.key /\ (x = o \/ w.unsafe)
                              /\ Stored(ParsedChange(c, capture).document) = {x}
        <4>1. CASE capture # "oplog"
          BY <3>3, <3>4, <4>1, StoredLemma
        <4>2. CASE capture = "oplog"
          <5>1. ParsedChange(c, capture).document = {KeyOnly(o)} /\ KeyOnly(o) # o
            BY <3>3, <4>2, NewRowLemma, RowShape
          <5>2. o.val = Null => [key |-> o.key, val |-> Null] = o
            BY NewRowLemma, RowShape
          <5>3. o.val # Null => w.unsafe
            BY <1>2, <3>1, <5>1 DEF Lossy
          <5>4. /\ Stored(ParsedChange(c, capture).document) = {[key |-> o.key, val |-> Null]}
                /\ [key |-> o.key, val |-> Null] \in Rows
            BY <5>1, StoredLemma, NewRowLemma
          <5>. QED BY <5>2, <5>3, <5>4
        <4>. QED BY <4>1, <4>2
      <3>6. ExecuteCommand(command, s) = Opened(s, x)
        BY <3>4, <3>5 DEF ExecuteCommand, Command, Opened
      <3>7. ASSUME NEW u \in Opened(s, x)
            PROVE  u = s \cup {x} /\ u \in Tables /\ RowsAt(s, x.key) = {} /\ \A k : k # x.key => RowsAt(u, k) = RowsAt(s, k)
        <4>1. u = s \cup {x} /\ KeysOf({x}) \cap KeysOf(s) = {}
          BY <3>7 DEF Opened
        <4>2. RowsAt(s, x.key) = {}
          BY <4>1 DEF RowsAt, KeysOf
        <4>. QED BY <4>1, <4>2, OpensLemma
      <3>8. RowsAt(t, o.key) = {o} /\ RowsAt(w.after, o.key) = {}
        BY <1>1, <1>2, <3>1, TableShape DEF Fits, RowsAt
      <3>9. \A k \in Keys \ w.keys : k # x.key
        BY <1>2, <3>2, <3>5
      <3>10. \A u \in Opened(s, x) : u \in Tables /\ \A k \in Keys \ w.keys : RowsAt(u, k) = RowsAt(s, k)
        BY <3>7, <3>9
      <3>11. ~w.unsafe => \A u \in Opened(s, x), k \in w.keys : RowsAt(u, k) = RowsAt(t, k)
        <4>. SUFFICES ASSUME ~w.unsafe, NEW u \in Opened(s, x) PROVE RowsAt(u, o.key) = {o}
          BY <1>2, <3>2, <3>8
        <4>. QED BY <3>5, <3>7 DEF RowsAt
      <3>12. RowsAt(s, o.key) = {} => Opened(s, x) # {}
        BY <3>5 DEF Opened, RowsAt, KeysOf
      <3>13. w.keys = {o.key}
        BY <1>2, <3>2
      <3>. QED BY <3>6, <3>8, <3>10, <3>11, <3>12, <3>13 DEF UndoesRow
    <2>3. CASE \E o, n \in Rows : o # n /\ c.old = {o} /\ c.new = {n} /\ Operation(c) = "update"
      <3>1. PICK o \in Rows, n \in Rows : o # n /\ c.old = {o} /\ c.new = {n} /\ Operation(c) = "update"
        BY <2>3
      <3>2. n.key = o.key /\ KeysOf(c.old \cup c.new) = {o.key}
        <4>1. KeysOf(c.old \cup c.new) = {o.key, n.key}
          BY <3>1 DEF KeysOf
        <4>2. o.key # n.key => Cardinality({o.key, n.key}) = 2
          <5>. SUFFICES ASSUME o.key # n.key PROVE Cardinality({o.key, n.key}) = 2
            OBVIOUS
          <5>1. IsFiniteSet({o.key}) /\ Cardinality({o.key}) = 1
            BY FS_Singleton
          <5>2. Cardinality({o.key} \cup {n.key}) = Cardinality({o.key}) + 1
            BY <5>1, FS_AddElement
          <5>3. {o.key} \cup {n.key} = {o.key, n.key}
            OBVIOUS
          <5>. QED BY <5>1, <5>2, <5>3
        <4>. QED BY <1>1, <4>1, <4>2
      <3>3. capture = "preimages" /\ command = Command("replace", {o.key}, {o})
        BY <1>2, <1>4, <1>p, <3>1, <3>2 DEF ReverseDocument
      <3>4. ExecuteCommand(command, s) =
              {IF RowsAt(s, o.key) = {} THEN s ELSE (s \ RowsAt(s, o.key)) \cup {o}}
        <4>1. {r \in s : r.key \in {o.key}} = RowsAt(s, o.key)
          BY DEF RowsAt
        <4>. QED BY <3>3, <4>1, StoredLemma DEF ExecuteCommand, Command
      <3>5. (s \ RowsAt(s, o.key)) \cup {o} \in Tables
        <4>1. RowsAt(s, o.key) \in SUBSET Rows /\ {o} \in SUBSET Rows /\ \A r, q \in {o} : r = q
          BY TableShape DEF RowsAt
        <4>2. KeysOf({o}) \cap KeysOf(s \ RowsAt(s, o.key)) = {}
          BY DEF KeysOf, RowsAt
        <4>. QED BY <4>1, <4>2, UnionLemma
      <3>6. RowsAt((s \ RowsAt(s, o.key)) \cup {o}, o.key) = {o}
        BY DEF RowsAt
      <3>7. \A k : k # o.key => RowsAt((s \ RowsAt(s, o.key)) \cup {o}, k) = RowsAt(s, k)
        BY DEF RowsAt
      <3>8. RowsAt(t, o.key) = {o} /\ RowsAt(w.after, o.key) # {}
        <4>1. o \in t /\ n \in w.after
          BY <1>1, <1>2, <3>1 DEF Fits
        <4>. QED BY <3>2, <4>1, TableShape DEF RowsAt
      <3>9. w.keys = {o.key}
        BY <1>2, <3>2
      <3>. QED BY <3>4, <3>5, <3>6, <3>7, <3>8, <3>9 DEF UndoesRow
    <2>. QED BY <2>1, <2>2, <2>3, ChangeShape
  <1>. QED BY <1>3, <1>4

----------------------------------------------------------------------------------
(* The stages of a MySQL statement.                                        *)

(* What holds at zero and is passed on holds up to n.                      *)
LEMMA UpTo ==
  ASSUME NEW n \in Nat, NEW P, 0 \in P, \A i \in 1..n : i - 1 \in P => i \in P
  PROVE  0..n \subseteq P
  <1>. DEFINE T == {i \in 0..n : i \notin P}
  <1>. SUFFICES ASSUME T # {} PROVE FALSE
    OBVIOUS
  <1>1. PICK x \in T : \A y \in T : ~(<<y, x>> \in OpToRel(<, Nat))
    <2>1. T \subseteq Nat
      OBVIOUS
    <2>. QED BY <2>1, NatLessThanWellFounded, WFMin
  <1>2. x \in 1..n /\ x - 1 \in 0..n
    OBVIOUS
  <1>3. x - 1 \in T
    BY <1>2
  <1>4. x - 1 \in Nat /\ x \in Nat /\ x - 1 < x
    BY <1>2
  <1>. QED BY <1>1, <1>3, <1>4 DEF OpToRel

(* Functions with what Stages asks of its own, up to a number of changes.  *)
StagesTo(changes, t, m, f) ==
  /\ f = [i \in 0..m |-> f[i]]
  /\ f[0] = {t}
  /\ \A i \in 1..m : f[i] = Changed(changes[i], f[i - 1])

(* The recursive function exists: each stage follows from the one before.  *)
LEMMA StagesLemma ==
  ASSUME NEW changes, NEW t, Len(changes) \in Nat
  PROVE  StagesTo(changes, t, Len(changes), Stages(changes, t))
  <1>. DEFINE n == Len(changes)
              P == {m \in 0..n : \E f : StagesTo(changes, t, m, f)}
  <1>1. 0 \in P
    <2>. DEFINE f == [i \in 0..0 |-> {t}]
    <2>1. StagesTo(changes, t, 0, f)
      BY DEF StagesTo
    <2>. HIDE DEF f
    <2>. QED BY <2>1
  <1>2. ASSUME NEW m \in 1..n, m - 1 \in P PROVE m \in P
    <2>1. PICK g : StagesTo(changes, t, m - 1, g)
      BY <1>2
    <2>. DEFINE f == [i \in 0..m |-> IF i = m THEN Changed(changes[m], g[m - 1]) ELSE g[i]]
    <2>2. f = [i \in 0..m |-> f[i]] /\ f[m] = Changed(changes[m], g[m - 1]) /\ \A i \in 0..(m - 1) : f[i] = g[i]
      OBVIOUS
    <2>. HIDE DEF f
    <2>a. 0 \in 0..(m - 1) /\ m - 1 \in 0..(m - 1) /\ 0 \in Int /\ m \in Int
      OBVIOUS
    <2>b. f[0] = g[0] /\ f[m - 1] = g[m - 1]
      BY <2>2, <2>a
    <2>c. g[0] = {t} /\ \A i \in 1..(m - 1) : g[i] = Changed(changes[i], g[i - 1])
      BY <2>1 DEF StagesTo
    <2>3. StagesTo(changes, t, m, f)
      <3>1. f[0] = {t}
        BY <2>b, <2>c
      <3>2. ASSUME NEW i \in 1..m PROVE f[i] = Changed(changes[i], f[i - 1])
        <4>1. CASE i = m
          BY <2>2, <2>b, <4>1
        <4>2. CASE i # m
          <5>1. i \in 1..(m - 1) /\ i \in 0..(m - 1) /\ i - 1 \in 0..(m - 1)
            BY <4>2
          <5>. QED BY <2>2, <2>c, <5>1
        <4>. QED BY <4>1, <4>2
      <3>. QED BY <2>2, <3>1, <3>2 DEF StagesTo
    <2>. QED BY <2>3
  <1>3. n \in P
    <2>. HIDE DEF P
    <2>1. 0..n \subseteq P
      BY <1>1, <1>2, UpTo
    <2>. QED BY <2>1
  <1>4. PICK g : StagesTo(changes, t, n, g)
    BY <1>3
  <1>5. g = [i \in 0..n |-> IF i = 0 THEN {t} ELSE Changed(changes[i], g[i - 1])]
    <2>. DEFINE h == [i \in 0..n |-> IF i = 0 THEN {t} ELSE Changed(changes[i], g[i - 1])]
    <2>1. \A i \in 0..n : g[i] = h[i]
      BY <1>4 DEF StagesTo
    <2>2. g = [i \in 0..n |-> g[i]]
      BY <1>4 DEF StagesTo
    <2>. QED BY <2>1, <2>2
  <1>6. Stages(changes, t) = [i \in 0..n |-> IF i = 0 THEN {t} ELSE Changed(changes[i], Stages(changes, t)[i - 1])]
    BY <1>5, Zenon DEF Stages
  <1>. QED BY <1>6 DEF StagesTo

LEMMA ChangedLemma ==
  ASSUME NEW c
  PROVE  /\ Changed(c, {}) = {}
         /\ \A u : Changed(c, {u}) = IF Fits(c, u) THEN {(u \ c.old) \cup c.new} ELSE {}
  BY DEF Changed

(* The keys of a change, and those of all changes of a statement.          *)
ChangeKeys(c) == KeysOf(c.old \cup c.new)

KeysNamed(cs) == UNION {KeysOf(cs[i].old \cup cs[i].new) : i \in DOMAIN cs}

LEMMA NamedLemma ==
  ASSUME NEW n \in Nat \ {0}, NEW cs \in [1..n -> Changes]
  PROVE  /\ Len(cs) = n
         /\ \A k : k \in KeysNamed(cs) <=> \E i \in 1..n : k \in ChangeKeys(cs[i])
         /\ KeysNamed(cs) \subseteq Keys /\ KeysNamed(cs) # {}
  <1>1. Len(cs) = n
    <2>1. cs \in Seq(Changes)
      BY SeqDef
    <2>2. Len(cs) \in Nat /\ DOMAIN cs = 1..Len(cs) /\ DOMAIN cs = 1..n
      BY <2>1, LenProperties
    <2>. QED BY <2>2
  <1>2. \A k : k \in KeysNamed(cs) <=> \E i \in 1..n : k \in ChangeKeys(cs[i])
    BY DEF KeysNamed, ChangeKeys
  <1>3. \A i \in 1..n : ChangeKeys(cs[i]) \subseteq Keys /\ ChangeKeys(cs[i]) # {}
    <2>. SUFFICES ASSUME NEW i \in 1..n PROVE ChangeKeys(cs[i]) \subseteq Keys /\ ChangeKeys(cs[i]) # {}
      OBVIOUS
    <2>1. cs[i].old \subseteq Rows /\ cs[i].new \subseteq Rows /\ cs[i].old \cup cs[i].new # {}
      BY ChangeShape
    <2>. QED BY <2>1, RowShape DEF ChangeKeys, KeysOf
  <1>4. 1 \in 1..n
    OBVIOUS
  <1>. QED BY <1>1, <1>2, <1>3, <1>4

(* What a statement leaves is a table, and other keys are as they were.    *)
LEMMA FrameLemma ==
  ASSUME NEW n \in Nat \ {0}, NEW cs \in [1..n -> Changes], NEW t \in Tables, NEW u \in Outcome(cs, t)
  PROVE  u \in Tables /\ \A k : k \notin KeysNamed(cs) => RowsAt(u, k) = RowsAt(t, k)
  <1>. DEFINE st == Stages(cs, t)
              Kept(x) == x \in Tables /\ \A k : k \notin KeysNamed(cs) => RowsAt(x, k) = RowsAt(t, k)
              P == {i \in 0..n : \A x \in st[i] : Kept(x)}
  <1>1. StagesTo(cs, t, n, st) /\ Outcome(cs, t) = st[n]
    BY NamedLemma, StagesLemma DEF Outcome
  <1>2. st[0] = {t} /\ \A i \in 1..n : st[i] = Changed(cs[i], st[i - 1])
    BY <1>1 DEF StagesTo
  <1>. HIDE DEF st
  <1>3. 0 \in P
    BY <1>2
  <1>4. ASSUME NEW i \in 1..n, i - 1 \in P PROVE i \in P
    <2>. SUFFICES ASSUME NEW x \in st[i] PROVE Kept(x)
      OBVIOUS
    <2>1. PICK v \in st[i - 1] : Fits(cs[i], v) /\ x = (v \ cs[i].old) \cup cs[i].new
      BY <1>2 DEF Changed
    <2>2. Kept(v)
      BY <1>4
    <2>3. /\ x \in Tables
          /\ \A k : k \notin ChangeKeys(cs[i]) => RowsAt(x, k) = RowsAt(v, k)
      BY <2>1, <2>2, ChangeLemma DEF ChangeKeys
    <2>4. ASSUME NEW k, k \notin KeysNamed(cs) PROVE RowsAt(x, k) = RowsAt(t, k)
      <3>1. k \notin ChangeKeys(cs[i])
        BY <2>4, NamedLemma
      <3>2. RowsAt(v, k) = RowsAt(t, k)
        BY <2>2, <2>4
      <3>. QED BY <2>3, <3>1, <3>2
    <2>. QED BY <2>3, <2>4
  <1>5. n \in P
    <2>. HIDE DEF P
    <2>1. 0..n \subseteq P
      BY <1>3, <1>4, UpTo
    <2>. QED BY <2>1
  <1>. QED BY <1>1, <1>5

(* A statement that can be made passes through one table after another.    *)
LEMMA MadeLemma ==
  ASSUME NEW n \in Nat \ {0}, NEW cs \in [1..n -> Changes], NEW t \in Tables, Outcome(cs, t) # {}
  PROVE  LET st == Stages(cs, t)
         IN  /\ \A i \in 0..n : \E u \in Tables : st[i] = {u}
             /\ \A i \in 1..n : \A v \in st[i - 1] :
                  Fits(cs[i], v) /\ st[i] = {(v \ cs[i].old) \cup cs[i].new}
             /\ st[0] = {t} /\ st[n] = Outcome(cs, t)
  <1>. DEFINE st == Stages(cs, t)
              P == {i \in 0..n : \E u \in Tables : st[i] = {u}}
              Q == {i \in 0..n : st[n - i] # {}}
  <1>1. StagesTo(cs, t, n, st) /\ Outcome(cs, t) = st[n]
    BY NamedLemma, StagesLemma DEF Outcome
  <1>2. st[0] = {t} /\ \A i \in 1..n : st[i] = Changed(cs[i], st[i - 1])
    BY <1>1 DEF StagesTo
  <1>. HIDE DEF st
  <1>3. \A i \in 0..n : st[i] # {}
    <2>1. 0 \in Q
      <3>1. n - 0 = n
        OBVIOUS
      <3>. QED BY <1>1, <3>1
    <2>2. ASSUME NEW i \in 1..n, i - 1 \in Q PROVE i \in Q
      <3>1. n - (i - 1) \in 1..n /\ (n - (i - 1)) - 1 = n - i
        OBVIOUS
      <3>2. st[n - (i - 1)] # {}
        BY <2>2
      <3>3. st[n - (i - 1)] = Changed(cs[n - (i - 1)], st[n - i])
        BY <1>2, <3>1
      <3>4. Changed(cs[n - (i - 1)], {}) = {}
        BY ChangedLemma
      <3>5. st[n - i] # {}
        BY <3>2, <3>3, <3>4
      <3>. QED BY <3>5
    <2>3. 0..n \subseteq Q
      <3>. HIDE DEF Q
      <3>. QED BY <2>1, <2>2, UpTo
    <2>. SUFFICES ASSUME NEW i \in 0..n PROVE st[i] # {}
      OBVIOUS
    <2>4. n - i \in 0..n /\ n - (n - i) = i
      OBVIOUS
    <2>5. n - i \in Q
      BY <2>3, <2>4
    <2>. QED BY <2>4, <2>5
  <1>4. ASSUME NEW i \in 1..n, NEW v \in Tables, st[i - 1] = {v}
        PROVE  /\ Fits(cs[i], v) /\ st[i] = {(v \ cs[i].old) \cup cs[i].new}
               /\ (v \ cs[i].old) \cup cs[i].new \in Tables
    <2>1. st[i] = (IF Fits(cs[i], v) THEN {(v \ cs[i].old) \cup cs[i].new} ELSE {}) /\ st[i] # {}
      <3>1. Changed(cs[i], {v}) = IF Fits(cs[i], v) THEN {(v \ cs[i].old) \cup cs[i].new} ELSE {}
        BY ChangedLemma
      <3>2. st[i] = Changed(cs[i], {v}) /\ st[i] # {}
        <4>1. st[i] = Changed(cs[i], st[i - 1])
          BY <1>2
        <4>2. i \in 0..n
          OBVIOUS
        <4>. QED BY <1>3, <1>4, <4>1, <4>2
      <3>. QED BY <3>1, <3>2
    <2>2. Fits(cs[i], v) /\ cs[i] \in Changes
      BY <2>1
    <2>. QED BY <2>1, <2>2, ChangeLemma
  <1>5. 0 \in P
    BY <1>2
  <1>6. ASSUME NEW i \in 1..n, i - 1 \in P PROVE i \in P
    <2>1. PICK v \in Tables : st[i - 1] = {v}
      BY <1>6
    <2>2. st[i] = {(v \ cs[i].old) \cup cs[i].new} /\ (v \ cs[i].old) \cup cs[i].new \in Tables
      BY <1>4, <2>1
    <2>3. \E u \in Tables : st[i] = {u}
      BY <2>2
    <2>. QED BY <2>3
  <1>7. 0..n \subseteq P
    <2>. HIDE DEF P
    <2>. QED BY <1>5, <1>6, UpTo
  <1>8. ASSUME NEW i \in 1..n, NEW v \in st[i - 1]
        PROVE  Fits(cs[i], v) /\ st[i] = {(v \ cs[i].old) \cup cs[i].new}
    <2>1. i - 1 \in 0..n
      OBVIOUS
    <2>2. PICK u \in Tables : st[i - 1] = {u}
      BY <1>7, <2>1
    <2>3. u = v
      BY <2>2
    <2>. QED BY <1>4, <2>2, <2>3
  <1>. QED BY <1>1, <1>2, <1>7, <1>8 DEF st

(* The rows of a change are rows, and it removes none that it adds.        *)
LEMMA RowsOfChange ==
  ASSUME NEW c \in Changes
  PROVE  /\ c.old \cap c.new = {} /\ c.old \subseteq Rows /\ c.new \subseteq Rows
         /\ c.old \cup c.new # {}
         /\ [old |-> c.new, new |-> c.old] \in Changes
  <1>1. \/ \E n \in Rows : c.old = {} /\ c.new = {n}
        \/ \E o \in Rows : c.old = {o} /\ c.new = {}
        \/ \E o, n \in Rows : o # n /\ c.old = {o} /\ c.new = {n}
    BY ChangeShape
  <1>2. c.old \cap c.new = {} /\ c.old \subseteq Rows /\ c.new \subseteq Rows /\ c.old \cup c.new # {}
    BY <1>1
  <1>3. [old |-> c.new, new |-> c.old] \in Changes
    BY DEF Changes
  <1>. QED BY <1>2, <1>3

(* The changes of a statement up to one, on a table they have led to: they *)
(* name different keys, what t has there they remove, and nothing else     *)
(* has happened.                                                           *)
Separate(cs, t, m, u) ==
  /\ \A i, j \in 1..m : i < j => ChangeKeys(cs[i]) \cap ChangeKeys(cs[j]) = {}
  /\ \A i \in 1..m : \A r \in t : r.key \in ChangeKeys(cs[i]) => r \in cs[i].old
  /\ \A r : r \in u <=> \/ r \in t /\ \A i \in 1..m : r \notin cs[i].old
                        \/ \E i \in 1..m : r \in cs[i].new

(* Nothing hands its key over to a row that comes later.                   *)
LEMMA SeparateStep ==
  ASSUME NEW t \in Tables, NEW n \in Nat, NEW cs \in [1..n -> Changes], ~HandsOver(cs),
         \A i \in 1..n : cs[i].old \subseteq t,
         NEW m \in 1..n, NEW v \in Tables, Separate(cs, t, m - 1, v), Fits(cs[m], v)
  PROVE  Separate(cs, t, m, (v \ cs[m].old) \cup cs[m].new)
  <1>. DEFINE c == cs[m]
              u == (v \ c.old) \cup c.new
  <1>1. /\ c \in Changes /\ c.old \subseteq t /\ c.old \subseteq v
        /\ \A x \in c.new, y \in v : x.key = y.key => y \in c.old
    BY DEF Fits, KeysOf
  <1>2. \A k, i : i \in 1..n => (k \in ChangeKeys(cs[i]) <=> \E r \in cs[i].old \cup cs[i].new : r.key = k)
    BY DEF ChangeKeys, KeysOf
  <1>3. \A i \in 1..n : cs[i].old \cap cs[i].new = {} /\ cs[i].old \subseteq Rows /\ cs[i].new \subseteq Rows
    <2>. SUFFICES ASSUME NEW i \in 1..n
         PROVE  cs[i].old \cap cs[i].new = {} /\ cs[i].old \subseteq Rows /\ cs[i].new \subseteq Rows
      OBVIOUS
    <2>1. cs[i] \in Changes
      OBVIOUS
    <2>. QED BY <2>1, RowsOfChange
  <1>4. \A i \in 1..(m - 1) : \A x \in c.new, z \in cs[i].old : x.key # z.key
    <2>. SUFFICES ASSUME NEW i \in 1..(m - 1), NEW x \in c.new, NEW z \in cs[i].old, x.key = z.key PROVE FALSE
      OBVIOUS
    <2>1. i \in DOMAIN cs /\ m \in DOMAIN cs /\ i < m
      OBVIOUS
    <2>2. z.key \in KeysOf(cs[i].old) \cap KeysOf(cs[m].new)
      BY DEF KeysOf
    <2>. QED BY <2>1, <2>2 DEF HandsOver
  <1>5. /\ \A i, j \in 1..(m - 1) : i < j => ChangeKeys(cs[i]) \cap ChangeKeys(cs[j]) = {}
        /\ \A i \in 1..(m - 1) : \A r \in t : r.key \in ChangeKeys(cs[i]) => r \in cs[i].old
        /\ \A r : r \in v <=> \/ r \in t /\ \A i \in 1..(m - 1) : r \notin cs[i].old
                              \/ \E i \in 1..(m - 1) : r \in cs[i].new
    BY DEF Separate
  <1>m. /\ 1..(m - 1) \subseteq 1..n
        /\ \A i : i \in 1..m <=> i \in 1..(m - 1) \/ i = m
    OBVIOUS
  <1>. HIDE DEF c, u
  <1>6. ASSUME NEW r \in t, r.key \in ChangeKeys(c) PROVE r \in c.old
    <2>1. PICK x \in c.old \cup c.new : x.key = r.key
      BY <1>2, <1>6 DEF c
    <2>2. CASE x \in c.old
      BY <1>1, <2>1, <2>2, TableShape
    <2>3. CASE x \in c.new
      <3>1. r \in v
        <4>. SUFFICES ASSUME r \notin v PROVE FALSE
          OBVIOUS
        <4>1. PICK i \in 1..(m - 1) : r \in cs[i].old
          BY <1>5
        <4>. QED BY <1>4, <2>1, <2>3, <4>1
      <3>. QED BY <1>1, <2>1, <2>3, <3>1
    <2>. QED BY <2>1, <2>2, <2>3
  <1>7. ASSUME NEW i \in 1..(m - 1), NEW y \in c.old, y.key \in ChangeKeys(cs[i]) PROVE FALSE
    <2>1. y \in t /\ y \in v /\ y \in cs[i].old
      BY <1>1, <1>5, <1>7
    <2>2. PICK j \in 1..(m - 1) : y \in cs[j].new
      BY <1>5, <2>1
    <2>3. y.key \in ChangeKeys(cs[j])
      BY <1>2, <1>m, <2>2
    <2>4. i = j
      <3>1. i < j \/ j < i \/ i = j
        OBVIOUS
      <3>. QED BY <1>5, <1>7, <2>3, <3>1
    <2>. QED BY <1>3, <1>m, <2>1, <2>2, <2>4
  <1>8. ASSUME NEW i \in 1..(m - 1), NEW k, k \in ChangeKeys(cs[i]), k \in ChangeKeys(c) PROVE FALSE
    <2>1. PICK x \in c.old \cup c.new : x.key = k
      BY <1>2, <1>8 DEF c
    <2>2. PICK z \in cs[i].old \cup cs[i].new : z.key = k
      BY <1>2, <1>8, <1>m
    <2>3. CASE x \in c.old
      BY <1>7, <1>8, <2>1, <2>3
    <2>4. CASE x \in c.new
      <3>1. z \in cs[i].new
        BY <1>4, <2>1, <2>2, <2>4
      <3>2. z \in v
        BY <1>5, <3>1
      <3>3. z \in c.old
        BY <1>1, <2>1, <2>2, <2>4, <3>2
      <3>. QED BY <1>7, <1>8, <2>2, <3>3
    <2>. QED BY <2>1, <2>3, <2>4
  <1>9. ASSUME NEW i \in 1..m, NEW j \in 1..m, i < j PROVE ChangeKeys(cs[i]) \cap ChangeKeys(cs[j]) = {}
    <2>1. CASE j = m
      <3>1. i \in 1..(m - 1)
        BY <1>9, <2>1
      <3>. QED BY <1>8, <2>1, <3>1 DEF c
    <2>2. CASE j # m
      <3>1. i \in 1..(m - 1) /\ j \in 1..(m - 1)
        BY <1>9, <2>2
      <3>. QED BY <1>5, <1>9, <3>1
    <2>. QED BY <2>1, <2>2
  <1>10. ASSUME NEW i \in 1..m, NEW r \in t, r.key \in ChangeKeys(cs[i]) PROVE r \in cs[i].old
    BY <1>5, <1>6, <1>10, <1>m DEF c
  <1>11. ASSUME NEW r
         PROVE  r \in u <=> \/ r \in t /\ \A i \in 1..m : r \notin cs[i].old
                            \/ \E i \in 1..m : r \in cs[i].new
    <2>1. \A i \in 1..(m - 1) : r \in cs[i].new => r \notin c.old
      <3>. SUFFICES ASSUME NEW i \in 1..(m - 1), r \in cs[i].new, r \in c.old PROVE FALSE
        OBVIOUS
      <3>1. r.key \in ChangeKeys(cs[i])
        BY <1>2, <1>m
      <3>. QED BY <1>7, <3>1
    <2>2. r \in u <=> (r \in v /\ r \notin c.old) \/ r \in c.new
      BY DEF u
    <2>3. (\A i \in 1..m : r \notin cs[i].old) <=> (\A i \in 1..(m - 1) : r \notin cs[i].old) /\ r \notin c.old
      BY <1>m DEF c
    <2>4. (\E i \in 1..m : r \in cs[i].new) <=> (\E i \in 1..(m - 1) : r \in cs[i].new) \/ r \in c.new
      BY <1>m DEF c
    <2>. QED BY <1>5, <2>1, <2>2, <2>3, <2>4
  <1>. QED BY <1>9, <1>10, <1>11 DEF Separate, u, c

LEMMA SeparateLemma ==
  ASSUME NEW t \in Tables, NEW n \in Nat \ {0}, NEW cs \in [1..n -> Changes], ~HandsOver(cs),
         \A i \in 1..n : cs[i].old \subseteq t, Outcome(cs, t) # {}
  PROVE  \E u \in Tables : Outcome(cs, t) = {u} /\ Separate(cs, t, n, u)
  <1>. DEFINE st == Stages(cs, t)
              P == {i \in 0..n : \E u \in Tables : st[i] = {u} /\ Separate(cs, t, i, u)}
  <1>1. /\ \A i \in 0..n : \E u \in Tables : st[i] = {u}
        /\ \A i \in 1..n : \A v \in st[i - 1] :
             Fits(cs[i], v) /\ st[i] = {(v \ cs[i].old) \cup cs[i].new}
        /\ st[0] = {t} /\ st[n] = Outcome(cs, t)
    BY MadeLemma
  <1>. HIDE DEF st
  <1>2. 0 \in P
    <2>1. \A i : i \notin 1..0
      OBVIOUS
    <2>2. Separate(cs, t, 0, t)
      BY <2>1, Zenon DEF Separate
    <2>. QED BY <1>1, <2>2
  <1>3. ASSUME NEW i \in 1..n, i - 1 \in P PROVE i \in P
    <2>1. PICK v \in Tables : st[i - 1] = {v} /\ Separate(cs, t, i - 1, v)
      BY <1>3
    <2>2. Fits(cs[i], v) /\ st[i] = {(v \ cs[i].old) \cup cs[i].new}
      BY <1>1, <2>1
    <2>3. Separate(cs, t, i, (v \ cs[i].old) \cup cs[i].new)
      BY <2>1, <2>2, SeparateStep
    <2>4. cs[i] \in Changes /\ (v \ cs[i].old) \cup cs[i].new \in Tables
      BY <2>2, ChangeLemma
    <2>5. \E u \in Tables : st[i] = {u} /\ Separate(cs, t, i, u)
      BY <2>2, <2>3, <2>4
    <2>. QED BY <2>5
  <1>4. n \in P
    <2>. HIDE DEF P
    <2>1. 0..n \subseteq P
      BY <1>2, <1>3, UpTo
    <2>. QED BY <2>1
  <1>. QED BY <1>1, <1>4

(* The statement with its changes turned round, in the same order.         *)
Backwards(cs) == [i \in DOMAIN cs |-> [old |-> cs[i].new, new |-> cs[i].old]]

LEMMA BackwardsShape ==
  ASSUME NEW n \in Nat \ {0}, NEW cs \in [1..n -> Changes]
  PROVE  /\ Backwards(cs) \in [1..n -> Changes]
         /\ \A i \in 1..n : Backwards(cs)[i].old = cs[i].new /\ Backwards(cs)[i].new = cs[i].old
         /\ KeysNamed(Backwards(cs)) = KeysNamed(cs)
  <1>1. \A i \in 1..n : [old |-> cs[i].new, new |-> cs[i].old] \in Changes
    <2>. SUFFICES ASSUME NEW i \in 1..n PROVE [old |-> cs[i].new, new |-> cs[i].old] \in Changes
      OBVIOUS
    <2>1. cs[i] \in Changes
      OBVIOUS
    <2>. QED BY <2>1, RowsOfChange
  <1>2. Backwards(cs) = [i \in 1..n |-> [old |-> cs[i].new, new |-> cs[i].old]]
    BY DEF Backwards
  <1>3. Backwards(cs) \in [1..n -> Changes]
    BY <1>1, <1>2
  <1>4. \A i \in 1..n : Backwards(cs)[i].old = cs[i].new /\ Backwards(cs)[i].new = cs[i].old
    BY <1>2
  <1>5. \A i \in 1..n : ChangeKeys(Backwards(cs)[i]) = ChangeKeys(cs[i])
    BY <1>4 DEF ChangeKeys, KeysOf
  <1>6. KeysNamed(Backwards(cs)) = KeysNamed(cs)
    <2>1. \A k : k \in KeysNamed(Backwards(cs)) <=> k \in KeysNamed(cs)
      BY <1>3, <1>5, NamedLemma
    <2>. QED BY <2>1
  <1>. QED BY <1>3, <1>4, <1>6

(* A table on its way back: it is what it was on the keys of the changes   *)
(* that were turned round so far.                                          *)
Restored(cs, t, s, m, v) ==
  \A r : r \in v <=> IF \E i \in 1..m : r.key \in ChangeKeys(cs[i]) THEN r \in t ELSE r \in s

LEMMA RestoreStep ==
  ASSUME NEW t \in Tables, NEW n \in Nat, NEW cs \in [1..n -> Changes], \A i \in 1..n : cs[i].old \subseteq t,
         NEW u \in Tables, Separate(cs, t, n, u),
         NEW s \in Tables, \A i \in 1..n : \A k \in ChangeKeys(cs[i]) : RowsAt(s, k) = RowsAt(u, k),
         NEW m \in 1..n, NEW v \in Tables, Restored(cs, t, s, m - 1, v),
         NEW b \in Changes, b.old = cs[m].new, b.new = cs[m].old
  PROVE  Fits(b, v) /\ Restored(cs, t, s, m, (v \ b.old) \cup b.new)
  <1>. DEFINE c == cs[m]
              x == (v \ b.old) \cup b.new
  <1>1. \A k, i : i \in 1..n => (k \in ChangeKeys(cs[i]) <=> \E r \in cs[i].old \cup cs[i].new : r.key = k)
    BY DEF ChangeKeys, KeysOf
  <1>2. c \in Changes /\ c.old \cap c.new = {} /\ c.old \subseteq t
    BY RowsOfChange
  <1>m. /\ 1..(m - 1) \subseteq 1..n /\ m \in 1..n
        /\ \A i : i \in 1..m <=> i \in 1..(m - 1) \/ i = m
    OBVIOUS
  <1>3. /\ \A i \in 1..n : \A k : i # m /\ k \in ChangeKeys(c) => k \notin ChangeKeys(cs[i])
        /\ \A r \in t : r.key \in ChangeKeys(c) => r \in c.old
        /\ \A r : r \in u <=> \/ r \in t /\ \A i \in 1..n : r \notin cs[i].old
                              \/ \E i \in 1..n : r \in cs[i].new
    <2>1. ASSUME NEW i \in 1..n, NEW k, i # m, k \in ChangeKeys(c), k \in ChangeKeys(cs[i]) PROVE FALSE
      <3>1. i < m \/ m < i
        BY <2>1
      <3>. QED BY <2>1, <3>1 DEF Separate
    <2>. QED BY <2>1 DEF Separate
  <1>4. ASSUME NEW r, r.key \in ChangeKeys(c) PROVE r \in s <=> r \in c.new
    <2>1. r \in s <=> r \in u
      <3>1. RowsAt(s, r.key) = RowsAt(u, r.key)
        BY <1>4
      <3>. QED BY <3>1 DEF RowsAt
    <2>2. r \in u => r \in c.new
      <3>. SUFFICES ASSUME r \in u PROVE r \in c.new
        OBVIOUS
      <3>1. CASE r \in t /\ \A i \in 1..n : r \notin cs[i].old
        BY <1>3, <1>4, <1>m, <3>1
      <3>2. CASE \E i \in 1..n : r \in cs[i].new
        <4>1. PICK i \in 1..n : r \in cs[i].new
          BY <3>2
        <4>2. r.key \in ChangeKeys(cs[i])
          BY <1>1, <4>1
        <4>. QED BY <1>3, <1>4, <4>1, <4>2
      <3>. QED BY <1>3, <3>1, <3>2
    <2>3. r \in c.new => r \in u
      BY <1>3, <1>m
    <2>. QED BY <2>1, <2>2, <2>3
  <1>5. \A r : r.key \in ChangeKeys(c) => ~\E i \in 1..(m - 1) : r.key \in ChangeKeys(cs[i])
    <2>. SUFFICES ASSUME NEW r, r.key \in ChangeKeys(c), NEW i \in 1..(m - 1), r.key \in ChangeKeys(cs[i]) PROVE FALSE
      OBVIOUS
    <2>1. i \in 1..n /\ i # m
      OBVIOUS
    <2>. QED BY <1>3, <2>1
  <1>6. \A r : r.key \in ChangeKeys(c) => (r \in v <=> r \in c.new)
    BY <1>4, <1>5 DEF Restored
  <1>7. \A r : r \in c.old \cup c.new => r.key \in ChangeKeys(c)
    BY <1>1, <1>m
  <1>. HIDE DEF c
  <1>8. b.old = c.new /\ b.new = c.old
    BY DEF c
  <1>9. Fits(b, v)
    <2>1. c.new \subseteq v
      BY <1>6, <1>7
    <2>2. \A y \in c.old, z \in v \ c.new : y.key # z.key
      BY <1>6, <1>7
    <2>. QED BY <1>8, <2>1, <2>2 DEF Fits, KeysOf
  <1>10. ASSUME NEW r
         PROVE  r \in x <=> IF \E i \in 1..m : r.key \in ChangeKeys(cs[i]) THEN r \in t ELSE r \in s
    <2>1. r \in x <=> (r \in v /\ r \notin c.new) \/ r \in c.old
      BY <1>8
    <2>2. CASE r.key \in ChangeKeys(c)
      <3>1. r \in x <=> r \in t
        BY <1>2, <1>3, <1>6, <2>1, <2>2
      <3>2. \E i \in 1..m : r.key \in ChangeKeys(cs[i])
        BY <1>m, <2>2 DEF c
      <3>. QED BY <3>1, <3>2
    <2>3. CASE r.key \notin ChangeKeys(c)
      <3>1. r \in x <=> r \in v
        BY <1>7, <2>1, <2>3
      <3>2. (\E i \in 1..m : r.key \in ChangeKeys(cs[i])) <=> \E i \in 1..(m - 1) : r.key \in ChangeKeys(cs[i])
        BY <1>m, <2>3 DEF c
      <3>. QED BY <3>1, <3>2 DEF Restored
    <2>. QED BY <2>2, <2>3
  <1>. QED BY <1>9, <1>10 DEF Restored

(* Turned round, a statement restores the keys of its changes wherever it  *)
(* has been made, and cannot be made where it has been undone.             *)
LEMMA BackwardsLemma ==
  ASSUME NEW t \in Tables, NEW n \in Nat \ {0}, NEW cs \in [1..n -> Changes], ~HandsOver(cs),
         \A i \in 1..n : cs[i].old \subseteq t, NEW u \in Tables, Outcome(cs, t) = {u}, NEW s \in Tables
  PROVE  /\ (\A k \in KeysNamed(cs) : RowsAt(s, k) = RowsAt(u, k)) =>
              /\ Outcome(Backwards(cs), s) # {}
              /\ \A x \in Outcome(Backwards(cs), s), k \in KeysNamed(cs) : RowsAt(x, k) = RowsAt(t, k)
         /\ (\A k \in KeysNamed(cs) : RowsAt(s, k) = RowsAt(t, k)) => Outcome(Backwards(cs), s) = {}
  <1>. DEFINE b  == Backwards(cs)
              st == Stages(b, s)
              P  == {i \in 0..n : \E v \in Tables : st[i] = {v} /\ Restored(cs, t, s, i, v)}
  <1>1. Separate(cs, t, n, u)
    <2>1. PICK v \in Tables : Outcome(cs, t) = {v} /\ Separate(cs, t, n, v)
      BY SeparateLemma
    <2>2. v = u
      BY <2>1
    <2>. QED BY <2>1, <2>2
  <1>2. /\ b \in [1..n -> Changes]
        /\ \A i \in 1..n : b[i] \in Changes /\ b[i].old = cs[i].new /\ b[i].new = cs[i].old
        /\ Len(b) = n
    BY BackwardsShape, NamedLemma
  <1>3. \A k : k \in KeysNamed(cs) <=> \E i \in 1..n : k \in ChangeKeys(cs[i])
    BY NamedLemma
  <1>4. /\ st[0] = {s} /\ st[n] = Outcome(b, s)
        /\ \A i \in 1..n : st[i] = Changed(b[i], st[i - 1])
    BY <1>2, StagesLemma DEF StagesTo, Outcome
  <1>. HIDE DEF b, st
  <1>5. ASSUME \A k \in KeysNamed(cs) : RowsAt(s, k) = RowsAt(u, k)
        PROVE  \E v \in Tables : Outcome(b, s) = {v} /\ Restored(cs, t, s, n, v)
    <2>1. 0 \in P
      <3>1. \A i : i \notin 1..0
        OBVIOUS
      <3>2. Restored(cs, t, s, 0, s)
        BY <3>1, Zenon DEF Restored
      <3>. QED BY <1>4, <3>2
    <2>2. ASSUME NEW i \in 1..n, i - 1 \in P PROVE i \in P
      <3>1. PICK v \in Tables : st[i - 1] = {v} /\ Restored(cs, t, s, i - 1, v)
        BY <2>2
      <3>2. \A j \in 1..n : \A k \in ChangeKeys(cs[j]) : RowsAt(s, k) = RowsAt(u, k)
        BY <1>3, <1>5
      <3>3. b[i] \in Changes /\ b[i].old = cs[i].new /\ b[i].new = cs[i].old
        BY <1>2
      <3>4. Fits(b[i], v) /\ Restored(cs, t, s, i, (v \ b[i].old) \cup b[i].new)
        BY <1>1, <3>1, <3>2, <3>3, RestoreStep
      <3>5. (v \ b[i].old) \cup b[i].new \in Tables
        BY <3>3, <3>4, ChangeLemma
      <3>6. st[i] = {(v \ b[i].old) \cup b[i].new}
        <4>1. st[i] = Changed(b[i], {v})
          BY <1>4, <3>1
        <4>2. Changed(b[i], {v}) = IF Fits(b[i], v) THEN {(v \ b[i].old) \cup b[i].new} ELSE {}
          BY ChangedLemma
        <4>. QED BY <3>4, <4>1, <4>2
      <3>7. \E x \in Tables : st[i] = {x} /\ Restored(cs, t, s, i, x)
        BY <3>4, <3>5, <3>6
      <3>. QED BY <3>7
    <2>3. n \in P
      <3>. HIDE DEF P
      <3>1. 0..n \subseteq P
        BY <2>1, <2>2, UpTo
      <3>. QED BY <3>1
    <2>. QED BY <1>4, <2>3
  <1>6. ASSUME NEW v, Restored(cs, t, s, n, v), NEW k \in KeysNamed(cs)
        PROVE  RowsAt(v, k) = RowsAt(t, k)
    <2>1. \A r : r.key = k => (r \in v <=> r \in t)
      BY <1>3, <1>6 DEF Restored
    <2>. QED BY <2>1 DEF RowsAt
  <1>7. ASSUME \A k \in KeysNamed(cs) : RowsAt(s, k) = RowsAt(t, k)
        PROVE  Outcome(b, s) = {}
    <2>1. ~Fits(b[1], s)
      <3>. DEFINE c == cs[1]
      <3>0. 1 \in 1..n /\ c \in Changes /\ b[1].old = c.new /\ b[1].new = c.old
        BY <1>2
      <3>1. \A r : r.key \in ChangeKeys(c) => (r \in s <=> r \in t) /\ (r \in t => r \in c.old)
        <4>. SUFFICES ASSUME NEW r, r.key \in ChangeKeys(c)
             PROVE  (r \in s <=> r \in t) /\ (r \in t => r \in c.old)
          OBVIOUS
        <4>1. RowsAt(s, r.key) = RowsAt(t, r.key)
          BY <1>3, <1>7, <3>0
        <4>2. r \in t => r \in c.old
          BY <1>1, <3>0 DEF Separate
        <4>. QED BY <4>1, <4>2 DEF RowsAt
      <3>2. \A r : r \in c.old \cup c.new => r.key \in ChangeKeys(c)
        BY DEF ChangeKeys, KeysOf
      <3>3. c.old \subseteq t /\ c.old \cap c.new = {} /\ c.old \cup c.new # {}
        BY <3>0, RowsOfChange
      <3>. HIDE DEF c
      <3>4. CASE c.new # {}
        <4>1. PICK x : x \in c.new
          BY <3>4
        <4>2. x \notin s
          BY <3>1, <3>2, <3>3, <4>1
        <4>. QED BY <3>0, <4>1, <4>2 DEF Fits
      <3>5. CASE c.new = {}
        <4>1. PICK y : y \in c.old
          BY <3>3, <3>5
        <4>2. y \in s \ c.new
          BY <3>1, <3>2, <3>3, <3>5, <4>1
        <4>3. y.key \in KeysOf(c.old) \cap KeysOf(s \ c.new)
          BY <4>1, <4>2 DEF KeysOf
        <4>. QED BY <3>0, <4>3 DEF Fits
      <3>. QED BY <3>4, <3>5
    <2>. SUFFICES ASSUME Outcome(b, s) # {} PROVE FALSE
      OBVIOUS
    <2>2. \A i \in 1..n : \A v \in Stages(b, s)[i - 1] : Fits(b[i], v)
      BY <1>2, MadeLemma
    <2>3. 1 \in 1..n /\ 1 - 1 = 0
      OBVIOUS
    <2>4. s \in Stages(b, s)[1 - 1]
      BY <1>4, <2>3 DEF st
    <2>. QED BY <2>1, <2>2, <2>3, <2>4
  <1>8. ASSUME \A k \in KeysNamed(cs) : RowsAt(s, k) = RowsAt(u, k)
        PROVE  /\ Outcome(b, s) # {}
               /\ \A x \in Outcome(b, s), k \in KeysNamed(cs) : RowsAt(x, k) = RowsAt(t, k)
    <2>1. PICK v \in Tables : Outcome(b, s) = {v} /\ Restored(cs, t, s, n, v)
      BY <1>5, <1>8
    <2>. QED BY <1>6, <2>1
  <1>. QED BY <1>7, <1>8 DEF b

(* MySQL: the event of a statement, and the operation that reverses it.    *)
OldRows(cs, images) ==
  [i \in DOMAIN cs |-> IF images = "full" THEN The(cs[i].old) ELSE KeyOnly(The(cs[i].old))]

NewRows(cs, images) ==
  [i \in DOMAIN cs |-> IF images = "full" \/ cs[i].old = {}
                       THEN The(cs[i].new)
                       ELSE ChangedOnly(The(cs[i].new), The(cs[i].old))]

LEMMA EventShape ==
  ASSUME NEW cs, NEW images
  PROVE  LET e == RowsEvent(cs, images)
         IN  /\ Operation(cs[1]) = "insert" =>
                  e.type = "write" /\ e.rows = NewRows(cs, images) /\ ~e.error
             /\ Operation(cs[1]) = "delete" =>
                  e.type = "delete" /\ e.rows = OldRows(cs, images) /\ ~e.error
             /\ Operation(cs[1]) = "update" =>
                  /\ e.type = "update" /\ ~e.error
                  /\ e.before = OldRows(cs, images) /\ e.after = NewRows(cs, images)
             /\ Undecoded(e).error = TRUE
  <1>1. RowsEvent(cs, images) =
          CASE Operation(cs[1]) = "insert" -> [EmptyEvent EXCEPT !.rows = NewRows(cs, images)]
            [] Operation(cs[1]) = "delete" -> [EmptyEvent EXCEPT !.type = "delete", !.rows = OldRows(cs, images)]
            [] OTHER -> [EmptyEvent EXCEPT !.type = "update", !.before = OldRows(cs, images), !.after = NewRows(cs, images)]
    BY DEF RowsEvent, OldRows, NewRows
  <1>2. Operation(cs[1]) = "insert" => RowsEvent(cs, images) = [EmptyEvent EXCEPT !.rows = NewRows(cs, images)]
    BY <1>1
  <1>4. Operation(cs[1]) = "delete" =>
          RowsEvent(cs, images) = [EmptyEvent EXCEPT !.type = "delete", !.rows = OldRows(cs, images)]
    BY <1>1
  <1>5. Operation(cs[1]) = "update" =>
          RowsEvent(cs, images) = [EmptyEvent EXCEPT !.type = "update", !.before = OldRows(cs, images), !.after = NewRows(cs, images)]
    BY <1>1
  <1>6. Undecoded(RowsEvent(cs, images)).error = TRUE
    BY DEF Undecoded, EmptyEvent
  <1>7. ASSUME Operation(cs[1]) = "insert"
        PROVE  LET e == RowsEvent(cs, images) IN e.type = "write" /\ e.rows = NewRows(cs, images) /\ ~e.error
    BY <1>2, <1>7 DEF EmptyEvent
  <1>8. ASSUME Operation(cs[1]) = "delete"
        PROVE  LET e == RowsEvent(cs, images) IN e.type = "delete" /\ e.rows = OldRows(cs, images) /\ ~e.error
    BY <1>4, <1>8 DEF EmptyEvent
  <1>9. ASSUME Operation(cs[1]) = "update"
        PROVE  LET e == RowsEvent(cs, images)
               IN  e.type = "update" /\ ~e.error /\ e.before = OldRows(cs, images) /\ e.after = NewRows(cs, images)
    BY <1>5, <1>9 DEF EmptyEvent
  <1>. QED BY <1>6, <1>7, <1>8, <1>9

(* A reversed event holds the rows it was given, all of them complete.     *)
LEMMA ReverseRowsLemma ==
  ASSUME NEW type, NEW rows, NEW before, NEW after, NEW op \in ReverseRows(type, rows, before, after)
  PROVE  /\ op.type = type /\ op.rows = rows /\ op.before = before /\ op.after = after
         /\ CompleteRows(rows) /\ CompleteRows(before) /\ CompleteRows(after)
  BY DEF ReverseRows

(* Only whole images are complete.                                         *)
LEMMA IncompleteLemma ==
  ASSUME NEW n \in Nat \ {0}, NEW cs \in [1..n -> Changes], NEW images, images # "full",
         \E o \in Rows : cs[1].old = {o}
  PROVE  ~CompleteRows(OldRows(cs, images))
  <1>1. PICK o \in Rows : cs[1].old = {o}
    OBVIOUS
  <1>2. The(cs[1].old) = o
    BY <1>1 DEF The
  <1>3. 1 \in 1..n /\ DOMAIN OldRows(cs, images) = 1..n /\ OldRows(cs, images)[1] = KeyOnly(o)
    <2>1. 1 \in 1..n /\ DOMAIN cs = 1..n
      OBVIOUS
    <2>2. OldRows(cs, images) = [i \in 1..n |-> IF images = "full" THEN The(cs[i].old) ELSE KeyOnly(The(cs[i].old))]
      BY <2>1 DEF OldRows
    <2>. QED BY <1>2, <2>1, <2>2
  <1>4. KeyOnly(o)["val"] = Skipped
    BY NewRowLemma
  <1>. QED BY <1>3, <1>4 DEF CompleteRows, Columns

LEMMA MySQLOperations ==
  ASSUME NEW n \in Nat \ {0}, NEW cs \in [1..n -> Changes], \A i \in 1..n : Operation(cs[i]) = Operation(cs[1]),
         NEW images, NEW event \in {RowsEvent(cs, images), Undecoded(RowsEvent(cs, images))},
         NEW op \in ReverseEvent(event), NEW s
  PROVE  ReplayRows(op, s) = Outcome(Backwards(cs), s)
  <1>. DEFINE old == OldRows(cs, images)
              new == NewRows(cs, images)
              e == RowsEvent(cs, images)
  <1>0. event = e /\ ~e.error
    <2>1. ~event.error
      BY DEF ReverseEvent
    <2>. QED BY <2>1, EventShape
  <1>1. /\ DOMAIN cs = 1..n /\ DOMAIN old = 1..n /\ DOMAIN new = 1..n
        /\ Backwards(cs) = [i \in 1..n |-> [old |-> cs[i].new, new |-> cs[i].old]]
        /\ images = "full" => \A i \in 1..n : old[i] = The(cs[i].old) /\ new[i] = The(cs[i].new)
    BY DEF OldRows, NewRows, Backwards
  <1>2. \A i \in 1..n : cs[i] \in Changes /\ Operation(cs[i]) = Operation(cs[1])
    OBVIOUS
  <1>3. \A x : The({x}) = x
    BY DEF The
  <1>4. op \in (CASE e.type = "write"  -> ReverseRows("delete", e.rows, <<>>, <<>>)
                  [] e.type = "delete" -> ReverseRows("write", e.rows, <<>>, <<>>)
                  [] e.type = "update" -> IF e.before = <<>> \/ Len(e.before) # Len(e.after)
                                          THEN {}
                                          ELSE ReverseRows("update", <<>>, e.after, e.before))
    BY <1>0 DEF ReverseEvent
  <1>i. 1 \in 1..n
    OBVIOUS
  <1>. HIDE DEF old, new, e
  <1>5. CASE Operation(cs[1]) = "insert"
    <2>1. e.type = "write" /\ e.rows = new
      BY <1>5, EventShape DEF e, new
    <2>2. op.type = "delete" /\ op.rows = new
      BY <1>4, <2>1, ReverseRowsLemma
    <2>3. ReplayRows(op, s) = Outcome([i \in DOMAIN new |-> [old |-> {new[i]}, new |-> {}]], s)
      BY <2>2 DEF ReplayRows
    <2>4. \A i \in 1..n : {new[i]} = cs[i].new /\ cs[i].old = {}
      <3>. SUFFICES ASSUME NEW i \in 1..n PROVE {new[i]} = cs[i].new /\ cs[i].old = {}
        OBVIOUS
      <3>1. PICK x \in Rows : cs[i].old = {} /\ cs[i].new = {x}
        BY <1>2, <1>5, ChangeShape
      <3>2. new[i] = The(cs[i].new)
        BY <3>1 DEF new, NewRows
      <3>. QED BY <1>3, <3>1, <3>2
    <2>5. [i \in DOMAIN new |-> [old |-> {new[i]}, new |-> {}]] = Backwards(cs)
      BY <1>1, <2>4
    <2>. QED BY <2>3, <2>5
  <1>6. CASE Operation(cs[1]) = "delete"
    <2>1. e.type = "delete" /\ e.rows = old
      BY <1>6, EventShape DEF e, old
    <2>2. op.type = "write" /\ op.rows = old /\ CompleteRows(old)
      BY <1>4, <2>1, ReverseRowsLemma
    <2>3. ReplayRows(op, s) = Outcome([i \in DOMAIN old |-> [old |-> {}, new |-> {old[i]}]], s)
      BY <2>2 DEF ReplayRows
    <2>f. images = "full"
      <3>1. \E o \in Rows : cs[1].old = {o}
        BY <1>2, <1>6, <1>i, ChangeShape
      <3>. QED BY <2>2, <3>1, IncompleteLemma DEF old
    <2>4. \A i \in 1..n : {old[i]} = cs[i].old /\ cs[i].new = {}
      <3>. SUFFICES ASSUME NEW i \in 1..n PROVE {old[i]} = cs[i].old /\ cs[i].new = {}
        OBVIOUS
      <3>1. PICK x \in Rows : cs[i].new = {} /\ cs[i].old = {x}
        BY <1>2, <1>6, ChangeShape
      <3>. QED BY <1>1, <1>3, <2>f, <3>1
    <2>5. [i \in DOMAIN old |-> [old |-> {}, new |-> {old[i]}]] = Backwards(cs)
      BY <1>1, <2>4
    <2>. QED BY <2>3, <2>5
  <1>7. CASE Operation(cs[1]) = "update"
    <2>1. e.type = "update" /\ e.before = old /\ e.after = new
      BY <1>7, EventShape DEF e, old, new
    <2>2. op.type = "update" /\ op.before = new /\ op.after = old /\ CompleteRows(old)
      <3>1. op \in ReverseRows("update", <<>>, new, old)
        BY <1>4, <2>1
      <3>. QED BY <3>1, ReverseRowsLemma
    <2>3. ReplayRows(op, s) = Outcome([i \in DOMAIN new |-> [old |-> {new[i]}, new |-> {old[i]}]], s)
      BY <2>2 DEF ReplayRows
    <2>f. images = "full"
      <3>1. \E o \in Rows : cs[1].old = {o}
        BY <1>2, <1>7, <1>i, ChangeShape
      <3>. QED BY <2>2, <3>1, IncompleteLemma DEF old
    <2>4. \A i \in 1..n : {old[i]} = cs[i].old /\ {new[i]} = cs[i].new
      <3>. SUFFICES ASSUME NEW i \in 1..n PROVE {old[i]} = cs[i].old /\ {new[i]} = cs[i].new
        OBVIOUS
      <3>1. PICK x, y \in Rows : cs[i].old = {x} /\ cs[i].new = {y}
        BY <1>2, <1>7, ChangeShape
      <3>. QED BY <1>1, <1>3, <2>f, <3>1
    <2>5. [i \in DOMAIN new |-> [old |-> {new[i]}, new |-> {old[i]}]] = Backwards(cs)
      BY <1>1, <2>4
    <2>. QED BY <2>3, <2>5
  <1>8. Operation(cs[1]) \in {"insert", "delete", "update"}
    BY <1>2, <1>i, ChangeShape
  <1>. QED BY <1>5, <1>6, <1>7, <1>8

(* MySQL: ReverseEvent and ReplayRows.                                     *)
LEMMA MySQLLemma ==
  ASSUME NEW t \in Tables, NEW images \in RowImages, NEW w \in MySQLWrites(t, images)
  PROVE  /\ ChangesRow(w, t)
         /\ \A op \in ReverseEvent(w.event), s \in Tables : UndoesRow(w, t, s, ReplayRows(op, s))
  <1>1. PICK cs \in Statements(t) : \E event \in {RowsEvent(cs, images), Undecoded(RowsEvent(cs, images))} :
          w = [event |-> event, after |-> The(Outcome(cs, t)),
               keys |-> UNION {KeysOf(cs[i].old \cup cs[i].new) : i \in DOMAIN cs}, unsafe |-> HandsOver(cs)]
    BY Zenon DEF MySQLWrites
  <1>2. /\ w.event \in {RowsEvent(cs, images), Undecoded(RowsEvent(cs, images))}
        /\ w.after = The(Outcome(cs, t)) /\ w.keys = KeysNamed(cs)
        /\ w.unsafe <=> HandsOver(cs)
    BY <1>1 DEF KeysNamed
  <1>3. PICK n \in Nat \ {0} : cs \in [1..n -> Changes]
    BY MaxRowsAssumption DEF Statements
  <1>4. /\ \A i \in 1..n : cs[i].old \subseteq t /\ Operation(cs[i]) = Operation(cs[1])
        /\ Outcome(cs, t) # {}
    BY <1>3 DEF Statements
  <1>5. PICK u \in Tables : Outcome(cs, t) = {u}
    <2>1. \A i \in 0..n : \E u \in Tables : Stages(cs, t)[i] = {u}
      BY <1>3, <1>4, MadeLemma
    <2>2. n \in 0..n /\ Len(cs) = n
      BY <1>3, NamedLemma
    <2>. QED BY <2>1, <2>2 DEF Outcome
  <1>6. w.after = u
    BY <1>2, <1>5 DEF The
  <1>7. ChangesRow(w, t)
    <2>1. KeysNamed(cs) \subseteq Keys /\ KeysNamed(cs) # {}
      BY <1>3, NamedLemma
    <2>2. \A k : k \notin KeysNamed(cs) => RowsAt(u, k) = RowsAt(t, k)
      BY <1>3, <1>5, FrameLemma
    <2>. QED BY <1>2, <1>6, <2>1, <2>2 DEF ChangesRow
  <1>8. ASSUME NEW op \in ReverseEvent(w.event), NEW s \in Tables
        PROVE  UndoesRow(w, t, s, ReplayRows(op, s))
    <2>1. ReplayRows(op, s) = Outcome(Backwards(cs), s)
      BY <1>2, <1>3, <1>4, MySQLOperations
    <2>2. Backwards(cs) \in [1..n -> Changes] /\ KeysNamed(Backwards(cs)) = KeysNamed(cs)
      BY <1>3, BackwardsShape
    <2>3. \A v \in Outcome(Backwards(cs), s) : v \in Tables /\ \A k \in Keys \ w.keys : RowsAt(v, k) = RowsAt(s, k)
      BY <1>2, <1>3, <2>2, FrameLemma
    <2>4. ~HandsOver(cs) =>
            /\ (\A k \in KeysNamed(cs) : RowsAt(s, k) = RowsAt(u, k)) =>
                 /\ Outcome(Backwards(cs), s) # {}
                 /\ \A x \in Outcome(Backwards(cs), s), k \in KeysNamed(cs) : RowsAt(x, k) = RowsAt(t, k)
            /\ (\A k \in KeysNamed(cs) : RowsAt(s, k) = RowsAt(t, k)) => Outcome(Backwards(cs), s) = {}
      BY <1>3, <1>4, <1>5, BackwardsLemma
    <2>. QED BY <1>2, <1>6, <2>1, <2>3, <2>4, Zenon DEF UndoesRow
  <1>. QED BY <1>7, <1>8

----------------------------------------------------------------------------------
(* The commands of a reversed command of Redis.                            *)

Names == {"list", "num", "hash"}

UndoesKey(w, t, s, outcomes) ==
  /\ \A u \in outcomes : u \in Stores /\ \A k \in Names \ w.keys : u[k] = s[k]
  /\ ~w.unsafe /\ (\A k \in w.keys : s[k] = w.after[k]) =>
       outcomes # {} /\ \A u \in outcomes, k \in w.keys : u[k] = t[k]

ChangesKey(w, t) ==
  /\ w.after \in Stores /\ w.keys \subseteq Names /\ w.keys # {}
  /\ \A k \in Names \ w.keys : w.after[k] = t[k]

(* Lists are sequences within a bound, also reversed.                      *)
LEMMA ListShape ==
  /\ \A n \in Nat : \A l : l \in SeqOf(Elements, n) <=> l \in Seq(Elements) /\ Len(l) <= n
  /\ \A l \in Seq(Elements) : Reverse(l) \in Seq(Elements) /\ Len(Reverse(l)) = Len(l)
  <1>1. ASSUME NEW n \in Nat, NEW l
        PROVE  l \in SeqOf(Elements, n) <=> l \in Seq(Elements) /\ Len(l) <= n
    <2>1. l \in SeqOf(Elements, n) <=> \E m \in 0..n : l \in [1..m -> Elements]
      BY DEF SeqOf
    <2>2. ASSUME NEW m \in 0..n, l \in [1..m -> Elements] PROVE l \in Seq(Elements) /\ Len(l) <= n
      BY <2>2
    <2>3. ASSUME l \in Seq(Elements), Len(l) <= n PROVE Len(l) \in 0..n /\ l \in [1..Len(l) -> Elements]
      BY <2>3
    <2>. QED BY <2>1, <2>2, <2>3
  <1>2. ASSUME NEW l \in Seq(Elements) PROVE Reverse(l) \in Seq(Elements) /\ Len(Reverse(l)) = Len(l)
    <2>1. \A i \in 1..Len(l) : l[(Len(l) - i) + 1] \in Elements
      BY <1>2
    <2>2. Reverse(l) \in [1..Len(l) -> Elements]
      BY <2>1 DEF Reverse
    <2>. QED BY <2>2
  <1>. QED BY <1>1, <1>2

(* What was pushed is popped.                                              *)
LEMMA PopLemma ==
  ASSUME NEW l \in Seq(Elements), NEW v \in Seq(Elements)
  PROVE  /\ SubSeq(v \o l, Least(Len(v), Len(v \o l)) + 1, Len(v \o l)) = l
         /\ SubSeq(l \o v, 1, Len(l \o v) - Least(Len(v), Len(l \o v))) = l
  <1>1. /\ Len(v \o l) = Len(v) + Len(l) /\ Len(l \o v) = Len(l) + Len(v)
        /\ v \o l \in Seq(Elements) /\ l \o v \in Seq(Elements)
        /\ \A i \in 1..Len(l) : (l \o v)[i] = l[i] /\ (v \o l)[Len(v) + i] = l[i]
        /\ Len(v) \in Nat /\ Len(l) \in Nat
    BY ConcatProperties
  <1>2. Least(Len(v), Len(v \o l)) = Len(v) /\ Least(Len(v), Len(l \o v)) = Len(v)
    BY <1>1 DEF Least
  <1>3. SubSeq(v \o l, Len(v) + 1, Len(v) + Len(l)) = l
    <2>1. /\ SubSeq(v \o l, Len(v) + 1, Len(v) + Len(l)) \in Seq(Elements)
          /\ Len(SubSeq(v \o l, Len(v) + 1, Len(v) + Len(l))) = Len(l)
          /\ \A i \in 1..Len(l) : SubSeq(v \o l, Len(v) + 1, Len(v) + Len(l))[i] = (v \o l)[Len(v) + i]
      BY <1>1, SubSeqProperties
    <2>. QED BY <1>1, <2>1, SeqEqual
  <1>4. SubSeq(l \o v, 1, Len(l)) = l
    <2>1. /\ SubSeq(l \o v, 1, Len(l)) \in Seq(Elements)
          /\ Len(SubSeq(l \o v, 1, Len(l))) = Len(l)
          /\ \A i \in 1..Len(l) : SubSeq(l \o v, 1, Len(l))[i] = (l \o v)[i]
      BY <1>1, SubSeqProperties
    <2>. QED BY <1>1, <2>1, SeqEqual
  <1>5. (Len(l) + Len(v)) - Len(v) = Len(l)
    BY <1>1
  <1>. QED BY <1>1, <1>2, <1>3, <1>4, <1>5

(* Popping leaves a list no longer than it was.                            *)
LEMMA ShorterLemma ==
  ASSUME NEW l \in SeqOf(Elements, MaxList), NEW n \in Nat
  PROVE  /\ SubSeq(l, Least(n, Len(l)) + 1, Len(l)) \in SeqOf(Elements, MaxList)
         /\ SubSeq(l, 1, Len(l) - Least(n, Len(l))) \in SeqOf(Elements, MaxList)
  <1>1. l \in Seq(Elements) /\ Len(l) <= MaxList /\ Len(l) \in Nat /\ MaxList \in Nat
    BY ListShape, WidthAssumption
  <1>2. Least(n, Len(l)) \in 0..Len(l)
    BY <1>1 DEF Least
  <1>3. ASSUME NEW a \in Int, NEW b \in Int, 1 <= a, b <= Len(l)
        PROVE  SubSeq(l, a, b) \in SeqOf(Elements, MaxList)
    <2>1. \A i \in a..b : l[i] \in Elements
      BY <1>1, <1>3
    <2>2. SubSeq(l, a, b) \in Seq(Elements) /\ Len(SubSeq(l, a, b)) = IF a <= b THEN b - a + 1 ELSE 0
      BY <2>1, SubSeqProperties
    <2>3. Len(SubSeq(l, a, b)) <= MaxList
      BY <1>1, <1>3, <2>2
    <2>. QED BY <1>1, <2>2, <2>3, ListShape
  <1>4. /\ Least(n, Len(l)) + 1 \in Int /\ 1 <= Least(n, Len(l)) + 1
        /\ Len(l) - Least(n, Len(l)) \in Int /\ Len(l) - Least(n, Len(l)) <= Len(l)
        /\ Len(l) \in Int /\ 1 \in Int /\ Len(l) <= Len(l) /\ 1 <= 1
    BY <1>1, <1>2
  <1>5. SubSeq(l, Least(n, Len(l)) + 1, Len(l)) \in SeqOf(Elements, MaxList)
    BY <1>3, <1>4
  <1>6. SubSeq(l, 1, Len(l) - Least(n, Len(l))) \in SeqOf(Elements, MaxList)
    BY <1>3, <1>4
  <1>. QED BY <1>5, <1>6

(* The text of an integer and its negation.                                *)
LEMMA TextLemma ==
  ASSUME NEW n \in Ints
  PROVE  /\ Text(n).negative <=> n < 0
         /\ Text(n).digits = IF n < 0 THEN -n ELSE n
         /\ Negate(Text(n)).negative <=> ~(n < 0)
         /\ Negate(Text(n)).digits = IF n < 0 THEN -n ELSE n
  <1>1. Text(n).negative = (n < 0) /\ Text(n).digits = IF n < 0 THEN -n ELSE n
    BY DEF Text
  <1>2. "negative" \in DOMAIN Text(n) /\ "digits" \in DOMAIN Text(n)
    BY DEF Text
  <1>3. Negate(Text(n)).negative = ~Text(n).negative
    BY <1>2 DEF Negate
  <1>4. Negate(Text(n)).digits = Text(n).digits
    BY <1>2 DEF Negate
  <1>5. Negate(Text(n)).negative = ~(n < 0)
    BY <1>1, <1>3, Zenon
  <1>. QED BY <1>1, <1>4, <1>5

(* What Redis reads from them.                                             *)
LEMMA NumberLemma ==
  ASSUME NEW n \in Ints
  PROVE  /\ Width \in Nat \ {0} /\ n \in Int /\ Lowest = -Width /\ Highest = Width - 1 /\ Lowest <= n /\ n <= Highest
         /\ IsInteger(Text(n)) /\ NumberOf(Text(n)) = n
         /\ NumberOf(Negate(Text(n))) = -n
         /\ n \notin {0, Lowest} => IsInteger(Negate(Text(n)))
  <1>0. Width \in Nat \ {0} /\ n \in Int /\ -Width <= n /\ n <= Width - 1
    BY WidthAssumption DEF Ints, Lowest, Highest
  <1>1. ASSUME NEW text, NEW b \in Nat, text.digits = b
        PROVE  /\ text.negative => NumberOf(text) = -b /\ (IsInteger(text) <=> b \in 1..Width)
               /\ ~text.negative => NumberOf(text) = b /\ (IsInteger(text) <=> b \in 0..Highest)
    BY <1>1 DEF IsInteger, NumberOf
  <1>. DEFINE b == IF n < 0 THEN -n ELSE n
  <1>2. b \in Nat /\ Text(n).digits = b /\ Negate(Text(n)).digits = b
    BY <1>0, TextLemma
  <1>3. /\ n < 0 => NumberOf(Text(n)) = -b /\ (IsInteger(Text(n)) <=> b \in 1..Width)
        /\ ~(n < 0) => NumberOf(Text(n)) = b /\ (IsInteger(Text(n)) <=> b \in 0..Highest)
        /\ ~(n < 0) => NumberOf(Negate(Text(n))) = -b /\ (IsInteger(Negate(Text(n))) <=> b \in 1..Width)
        /\ n < 0 => NumberOf(Negate(Text(n))) = b /\ (IsInteger(Negate(Text(n))) <=> b \in 0..Highest)
    BY <1>1, <1>2, TextLemma
  <1>. QED BY <1>0, <1>3 DEF Lowest, Highest

(* Assigning to one key of a store.                                        *)
LEMMA StoreShape ==
  /\ \A s \in Stores : /\ s.list \in SeqOf(Elements, MaxList) /\ s.num \in Ints /\ s.hash \in Ints
                       /\ s["list"] = s.list /\ s["num"] = s.num /\ s["hash"] = s.hash
  /\ \A s \in Stores, l \in SeqOf(Elements, MaxList) :
       /\ [s EXCEPT !.list = l] \in Stores /\ [s EXCEPT !.list = l].list = l
       /\ [s EXCEPT !.list = l].num = s.num /\ [s EXCEPT !.list = l].hash = s.hash
  /\ \A s \in Stores, n \in Ints :
       /\ [s EXCEPT !.num = n] \in Stores /\ [s EXCEPT !.num = n].num = n
       /\ [s EXCEPT !.num = n].list = s.list /\ [s EXCEPT !.num = n].hash = s.hash
       /\ [s EXCEPT !.hash = n] \in Stores /\ [s EXCEPT !.hash = n].hash = n
       /\ [s EXCEPT !.hash = n].list = s.list /\ [s EXCEPT !.hash = n].num = s.num
  BY DEF Stores

(* It leaves the other keys alone.                                         *)
LEMMA StoreFrame ==
  ASSUME NEW s \in Stores, NEW x
  PROVE  /\ \A k \in Names \ {"list"} : [s EXCEPT !.list = x][k] = s[k]
         /\ \A k \in Names \ {"num"} : [s EXCEPT !.num = x][k] = s[k]
         /\ \A k \in Names \ {"hash"} : [s EXCEPT !.hash = x][k] = s[k]
  <1>1. Names = DOMAIN s
    BY DEF Stores, Names
  <1>. QED BY <1>1

(* A counter moves within its bounds, and the opposite moves it back.      *)
LEMMA CountedLemma ==
  ASSUME NEW c, NEW op, NEW d \in Int, Added(c) = {d}, Added(op) = {-d}, NEW n \in Ints, NEW m \in Counted(c, n)
  PROVE  Counted(op, m) = {n}
  <1>1. m = n + d /\ m \in Ints /\ n \in Int
    BY NumberLemma DEF Counted
  <1>2. m + (-d) = n
    BY <1>1
  <1>. QED BY <1>1, <1>2 DEF Counted

NumOutcomes(c, s)  == {[s EXCEPT !.num = n] : n \in Counted(c, s.num)}
HashOutcomes(c, s) == {[s EXCEPT !.hash = n] : n \in Counted(c, s.hash)}

(* What a command of each name does, and to which key.                     *)
LEMMA ExecuteLemma ==
  ASSUME NEW c, NEW s \in Stores
  PROVE  /\ c.name \in {"incr", "decr", "incrby", "decrby"} => Execute(c, s) = NumOutcomes(c, s) /\ KeyOf(c) = "num"
         /\ c.name = "hincrby" => Execute(c, s) = HashOutcomes(c, s) /\ KeyOf(c) = "hash"
         /\ c.name = "lpush" => Execute(c, s) = {[s EXCEPT !.list = Reverse(c.values) \o s.list]} /\ KeyOf(c) = "list"
         /\ c.name = "rpush" => Execute(c, s) = {[s EXCEPT !.list = s.list \o c.values]} /\ KeyOf(c) = "list"
         /\ c.name = "lpop" =>
              Execute(c, s) = {[s EXCEPT !.list = SubSeq(s.list, Least(c.count, Len(s.list)) + 1, Len(s.list))]}
         /\ c.name = "rpop" =>
              Execute(c, s) = {[s EXCEPT !.list = SubSeq(s.list, 1, Len(s.list) - Least(c.count, Len(s.list)))]}
         /\ c.name = "set" => Execute(c, s) = {[s EXCEPT !.num = NumberOf(c.delta)]} /\ KeyOf(c) = "num"
         /\ c.name = "lpop" => KeyOf(c) = "list"
  BY DEF Execute, KeyOf, NumOutcomes, HashOutcomes

(* A write to a counter is undone by a command that adds the opposite.     *)
LEMMA CounterLemma ==
  ASSUME NEW t \in Stores, NEW s \in Stores, NEW c, NEW op, NEW w, NEW d \in Int, Added(c) = {d},
         ~w.unsafe => Added(op) = {-d}
  PROVE  /\ w.keys = {"num"} /\ w.after \in NumOutcomes(c, t) => UndoesKey(w, t, s, NumOutcomes(op, s))
         /\ w.keys = {"hash"} /\ w.after \in HashOutcomes(c, t) => UndoesKey(w, t, s, HashOutcomes(op, s))
  <1>c. \A n : Counted(op, n) \subseteq Ints
    BY DEF Counted
  <1>1. ASSUME w.keys = {"num"}, w.after \in NumOutcomes(c, t)
        PROVE  UndoesKey(w, t, s, NumOutcomes(op, s))
    <2>1. \A u \in NumOutcomes(op, s) : u \in Stores /\ \A k \in Names \ w.keys : u[k] = s[k]
      <3>. SUFFICES ASSUME NEW u \in NumOutcomes(op, s)
                    PROVE  u \in Stores /\ \A k \in Names \ w.keys : u[k] = s[k]
        OBVIOUS
      <3>1. PICK n \in Ints : u = [s EXCEPT !.num = n]
        BY <1>c DEF NumOutcomes
      <3>2. \A k \in Names \ {"num"} : [s EXCEPT !.num = n][k] = s[k]
        BY StoreFrame
      <3>. QED BY <1>1, <3>1, <3>2, StoreShape
    <2>2. ASSUME ~w.unsafe, s["num"] = w.after["num"]
          PROVE  NumOutcomes(op, s) = {[s EXCEPT !.num = t.num]}
      <3>1. PICK m \in Counted(c, t.num) : w.after = [t EXCEPT !.num = m]
        BY <1>1 DEF NumOutcomes
      <3>2. s.num = m
        BY <2>2, <3>1, StoreShape DEF Counted
      <3>3. t.num \in Ints
        BY StoreShape
      <3>4. Counted(op, s.num) = {t.num}
        BY <2>2, <3>1, <3>2, <3>3, CountedLemma
      <3>. QED BY <3>4 DEF NumOutcomes
    <2>3. [s EXCEPT !.num = t.num]["num"] = t["num"]
      BY StoreShape
    <2>. QED BY <1>1, <2>1, <2>2, <2>3 DEF UndoesKey
  <1>2. ASSUME w.keys = {"hash"}, w.after \in HashOutcomes(c, t)
        PROVE  UndoesKey(w, t, s, HashOutcomes(op, s))
    <2>1. \A u \in HashOutcomes(op, s) : u \in Stores /\ \A k \in Names \ w.keys : u[k] = s[k]
      <3>. SUFFICES ASSUME NEW u \in HashOutcomes(op, s)
                    PROVE  u \in Stores /\ \A k \in Names \ w.keys : u[k] = s[k]
        OBVIOUS
      <3>1. PICK n \in Ints : u = [s EXCEPT !.hash = n]
        BY <1>c DEF HashOutcomes
      <3>2. \A k \in Names \ {"hash"} : [s EXCEPT !.hash = n][k] = s[k]
        BY StoreFrame
      <3>. QED BY <1>2, <3>1, <3>2, StoreShape
    <2>2. ASSUME ~w.unsafe, s["hash"] = w.after["hash"]
          PROVE  HashOutcomes(op, s) = {[s EXCEPT !.hash = t.hash]}
      <3>1. PICK m \in Counted(c, t.hash) : w.after = [t EXCEPT !.hash = m]
        BY <1>2 DEF HashOutcomes
      <3>2. s.hash = m
        BY <2>2, <3>1, StoreShape DEF Counted
      <3>3. t.hash \in Ints
        BY StoreShape
      <3>4. Counted(op, s.hash) = {t.hash}
        BY <2>2, <3>1, <3>2, <3>3, CountedLemma
      <3>. QED BY <3>4 DEF HashOutcomes
    <2>3. [s EXCEPT !.hash = t.hash]["hash"] = t["hash"]
      BY StoreShape
    <2>. QED BY <1>2, <2>1, <2>2, <2>3 DEF UndoesKey
  <1>. QED BY <1>1, <1>2

(* A push is undone by a pop of as many elements.                          *)
LEMMA PushLemma ==
  ASSUME NEW t \in Stores, NEW s \in Stores, NEW v \in Seq(Elements), NEW w, w.keys = {"list"}
  PROVE  /\ w.after = [t EXCEPT !.list = v \o t.list] /\ w.after \in Stores =>
              UndoesKey(w, t, s, {[s EXCEPT !.list = SubSeq(s.list, Least(Len(v), Len(s.list)) + 1, Len(s.list))]})
         /\ w.after = [t EXCEPT !.list = t.list \o v] /\ w.after \in Stores =>
              UndoesKey(w, t, s, {[s EXCEPT !.list = SubSeq(s.list, 1, Len(s.list) - Least(Len(v), Len(s.list)))]})
  <1>1. t.list \in Seq(Elements) /\ s.list \in SeqOf(Elements, MaxList) /\ Len(v) \in Nat
    BY StoreShape, ListShape, WidthAssumption
  <1>2. ASSUME NEW new, NEW pop \in SeqOf(Elements, MaxList), w.after = [t EXCEPT !.list = new],
               s.list = new => pop = t.list
        PROVE  UndoesKey(w, t, s, {[s EXCEPT !.list = pop]})
    <2>1. w.after["list"] = new
      BY <1>2 DEF Stores
    <2>2. /\ [s EXCEPT !.list = pop] \in Stores /\ [s EXCEPT !.list = pop]["list"] = pop
          /\ \A k \in Names \ {"list"} : [s EXCEPT !.list = pop][k] = s[k]
      <3>1. \A k \in Names \ {"list"} : [s EXCEPT !.list = pop][k] = s[k]
        BY StoreFrame
      <3>2. [s EXCEPT !.list = pop] \in Stores /\ [s EXCEPT !.list = pop].list = pop
        BY StoreShape
      <3>. QED BY <3>1, <3>2
    <2>3. t["list"] = t.list /\ s["list"] = s.list
      OBVIOUS
    <2>4. w.keys = {"list"}
      OBVIOUS
    <2>. QED BY <1>2, <2>1, <2>2, <2>3, <2>4 DEF UndoesKey
  <1>3. /\ SubSeq(s.list, Least(Len(v), Len(s.list)) + 1, Len(s.list)) \in SeqOf(Elements, MaxList)
        /\ SubSeq(s.list, 1, Len(s.list) - Least(Len(v), Len(s.list))) \in SeqOf(Elements, MaxList)
    BY <1>1, ShorterLemma
  <1>4. /\ s.list = v \o t.list => SubSeq(s.list, Least(Len(v), Len(s.list)) + 1, Len(s.list)) = t.list
        /\ s.list = t.list \o v => SubSeq(s.list, 1, Len(s.list) - Least(Len(v), Len(s.list))) = t.list
    BY <1>1, PopLemma
  <1>. QED BY <1>2, <1>3, <1>4

(* The commands of clients.                                                *)
LEMMA CommandShape ==
  ASSUME NEW c \in Commands
  PROVE  \/ c.name \in {"lpush", "rpush"} /\ c.values \in Seq(Elements) /\ c.values # <<>>
         \/ c.name = "lpop"
         \/ c.name \in {"incr", "decr"}
         \/ c.name \in {"set", "incrby", "decrby", "hincrby"} /\ \E n \in Ints : c.delta = Text(n)
  <1>1. CASE c \in {Push(name, values) : name \in {"lpush", "rpush"}, values \in SeqOf(Elements, 2) \ {<<>>}}
    <2>1. PICK name \in {"lpush", "rpush"}, values \in SeqOf(Elements, 2) \ {<<>>} : c = Push(name, values)
      BY <1>1
    <2>2. values \in Seq(Elements)
      BY ListShape
    <2>. QED BY <2>1, <2>2 DEF Push
  <1>2. CASE c \in {Pop("lpop", 1)}
    BY <1>2 DEF Pop
  <1>3. CASE c \in {Count(name, Text(1)) : name \in {"incr", "decr"}}
    BY <1>3 DEF Count
  <1>4. CASE c \in {Count(name, Text(n)) : name \in {"set", "incrby", "decrby", "hincrby"}, n \in Ints}
    BY <1>4 DEF Count
  <1>. QED BY <1>1, <1>2, <1>3, <1>4 DEF Commands

(* What a command adds, and what the command that undoes it adds.          *)
LEMMA AddedLemma ==
  ASSUME NEW c \in Commands, NEW after, NEW t \in Stores, after \in Execute(c, t), NEW op \in ReverseCommand(c)
  PROVE  \/ c.name \in {"lpush", "rpush"} /\ op = Pop(IF c.name = "lpush" THEN "lpop" ELSE "rpop", Len(c.values))
         \/ /\ c.name \in {"incr", "decr", "incrby", "decrby", "hincrby"}
            /\ IF c.name = "hincrby" THEN op.name = "hincrby" ELSE op.name \in {"incr", "decr", "incrby", "decrby"}
            /\ \E d \in Int : Added(c) = {d} /\ (~HasNoOpposite(c) => Added(op) = {-d})
  <1>1. CASE c.name \in {"lpush", "rpush"}
    BY <1>1, CommandShape DEF ReverseCommand
  <1>2. CASE c.name \in {"lpop", "set"}
    BY <1>2 DEF ReverseCommand
  <1>3. CASE c.name \in {"incr", "decr"}
    <2>1. op = Count(IF c.name = "incr" THEN "decr" ELSE "incr", c.delta)
      BY <1>3 DEF ReverseCommand
    <2>2. op.name = IF c.name = "incr" THEN "decr" ELSE "incr"
      BY <2>1 DEF Count
    <2>3. Added(c) = {IF c.name = "incr" THEN 1 ELSE -1} /\ Added(op) = {IF c.name = "incr" THEN -1 ELSE 1}
      BY <1>3, <2>2 DEF Added
    <2>. DEFINE d == IF c.name = "incr" THEN 1 ELSE -1
    <2>4. d \in Int /\ Added(c) = {d} /\ Added(op) = {-d}
      BY <2>3
    <2>. HIDE DEF d
    <2>. QED BY <1>3, <2>2, <2>4
  <1>4. CASE c.name \in {"incrby", "decrby"}
    <2>1. PICK n \in Ints : c.delta = Text(n)
      BY <1>4, CommandShape
    <2>2. op = Count(IF c.name = "incrby" THEN "decrby" ELSE "incrby", Text(n))
      BY <1>4, <2>1 DEF ReverseCommand
    <2>3. op.name = (IF c.name = "incrby" THEN "decrby" ELSE "incrby") /\ op.delta = Text(n)
      BY <2>2 DEF Count
    <2>4. {u \in {Text(n)} : IsInteger(u)} = {Text(n)}
      BY NumberLemma
    <2>5. n # Lowest => {u \in {Text(n)} : IsInteger(u) /\ NumberOf(u) # Lowest} = {Text(n)}
      BY NumberLemma
    <2>6. n = Lowest => {u \in {Text(n)} : IsInteger(u) /\ NumberOf(u) # Lowest} = {}
      BY NumberLemma
    <2>7. CASE c.name = "incrby"
      <3>1. Added(c) = {n}
        BY <2>1, <2>4, <2>7, NumberLemma DEF Added
      <3>2. n # Lowest => Added(op) = {-n}
        BY <2>3, <2>5, <2>7, NumberLemma DEF Added
      <3>3. ~HasNoOpposite(c) => n # Lowest
        BY <2>1, <2>7, NumberLemma DEF HasNoOpposite
      <3>. QED BY <2>3, <2>7, <3>1, <3>2, <3>3, NumberLemma
    <2>8. CASE c.name = "decrby"
      <3>1. n # Lowest
        <4>1. Counted(c, t.num) # {}
          <5>1. Execute(c, t) = NumOutcomes(c, t)
            BY <2>8, ExecuteLemma
          <5>2. after \in NumOutcomes(c, t)
            BY <5>1
          <5>. QED BY <5>2 DEF NumOutcomes
        <4>2. Added(c) # {}
          BY <4>1 DEF Counted
        <4>. QED BY <2>1, <2>6, <2>8, <4>2 DEF Added
      <3>2. Added(c) = {-n} /\ -n \in Int
        BY <2>1, <2>5, <2>8, <3>1, NumberLemma DEF Added
      <3>3. Added(op) = {n} /\ -(-n) = n
        BY <2>3, <2>4, <2>8, NumberLemma DEF Added
      <3>. QED BY <2>3, <2>8, <3>2, <3>3
    <2>. QED BY <1>4, <2>7, <2>8
  <1>5. CASE c.name = "hincrby"
    <2>1. PICK n \in Ints : c.delta = Text(n)
      BY <1>5, CommandShape
    <2>2. op = Count("hincrby", Negate(Text(n)))
      BY <1>5, <2>1 DEF ReverseCommand
    <2>3. op.name = "hincrby" /\ op.delta = Negate(Text(n))
      BY <2>2 DEF Count
    <2>4. Added(c) = {n}
      <3>1. {u \in {Text(n)} : IsInteger(u)} = {Text(n)}
        BY NumberLemma
      <3>. QED BY <1>5, <2>1, <3>1, NumberLemma DEF Added
    <2>5. ~HasNoOpposite(c) => Added(op) = {-n}
      <3>. SUFFICES ASSUME ~HasNoOpposite(c) PROVE Added(op) = {-n}
        OBVIOUS
      <3>1. n \notin {0, Lowest}
        BY <1>5, <2>1, NumberLemma DEF HasNoOpposite
      <3>2. {u \in {Negate(Text(n))} : IsInteger(u)} = {Negate(Text(n))}
        BY <3>1, NumberLemma
      <3>. QED BY <2>3, <3>2, NumberLemma DEF Added
    <2>. QED BY <1>5, <2>3, <2>4, <2>5, NumberLemma
  <1>. QED BY <1>1, <1>2, <1>3, <1>4, <1>5, CommandShape

(* Redis: ReverseCommand and Execute.                                      *)
LEMMA RedisLemma ==
  ASSUME NEW t \in Stores, NEW w \in RedisWrites(t)
  PROVE  /\ ChangesKey(w, t)
         /\ \A op \in ReverseCommand(w.event), s \in Stores : UndoesKey(w, t, s, Execute(op, s))
  <1>0. PICK c \in Commands :
          w \in {[event |-> c, after |-> after, keys |-> {KeyOf(c)}, unsafe |-> HasNoOpposite(c)]
                 : after \in Execute(c, t) \cap Stores}
    BY Zenon DEF RedisWrites
  <1>1. PICK after \in Execute(c, t) \cap Stores :
          w = [event |-> c, after |-> after, keys |-> {KeyOf(c)}, unsafe |-> HasNoOpposite(c)]
    BY <1>0
  <1>2. /\ w.event = c /\ w.after = after /\ w.keys = {KeyOf(c)}
        /\ w.unsafe <=> HasNoOpposite(c)
    BY <1>1
  <1>3. ChangesKey(w, t)
    <2>1. KeyOf(c) \in Names
      BY DEF KeyOf, Names
    <2>2. \E x : \/ KeyOf(c) = "list" /\ after = [t EXCEPT !.list = x]
                 \/ KeyOf(c) = "num" /\ after = [t EXCEPT !.num = x]
                 \/ KeyOf(c) = "hash" /\ after = [t EXCEPT !.hash = x]
      <3>1. CASE c.name \in {"lpush", "rpush", "lpop"}
        <4>1. CASE c.name = "lpush"
          <5>1. after = [t EXCEPT !.list = Reverse(c.values) \o t.list] /\ KeyOf(c) = "list"
            <6>1. Execute(c, t) = {[t EXCEPT !.list = Reverse(c.values) \o t.list]} /\ KeyOf(c) = "list"
              BY <4>1, ExecuteLemma
            <6>. QED BY <6>1
          <5>. QED BY <5>1
        <4>2. CASE c.name = "rpush"
          <5>1. after = [t EXCEPT !.list = t.list \o c.values] /\ KeyOf(c) = "list"
            <6>1. Execute(c, t) = {[t EXCEPT !.list = t.list \o c.values]} /\ KeyOf(c) = "list"
              BY <4>2, ExecuteLemma
            <6>. QED BY <6>1
          <5>. QED BY <5>1
        <4>3. CASE c.name = "lpop"
          <5>1. after = [t EXCEPT !.list = SubSeq(t.list, Least(c.count, Len(t.list)) + 1, Len(t.list))] /\ KeyOf(c) = "list"
            <6>1. Execute(c, t) = {[t EXCEPT !.list = SubSeq(t.list, Least(c.count, Len(t.list)) + 1, Len(t.list))]} /\ KeyOf(c) = "list"
              BY <4>3, ExecuteLemma
            <6>. QED BY <6>1
          <5>. QED BY <5>1
        <4>. QED BY <3>1, <4>1, <4>2, <4>3
      <3>2. CASE c.name \in {"incr", "decr", "incrby", "decrby"}
        <4>1. after \in NumOutcomes(c, t) /\ KeyOf(c) = "num"
          BY <3>2, ExecuteLemma
        <4>. QED BY <4>1 DEF NumOutcomes
      <3>3. CASE c.name = "hincrby"
        <4>1. after \in HashOutcomes(c, t) /\ KeyOf(c) = "hash"
          BY <3>3, ExecuteLemma
        <4>. QED BY <4>1 DEF HashOutcomes
      <3>4. CASE c.name = "set"
        <4>1. after = [t EXCEPT !.num = NumberOf(c.delta)] /\ KeyOf(c) = "num"
          <5>1. Execute(c, t) = {[t EXCEPT !.num = NumberOf(c.delta)]} /\ KeyOf(c) = "num"
            BY <3>4, ExecuteLemma
          <5>. QED BY <5>1
        <4>. QED BY <4>1
      <3>. QED BY <3>1, <3>2, <3>3, <3>4, CommandShape
    <2>3. \A k \in Names \ {KeyOf(c)} : after[k] = t[k]
      <3>1. PICK x : \/ KeyOf(c) = "list" /\ after = [t EXCEPT !.list = x]
                     \/ KeyOf(c) = "num" /\ after = [t EXCEPT !.num = x]
                     \/ KeyOf(c) = "hash" /\ after = [t EXCEPT !.hash = x]
        BY <2>2
      <3>2. /\ \A k \in Names \ {"list"} : [t EXCEPT !.list = x][k] = t[k]
            /\ \A k \in Names \ {"num"} : [t EXCEPT !.num = x][k] = t[k]
            /\ \A k \in Names \ {"hash"} : [t EXCEPT !.hash = x][k] = t[k]
        BY StoreFrame
      <3>. QED BY <3>1, <3>2
    <2>. QED BY <1>2, <2>1, <2>3 DEF ChangesKey
  <1>4. ASSUME NEW op \in ReverseCommand(w.event), NEW s \in Stores
        PROVE  UndoesKey(w, t, s, Execute(op, s))
    <2>0. op \in ReverseCommand(c)
      BY <1>2, <1>4
    <2>1. CASE c.name \in {"lpush", "rpush"}
      <3>1. /\ op = Pop(IF c.name = "lpush" THEN "lpop" ELSE "rpop", Len(c.values))
            /\ c.values \in Seq(Elements)
        BY <2>0, <2>1, AddedLemma, CommandShape
      <3>2. op.name = (IF c.name = "lpush" THEN "lpop" ELSE "rpop") /\ op.count = Len(c.values)
        BY <3>1 DEF Pop
      <3>3. KeyOf(c) = "list"
        BY <2>1 DEF KeyOf
      <3>4. CASE c.name = "lpush"
        <4>1. Reverse(c.values) \in Seq(Elements) /\ op.count = Len(Reverse(c.values))
          BY <3>1, <3>2, ListShape
        <4>2. w.after = [t EXCEPT !.list = Reverse(c.values) \o t.list] /\ w.after \in Stores
          <5>1. Execute(c, t) = {[t EXCEPT !.list = Reverse(c.values) \o t.list]}
            BY <3>4, ExecuteLemma
          <5>. QED BY <1>2, <5>1
        <4>3. Execute(op, s) = {[s EXCEPT !.list = SubSeq(s.list, Least(op.count, Len(s.list)) + 1, Len(s.list))]}
          BY <3>2, <3>4, ExecuteLemma
        <4>. DEFINE v == Reverse(c.values)
        <4>4. UndoesKey(w, t, s, {[s EXCEPT !.list = SubSeq(s.list, Least(Len(v), Len(s.list)) + 1, Len(s.list))]})
          <5>1. v \in Seq(Elements) /\ w.keys = {"list"} /\ w.after = [t EXCEPT !.list = v \o t.list] /\ w.after \in Stores
            BY <1>2, <3>3, <4>1, <4>2
          <5>. HIDE DEF v
          <5>. QED BY <5>1, PushLemma
        <4>. QED BY <4>1, <4>3, <4>4
      <3>5. CASE c.name = "rpush"
        <4>1. op.count = Len(c.values)
          BY <3>2
        <4>2. w.after = [t EXCEPT !.list = t.list \o c.values] /\ w.after \in Stores
          <5>1. Execute(c, t) = {[t EXCEPT !.list = t.list \o c.values]}
            BY <3>5, ExecuteLemma
          <5>. QED BY <1>2, <5>1
        <4>3. Execute(op, s) = {[s EXCEPT !.list = SubSeq(s.list, 1, Len(s.list) - Least(op.count, Len(s.list)))]}
          BY <3>2, <3>5, ExecuteLemma
        <4>. DEFINE v == c.values
        <4>4. UndoesKey(w, t, s, {[s EXCEPT !.list = SubSeq(s.list, 1, Len(s.list) - Least(Len(v), Len(s.list)))]})
          <5>1. v \in Seq(Elements) /\ w.keys = {"list"} /\ w.after = [t EXCEPT !.list = t.list \o v] /\ w.after \in Stores
            BY <1>2, <3>1, <3>3, <4>2
          <5>. HIDE DEF v
          <5>. QED BY <5>1, PushLemma
        <4>. QED BY <4>1, <4>3, <4>4
      <3>. QED BY <2>1, <3>4, <3>5
    <2>2. CASE ~(c.name \in {"lpush", "rpush"})
      <3>1. /\ c.name \in {"incr", "decr", "incrby", "decrby", "hincrby"}
            /\ IF c.name = "hincrby" THEN op.name = "hincrby" ELSE op.name \in {"incr", "decr", "incrby", "decrby"}
        BY <2>0, <2>2, AddedLemma
      <3>2. PICK d \in Int : Added(c) = {d} /\ (~HasNoOpposite(c) => Added(op) = {-d})
        BY <2>0, <2>2, AddedLemma
      <3>3. ~w.unsafe => Added(op) = {-d}
        BY <1>2, <3>2
      <3>4. CASE c.name = "hincrby"
        <4>1. Execute(op, s) = HashOutcomes(op, s) /\ w.keys = {"hash"} /\ w.after \in HashOutcomes(c, t)
          BY <1>2, <3>1, <3>4, ExecuteLemma
        <4>. QED BY <3>2, <3>3, <4>1, CounterLemma
      <3>5. CASE c.name # "hincrby"
        <4>1. Execute(op, s) = NumOutcomes(op, s) /\ w.keys = {"num"} /\ w.after \in NumOutcomes(c, t)
          BY <1>2, <3>1, <3>5, ExecuteLemma
        <4>. QED BY <3>2, <3>3, <4>1, CounterLemma
      <3>. QED BY <3>4, <3>5
    <2>. QED BY <2>1, <2>2
  <1>. QED BY <1>3, <1>4

----------------------------------------------------------------------------------
(* The operators of Rollback, of the product p and of states given to them.*)

StoresOf(p)  == IF p[1] = "redis" THEN Stores ELSE Tables
KeysIn(p)    == IF p[1] = "redis" THEN {"list", "num", "hash"} ELSE Keys
AtIn(p, s, k) == IF p[1] = "redis" THEN s[k] ELSE {r \in s : r.key = k}

WritesOf(p, s) ==
  CASE p[1] = "mysql"    -> MySQLWrites(s, p[2])
    [] p[1] = "postgres" -> PostgresWrites(s, p[2])
    [] p[1] = "mongo"    -> MongoWrites(s, p[2])
    [] p[1] = "redis"    -> RedisWrites(s)

ReverseIn(p, event) ==
  CASE p[1] = "mysql"    -> ReverseEvent(event)
    [] p[1] = "postgres" -> ReverseChange(event)
    [] p[1] = "mongo"    -> ReverseDocument(event)
    [] p[1] = "redis"    -> ReverseCommand(event)

ReplaysIn(p, operation, s) ==
  CASE p[1] = "mysql"    -> ReplayRows(operation, s)
    [] p[1] = "postgres" -> ExecuteSQL(operation, s)
    [] p[1] = "mongo"    -> ExecuteCommand(operation, s)
    [] p[1] = "redis"    -> Execute(operation, s)

Entry(w) == [event |-> w.event, keys |-> w.keys, unsafe |-> w.unsafe]

LostIn(p, entries) == {i \in DOMAIN entries : entries[i].unsafe \/ ReverseIn(p, entries[i].event) = {}}

ClosedIn(entries, keys) ==
  \A i \in DOMAIN entries : entries[i].keys \cap keys # {} => entries[i].keys \subseteq keys

TaintedIn(p, entries) ==
  {k \in KeysIn(p) : \A keys \in SUBSET KeysIn(p) :
     ClosedIn(entries, keys) /\ (\A i \in LostIn(p, entries) : entries[i].keys \subseteq keys) => k \in keys}

(* They are what Rollback says of its own variables.                       *)
LEMMA Parameters ==
  /\ Writes = WritesOf(product, store)
  /\ AllStores = StoresOf(product)
  /\ AllKeys = KeysIn(product)
  /\ Tainted = TaintedIn(product, log)
  /\ Untainted = KeysIn(product) \ TaintedIn(product, log)
  /\ \A s, k : At(s, k) = AtIn(product, s, k)
  /\ \A event : ReverseOf(event) = ReverseIn(product, event)
  /\ \A operation : Replayed(operation) = ReplaysIn(product, operation, store)
  <1>1. Writes = WritesOf(product, store)
    BY DEF Writes, WritesOf, Driver, Setting
  <1>2. AllStores = StoresOf(product)
    BY DEF AllStores, StoresOf, Driver
  <1>3. AllKeys = KeysIn(product)
    BY DEF AllKeys, KeysIn, Driver
  <1>4. \A event : ReverseOf(event) = ReverseIn(product, event)
    BY DEF ReverseOf, ReverseIn, Driver
  <1>5. \A operation : Replayed(operation) = ReplaysIn(product, operation, store)
    BY DEF Replayed, ReplaysIn, Driver
  <1>6. \A s, k : At(s, k) = AtIn(product, s, k)
    BY DEF At, AtIn, Driver
  <1>7. Lost = LostIn(product, log)
    BY <1>4 DEF Lost, LostIn
  <1>8. Tainted = TaintedIn(product, log)
    BY <1>3, <1>7 DEF Tainted, TaintedIn, Closed, ClosedIn
  <1>. QED BY <1>1, <1>2, <1>3, <1>4, <1>5, <1>6, <1>8 DEF Untainted

(* A replay of the step of w on s, which other states agree with.          *)
Undoes(p, w, t, operation, s) ==
  /\ \A u \in ReplaysIn(p, operation, s) :
       u \in StoresOf(p) /\ \A k \in KeysIn(p) \ w.keys : AtIn(p, u, k) = AtIn(p, s, k)
  /\ ~w.unsafe /\ (\A k \in w.keys : AtIn(p, s, k) = AtIn(p, w.after, k)) =>
       /\ ReplaysIn(p, operation, s) # {}
       /\ \A u \in ReplaysIn(p, operation, s), k \in w.keys : AtIn(p, u, k) = AtIn(p, t, k)
  /\ ~w.unsafe /\ p[1] # "redis" /\ (\A k \in w.keys : AtIn(p, s, k) = AtIn(p, t, k)) =>
       \A u \in ReplaysIn(p, operation, s), k \in w.keys : AtIn(p, u, k) = AtIn(p, t, k)

(* What MySQLLemma, PostgresLemma, MongoLemma and RedisLemma say, for any  *)
(* product.                                                                *)
LEMMA UndoLemma ==
  ASSUME NEW p \in Products, p[1] \in Drivers, NEW t \in StoresOf(p), NEW w \in WritesOf(p, t)
  PROVE  /\ w.after \in StoresOf(p) /\ w.keys \subseteq KeysIn(p) /\ w.keys # {}
         /\ \A k \in KeysIn(p) \ w.keys : AtIn(p, w.after, k) = AtIn(p, t, k)
         /\ \A operation \in ReverseIn(p, w.event), s \in StoresOf(p) : Undoes(p, w, t, operation, s)
  <1>0. \/ p[1] = "mysql" /\ p[2] \in RowImages
        \/ p[1] = "postgres" /\ p[2] \in Identities
        \/ p[1] = "mongo" /\ p[2] \in Captures
        \/ p[1] = "redis"
    BY DEF Products
  <1>t. p[1] # "redis" => /\ StoresOf(p) = Tables /\ KeysIn(p) = Keys
                          /\ \A s, k : AtIn(p, s, k) = RowsAt(s, k)
    BY DEF StoresOf, KeysIn, AtIn, RowsAt
  <1>1. CASE p[1] = "postgres" /\ p[2] \in Identities
    <2>1. /\ WritesOf(p, t) = PostgresWrites(t, p[2])
          /\ \A event : ReverseIn(p, event) = ReverseChange(event)
          /\ \A operation, s : ReplaysIn(p, operation, s) = ExecuteSQL(operation, s)
      BY <1>1 DEF WritesOf, ReverseIn, ReplaysIn
    <2>2. /\ ChangesRow(w, t)
          /\ \A sql \in ReverseChange(w.event), s \in Tables : UndoesRow(w, t, s, ExecuteSQL(sql, s))
      BY <1>1, <1>t, <2>1, PostgresLemma
    <2>3. ASSUME NEW operation \in ReverseIn(p, w.event), NEW s \in StoresOf(p)
          PROVE  Undoes(p, w, t, operation, s)
      <3>1. UndoesRow(w, t, s, ReplaysIn(p, operation, s))
        BY <1>1, <1>t, <2>1, <2>2
      <3>. QED BY <1>1, <1>t, <3>1 DEF Undoes, UndoesRow
    <2>. QED BY <1>1, <1>t, <2>2, <2>3 DEF ChangesRow
  <1>2. CASE p[1] = "mongo" /\ p[2] \in Captures
    <2>1. /\ WritesOf(p, t) = MongoWrites(t, p[2])
          /\ \A event : ReverseIn(p, event) = ReverseDocument(event)
          /\ \A operation, s : ReplaysIn(p, operation, s) = ExecuteCommand(operation, s)
      BY <1>2 DEF WritesOf, ReverseIn, ReplaysIn
    <2>2. /\ ChangesRow(w, t)
          /\ \A command \in ReverseDocument(w.event), s \in Tables : UndoesRow(w, t, s, ExecuteCommand(command, s))
      BY <1>2, <1>t, <2>1, MongoLemma
    <2>3. ASSUME NEW operation \in ReverseIn(p, w.event), NEW s \in StoresOf(p)
          PROVE  Undoes(p, w, t, operation, s)
      <3>1. UndoesRow(w, t, s, ReplaysIn(p, operation, s))
        BY <1>2, <1>t, <2>1, <2>2
      <3>. QED BY <1>2, <1>t, <3>1 DEF Undoes, UndoesRow
    <2>. QED BY <1>2, <1>t, <2>2, <2>3 DEF ChangesRow
  <1>3. CASE p[1] = "redis"
    <2>1. /\ WritesOf(p, t) = RedisWrites(t)
          /\ \A event : ReverseIn(p, event) = ReverseCommand(event)
          /\ \A operation, s : ReplaysIn(p, operation, s) = Execute(operation, s)
          /\ StoresOf(p) = Stores /\ KeysIn(p) = Names
          /\ \A s, k : AtIn(p, s, k) = s[k]
      BY <1>3 DEF WritesOf, ReverseIn, ReplaysIn, StoresOf, KeysIn, AtIn, Names
    <2>2. /\ ChangesKey(w, t)
          /\ \A op \in ReverseCommand(w.event), s \in Stores : UndoesKey(w, t, s, Execute(op, s))
      BY <2>1, RedisLemma
    <2>3. ASSUME NEW operation \in ReverseIn(p, w.event), NEW s \in StoresOf(p)
          PROVE  Undoes(p, w, t, operation, s)
      <3>1. UndoesKey(w, t, s, ReplaysIn(p, operation, s))
        BY <2>1, <2>2
      <3>. QED BY <1>3, <2>1, <3>1 DEF Undoes, UndoesKey
    <2>. QED BY <2>1, <2>2, <2>3 DEF ChangesKey
  <1>4. CASE p[1] = "mysql" /\ p[2] \in RowImages
    <2>1. /\ WritesOf(p, t) = MySQLWrites(t, p[2])
          /\ \A event : ReverseIn(p, event) = ReverseEvent(event)
          /\ \A operation, s : ReplaysIn(p, operation, s) = ReplayRows(operation, s)
      BY <1>4 DEF WritesOf, ReverseIn, ReplaysIn
    <2>2. /\ ChangesRow(w, t)
          /\ \A op \in ReverseEvent(w.event), s \in Tables : UndoesRow(w, t, s, ReplayRows(op, s))
      BY <1>4, <1>t, <2>1, MySQLLemma
    <2>3. ASSUME NEW operation \in ReverseIn(p, w.event), NEW s \in StoresOf(p)
          PROVE  Undoes(p, w, t, operation, s)
      <3>1. UndoesRow(w, t, s, ReplaysIn(p, operation, s))
        BY <1>4, <1>t, <2>1, <2>2
      <3>. QED BY <1>4, <1>t, <3>1 DEF Undoes, UndoesRow
    <2>. QED BY <1>4, <1>t, <2>2, <2>3 DEF ChangesRow
  <1>. QED BY <1>0, <1>1, <1>2, <1>3, <1>4

----------------------------------------------------------------------------------
(* Windows, and what their steps do to the keys no lost write reached.     *)

Entries(p) == UNION {{Entry(w) : w \in WritesOf(p, s)} : s \in StoresOf(p)}

(* A key no write of a part of the window names is the same after it.      *)
Framed(p, entries, stores) ==
  \A a, b \in 1..Len(stores), k \in KeysIn(p) :
    a <= b /\ (\A i \in a..(b - 1) : k \notin entries[i].keys) =>
      AtIn(p, stores[a], k) = AtIn(p, stores[b], k)

Window(p, entries, stores) ==
  /\ entries \in Seq(Entries(p)) /\ stores \in Seq(StoresOf(p)) /\ Len(stores) = Len(entries) + 1
  /\ \A i \in 1..Len(entries) : \E w \in WritesOf(p, stores[i]) :
       w.after = stores[i + 1] /\ entries[i] = Entry(w)
  /\ Framed(p, entries, stores)

(* A write makes a window longer.                                          *)
LEMMA WindowLemma ==
  ASSUME NEW p \in Products, p[1] \in Drivers, NEW entries, NEW stores, Window(p, entries, stores),
         NEW w \in WritesOf(p, stores[Len(stores)])
  PROVE  Window(p, Append(entries, Entry(w)), Append(stores, w.after))
  <1>. DEFINE n      == Len(entries)
              logged == Append(entries, Entry(w))
              kept   == Append(stores, w.after)
  <1>1. n \in Nat /\ entries \in Seq(Entries(p)) /\ stores \in Seq(StoresOf(p)) /\ Len(stores) = n + 1
        /\ stores[n + 1] \in StoresOf(p)
    BY DEF Window
  <1>2. /\ w.after \in StoresOf(p) /\ w.keys \subseteq KeysIn(p)
        /\ \A k \in KeysIn(p) \ w.keys : AtIn(p, w.after, k) = AtIn(p, stores[n + 1], k)
    BY <1>1, UndoLemma
  <1>3. Entry(w) \in Entries(p)
    BY <1>1 DEF Entries
  <1>4. /\ logged \in Seq(Entries(p)) /\ Len(logged) = n + 1
        /\ \A i \in 1..n : logged[i] = entries[i]
        /\ logged[n + 1] = Entry(w)
    BY <1>1, <1>3, AppendProperties
  <1>5. /\ kept \in Seq(StoresOf(p)) /\ Len(kept) = n + 2
        /\ \A i \in 1..(n + 1) : kept[i] = stores[i]
        /\ kept[n + 2] = w.after
    BY <1>1, <1>2, AppendProperties
  <1>6. w.keys = logged[n + 1].keys
    BY <1>4 DEF Entry
  <1>. HIDE DEF logged, kept
  <1>7. ASSUME NEW i \in 1..Len(logged)
        PROVE  \E v \in WritesOf(p, kept[i]) : v.after = kept[i + 1] /\ logged[i] = Entry(v)
    <2>1. CASE i = n + 1
      BY <1>1, <1>4, <1>5, <2>1
    <2>2. CASE i # n + 1
      <3>1. i \in 1..n /\ i \in 1..(n + 1) /\ i + 1 \in 1..(n + 1)
        BY <1>1, <1>4, <2>2
      <3>2. \E v \in WritesOf(p, stores[i]) : v.after = stores[i + 1] /\ entries[i] = Entry(v)
        BY <3>1 DEF Window
      <3>. QED BY <1>4, <1>5, <3>1, <3>2
    <2>. QED BY <2>1, <2>2
  <1>8. ASSUME NEW a \in 1..Len(kept), NEW b \in 1..Len(kept), NEW k \in KeysIn(p), a <= b,
               \A i \in a..(b - 1) : k \notin logged[i].keys
        PROVE  AtIn(p, kept[a], k) = AtIn(p, kept[b], k)
    <2>0. ASSUME NEW c \in 1..(n + 1), a <= c, c <= b
          PROVE  AtIn(p, kept[a], k) = AtIn(p, kept[c], k)
      <3>1. a \in 1..Len(stores) /\ c \in 1..Len(stores) /\ a \in 1..(n + 1)
        BY <1>1, <1>5, <2>0
      <3>2. \A i \in a..(c - 1) : k \notin entries[i].keys
        <4>. SUFFICES ASSUME NEW i \in a..(c - 1) PROVE k \notin entries[i].keys
          OBVIOUS
        <4>1. i \in 1..n /\ i \in a..(b - 1)
          BY <1>1, <1>5, <2>0
        <4>. QED BY <1>4, <1>8, <4>1
      <3>3. AtIn(p, stores[a], k) = AtIn(p, stores[c], k)
        BY <2>0, <3>1, <3>2 DEF Window, Framed
      <3>. QED BY <1>5, <3>1, <3>3
    <2>1. CASE b # n + 2
      <3>1. b \in 1..(n + 1) /\ b <= b
        BY <1>1, <1>5, <2>1
      <3>. QED BY <1>8, <2>0, <3>1
    <2>2. CASE b = n + 2 /\ a # n + 2
      <3>1. n + 1 \in 1..(n + 1) /\ a <= n + 1 /\ n + 1 <= b /\ n + 1 \in a..(b - 1)
        BY <1>1, <1>5, <1>8, <2>2
      <3>2. AtIn(p, kept[a], k) = AtIn(p, kept[n + 1], k)
        BY <2>0, <3>1
      <3>3. k \notin w.keys
        BY <1>6, <1>8, <3>1
      <3>. QED BY <1>2, <1>5, <2>2, <3>1, <3>2, <3>3
    <2>3. CASE b = n + 2 /\ a = n + 2
      BY <2>3
    <2>. QED BY <2>1, <2>2, <2>3
  <1>9. Framed(p, logged, kept)
    BY <1>8 DEF Framed
  <1>10. Len(kept) = Len(logged) + 1
    BY <1>1, <1>4, <1>5
  <1>. QED BY <1>4, <1>5, <1>7, <1>9, <1>10 DEF Window, logged, kept

(* Each write names untainted keys only, and is not lost, or tainted ones. *)
LEMMA TaintLemma ==
  ASSUME NEW p, NEW entries, NEW i \in DOMAIN entries, entries[i].keys \subseteq KeysIn(p)
  PROVE  /\ i \in LostIn(p, entries) => entries[i].keys \subseteq TaintedIn(p, entries)
         /\ entries[i].keys \cap TaintedIn(p, entries) # {} => entries[i].keys \subseteq TaintedIn(p, entries)
  BY DEF TaintedIn, ClosedIn

Agree(p, entries, s, u) ==
  \A k \in KeysIn(p) \ TaintedIn(p, entries) : AtIn(p, s, k) = AtIn(p, u, k)

(* A replay takes the keys no lost write reached one write back.           *)
LEMMA ReplayLemma ==
  ASSUME NEW p \in Products, p[1] \in Drivers, NEW entries, NEW stores, Window(p, entries, stores),
         NEW s \in StoresOf(p), NEW m \in 1..Len(entries), NEW operation \in ReverseIn(p, entries[m].event)
  PROVE  /\ \A u \in ReplaysIn(p, operation, s) :
              /\ u \in StoresOf(p)
              /\ Agree(p, entries, s, stores[m + 1]) \/ (p[1] # "redis" /\ Agree(p, entries, s, stores[m])) =>
                   Agree(p, entries, u, stores[m])
         /\ entries[m].keys \cap TaintedIn(p, entries) = {} /\ Agree(p, entries, s, stores[m + 1]) =>
              ReplaysIn(p, operation, s) # {}
  <1>1. PICK w \in WritesOf(p, stores[m]) : w.after = stores[m + 1] /\ entries[m] = Entry(w)
    BY DEF Window
  <1>2. entries[m].event = w.event /\ entries[m].keys = w.keys /\ entries[m].unsafe = w.unsafe
    BY <1>1 DEF Entry
  <1>3. stores[m] \in StoresOf(p) /\ m \in DOMAIN entries
    BY DEF Window
  <1>4. /\ w.keys \subseteq KeysIn(p) /\ w.keys # {}
        /\ \A k \in KeysIn(p) \ w.keys : AtIn(p, stores[m + 1], k) = AtIn(p, stores[m], k)
        /\ Undoes(p, w, stores[m], operation, s)
    BY <1>1, <1>2, <1>3, UndoLemma
  <1>5. /\ m \in LostIn(p, entries) => w.keys \subseteq TaintedIn(p, entries)
        /\ w.keys \cap TaintedIn(p, entries) # {} => w.keys \subseteq TaintedIn(p, entries)
    BY <1>2, <1>3, <1>4, TaintLemma
  <1>6. w.keys \cap TaintedIn(p, entries) = {} => ~w.unsafe
    BY <1>2, <1>3, <1>4, <1>5 DEF LostIn
  <1>7. ASSUME NEW u \in ReplaysIn(p, operation, s)
        PROVE  /\ u \in StoresOf(p)
               /\ Agree(p, entries, s, stores[m + 1]) \/ (p[1] # "redis" /\ Agree(p, entries, s, stores[m])) =>
                    Agree(p, entries, u, stores[m])
    <2>1. u \in StoresOf(p) /\ \A k \in KeysIn(p) \ w.keys : AtIn(p, u, k) = AtIn(p, s, k)
      BY <1>4 DEF Undoes
    <2>2. ASSUME Agree(p, entries, s, stores[m + 1]) \/ (p[1] # "redis" /\ Agree(p, entries, s, stores[m])),
                 NEW k \in KeysIn(p) \ TaintedIn(p, entries)
          PROVE  AtIn(p, u, k) = AtIn(p, stores[m], k)
      <3>1. CASE k \notin w.keys
        BY <1>4, <2>1, <2>2, <3>1 DEF Agree
      <3>2. CASE k \in w.keys
        <4>1. w.keys \cap TaintedIn(p, entries) = {} /\ ~w.unsafe
          BY <1>5, <1>6, <3>2
        <4>2. w.keys \subseteq KeysIn(p) \ TaintedIn(p, entries)
          BY <1>4, <4>1
        <4>. QED BY <1>1, <1>4, <2>2, <3>2, <4>1, <4>2 DEF Agree, Undoes
      <3>. QED BY <3>1, <3>2
    <2>. QED BY <2>1, <2>2 DEF Agree
  <1>8. ASSUME w.keys \cap TaintedIn(p, entries) = {}, Agree(p, entries, s, stores[m + 1])
        PROVE  ReplaysIn(p, operation, s) # {}
    <2>1. ~w.unsafe /\ w.keys \subseteq KeysIn(p) \ TaintedIn(p, entries)
      BY <1>4, <1>6, <1>8
    <2>. QED BY <1>1, <1>4, <1>8, <2>1 DEF Agree, Undoes
  <1>. QED BY <1>2, <1>7, <1>8

(* Writes without a step change no untainted key.                          *)
LEMMA SkipLemma ==
  ASSUME NEW p \in Products, p[1] \in Drivers, NEW entries, NEW stores, Window(p, entries, stores),
         NEW a \in 1..Len(stores), NEW b \in 1..Len(stores), a <= b,
         \A i \in a..(b - 1) : ReverseIn(p, entries[i].event) = {}
  PROVE  Agree(p, entries, stores[a], stores[b])
  <1>. SUFFICES ASSUME NEW k \in KeysIn(p) \ TaintedIn(p, entries), NEW i \in a..(b - 1)
                PROVE  k \notin entries[i].keys
    BY DEF Agree, Window, Framed
  <1>1. i \in 1..Len(entries) /\ i \in DOMAIN entries
    BY DEF Window
  <1>2. i \in LostIn(p, entries)
    BY <1>1 DEF LostIn
  <1>3. entries[i].keys \subseteq KeysIn(p)
    <2>1. PICK w \in WritesOf(p, stores[i]) : entries[i] = Entry(w)
      BY <1>1 DEF Window
    <2>2. entries[i].keys = w.keys /\ stores[i] \in StoresOf(p)
      BY <1>1, <2>1 DEF Entry, Window
    <2>. QED BY <2>2, UndoLemma
  <1>. QED BY <1>1, <1>2, <1>3, TaintLemma

----------------------------------------------------------------------------------
(* The inductive invariant.                                                *)

(* A set of numbers with an upper bound has a largest one.                 *)
LEMMA MaxLemma ==
  ASSUME NEW S \in SUBSET Nat, S # {}, NEW n \in Nat, \A i \in S : i <= n
  PROVE  Max(S) \in S /\ \A i \in S : i <= Max(S)
  <1>. DEFINE T == {n - i : i \in S}
  <1>a. \A i \in S : i \in Nat /\ n - i \in Nat
    OBVIOUS
  <1>1. T \subseteq Nat /\ T # {}
    <2>1. PICK i : i \in S
      OBVIOUS
    <2>2. n - i \in T
      BY <2>1
    <2>. QED BY <1>a, <2>2
  <1>2. PICK x \in T : \A y \in T : ~(<<y, x>> \in OpToRel(<, Nat))
    BY <1>1, NatLessThanWellFounded, WFMin
  <1>3. PICK i \in S : x = n - i
    OBVIOUS
  <1>4. \A j \in S : i >= j
    <2>. SUFFICES ASSUME NEW j \in S, j > i PROVE FALSE
      OBVIOUS
    <2>1. n - j \in T /\ n - j < n - i /\ n - j \in Nat /\ n - i \in Nat
      OBVIOUS
    <2>. QED BY <1>2, <1>3, <2>1 DEF OpToRel
  <1>5. \A j \in S : Max(S) >= j /\ Max(S) \in S
    BY <1>4 DEF Max
  <1>. QED BY <1>5

RangesInv ==
  /\ product \in Products /\ product[1] \in Drivers
  /\ store \in StoresOf(product)
  /\ pending \subseteq 1..Len(log)
  /\ state \in {"writing", "rolling", "refused"}
  /\ replayed \in BOOLEAN
  /\ undone \in 0..(Len(log) + 1)
  /\ crashes \in 0..MaxCrashes

WritingInv ==
  state = "writing" =>
    store = trail[Len(log) + 1] /\ pending = {} /\ ~replayed /\ undone = 0 /\ crashes = 0

(* What is pending lies below the step replayed last, which is pending     *)
(* only until it is removed, or again after a crash.                       *)
PlanInv ==
  state # "writing" =>
    /\ undone \in 1..(Len(log) + 1)
    /\ \A i \in pending : ReverseIn(product, log[i].event) # {} /\ i <= undone
    /\ \A i \in 1..(undone - 1) : ReverseIn(product, log[i].event) # {} => i \in pending
    /\ replayed => undone \in pending /\ state = "rolling"
    /\ undone \in pending => replayed \/ crashes > 0

MatchInv ==
  state # "writing" /\ (product[1] = "redis" => crashes = 0) =>
    Agree(product, log, store, trail[undone])

IInv ==
  /\ RangesInv
  /\ Window(product, log, trail)
  /\ WritingInv
  /\ PlanInv
  /\ MatchInv
  /\ RefusedForCause

(* One lemma for the initial states and one for each action.               *)
LEMMA InitLemma ==
  ASSUME Init
  PROVE  IInv
  <1>0. /\ product \in Products /\ product[1] \in Drivers /\ store \in StoresOf(product)
        /\ log = <<>> /\ trail = <<store>> /\ pending = {} /\ state = "writing" /\ ~replayed
        /\ replayed \in BOOLEAN /\ undone = 0 /\ crashes = 0
    BY Parameters DEF Init, Driver
  <1>1. Len(log) = 0 /\ Len(trail) = 1 /\ trail[1] = store
    BY <1>0
  <1>2. Window(product, log, trail)
    <2>1. log \in Seq(Entries(product)) /\ trail \in Seq(StoresOf(product))
      BY <1>0
    <2>2. \A a, b \in 1..Len(trail) : a = b
      BY <1>1
    <2>3. Framed(product, log, trail)
      BY <2>2 DEF Framed
    <2>. QED BY <1>1, <2>1, <2>3 DEF Window
  <1>3. RangesInv
    BY <1>0, <1>1, BoundsAssumption DEF RangesInv
  <1>. QED BY <1>0, <1>1, <1>2, <1>3 DEF IInv, WritingInv, PlanInv, MatchInv, RefusedForCause

LEMMA WriteStep ==
  ASSUME IInv, Write
  PROVE  IInv'
  <1>. USE DEF IInv
  <1>0. /\ state = "writing" /\ pending = {} /\ ~replayed /\ undone = 0 /\ crashes = 0
        /\ UNCHANGED <<product, pending, state, replayed, undone, crashes>>
        /\ Len(log) \in Nat /\ Len(trail) = Len(log) + 1 /\ store = trail[Len(trail)]
    BY DEF Write, WritingInv, Window
  <1>1. PICK w \in WritesOf(product, store) :
          store' = w.after /\ log' = Append(log, Entry(w)) /\ trail' = Append(trail, w.after)
    BY Parameters DEF Write, Entry
  <1>2. Window(product, log', trail')
    BY <1>0, <1>1, WindowLemma DEF RangesInv
  <1>3. store' \in StoresOf(product)
    BY <1>1, UndoLemma DEF RangesInv
  <1>4. Len(log') = Len(log) + 1 /\ trail'[Len(log') + 1] = store'
    <2>1. log \in Seq(Entries(product)) /\ trail \in Seq(StoresOf(product))
      BY DEF Window
    <2>2. Len(log') = Len(log) + 1 /\ trail'[Len(trail) + 1] = w.after
      BY <1>1, <2>1, AppendProperties, <1>2, <1>3 DEF Window
    <2>. QED BY <1>0, <1>1, <2>2
  <1>5. RangesInv'
    BY <1>0, <1>3, <1>4 DEF RangesInv
  <1>6. WritingInv' /\ PlanInv' /\ MatchInv' /\ RefusedForCause'
    BY <1>0, <1>4 DEF WritingInv, PlanInv, MatchInv, RefusedForCause
  <1>7. Window(product, log, trail)'
    BY <1>0, <1>2
  <1>. QED BY <1>5, <1>6, <1>7

LEMMA PlanStep ==
  ASSUME IInv, Plan
  PROVE  IInv'
  <1>. USE DEF IInv
  <1>0. /\ state = "writing" /\ state' = "rolling" /\ ~replayed /\ crashes = 0
        /\ UNCHANGED <<product, store, log, trail, replayed, crashes>>
        /\ undone' = Len(log) + 1
        /\ Len(log) \in Nat /\ store = trail[Len(log) + 1]
    BY DEF Plan, WritingInv, Window
  <1>1. pending' = {i \in 1..Len(log) : ReverseIn(product, log[i].event) # {}}
    <2>1. DOMAIN log = 1..Len(log)
      BY DEF Window
    <2>. QED BY <2>1, Parameters DEF Plan
  <1>2. RangesInv'
    BY <1>0, <1>1 DEF RangesInv
  <1>3. PlanInv'
    BY <1>0, <1>1 DEF PlanInv
  <1>4. MatchInv'
    BY <1>0 DEF MatchInv, Agree
  <1>5. WritingInv' /\ RefusedForCause' /\ Window(product, log, trail)'
    BY <1>0 DEF WritingInv, RefusedForCause
  <1>. QED BY <1>2, <1>3, <1>4, <1>5

(* The step to be replayed, and what the store agrees with before it.      *)
LEMMA StepLemma ==
  ASSUME IInv, state = "rolling", pending # {}, ~replayed
  PROVE  /\ Step \in pending /\ Step \in 1..Len(log) /\ Step <= undone /\ \A i \in pending : i <= Step
         /\ Operations = ReverseIn(product, log[Step].event) /\ Operations # {}
         /\ (product[1] = "redis" => crashes = 0) =>
              Agree(product, log, store, trail[Step + 1]) \/ (product[1] # "redis" /\ Agree(product, log, store, trail[Step]))
         /\ crashes = 0 => Agree(product, log, store, trail[Step + 1])
  <1>. USE DEF IInv
  <1>0. /\ pending \subseteq 1..Len(log) /\ Len(log) \in Nat /\ Len(trail) = Len(log) + 1
        /\ undone \in 1..(Len(log) + 1) /\ crashes \in Nat
        /\ \A i \in pending : ReverseIn(product, log[i].event) # {} /\ i <= undone
        /\ \A i \in 1..(undone - 1) : ReverseIn(product, log[i].event) # {} => i \in pending
    <2>1. pending \subseteq 1..Len(log) /\ Len(log) \in Nat /\ Len(trail) = Len(log) + 1 /\ crashes \in Nat
      BY BoundsAssumption DEF RangesInv, Window
    <2>2. state # "writing"
      OBVIOUS
    <2>3. undone \in 1..(Len(log) + 1) /\ (\A i \in pending : ReverseIn(product, log[i].event) # {} /\ i <= undone)
          /\ (\A i \in 1..(undone - 1) : ReverseIn(product, log[i].event) # {} => i \in pending)
      BY <2>2, Zenon DEF PlanInv
    <2>. QED BY <2>1, <2>3
  <1>r. undone \in pending => crashes > 0
    BY Zenon DEF PlanInv
  <1>1. Step \in pending /\ \A i \in pending : i <= Step
    <2>1. pending \in SUBSET Nat /\ \A i \in pending : i <= Len(log)
      BY <1>0
    <2>. QED BY <1>0, <2>1, MaxLemma DEF Step
  <1>2. Operations = ReverseIn(product, log[Step].event) /\ Operations # {}
    BY <1>0, <1>1, Parameters DEF Operations
  <1>3. ASSUME product[1] = "redis" => crashes = 0
        PROVE  \/ Agree(product, log, store, trail[Step + 1])
               \/ product[1] # "redis" /\ crashes > 0 /\ Agree(product, log, store, trail[Step])
    <2>1. Agree(product, log, store, trail[undone])
      BY <1>3 DEF MatchInv
    <2>2. CASE undone \in pending
      <3>1. Step = undone
        BY <1>0, <1>1, <2>2
      <3>. QED BY <1>0, <1>3, <1>r, <2>1, <2>2, <3>1
    <2>3. CASE undone \notin pending
      <3>1. Step + 1 \in 1..Len(trail) /\ undone \in 1..Len(trail) /\ Step + 1 <= undone
        BY <1>0, <1>1, <2>3
      <3>2. \A i \in (Step + 1)..(undone - 1) : ReverseIn(product, log[i].event) = {}
        <4>. SUFFICES ASSUME NEW i \in (Step + 1)..(undone - 1), i \in pending PROVE FALSE
          BY <1>0, <1>1
        <4>1. i <= Step /\ Step \in Nat /\ i \in Int /\ Step + 1 <= i
          BY <1>0, <1>1
        <4>. QED BY <4>1
      <3>3. Agree(product, log, trail[Step + 1], trail[undone])
        BY <3>1, <3>2, SkipLemma DEF RangesInv
      <3>. QED BY <2>1, <3>3 DEF Agree
    <2>. QED BY <2>2, <2>3
  <1>. QED BY <1>0, <1>1, <1>2, <1>3

LEMMA ReplayStepStep ==
  ASSUME IInv, ReplayStep
  PROVE  IInv'
  <1>. USE DEF IInv
  <1>0. /\ state = "rolling" /\ pending # {} /\ ~replayed /\ replayed' = TRUE /\ undone' = Step
        /\ UNCHANGED <<product, log, trail, pending, state, crashes>>
    BY DEF ReplayStep
  <1>1. PICK operation \in ReverseIn(product, log[Step].event) : store' \in ReplaysIn(product, operation, store)
    BY <1>0, StepLemma, Parameters DEF ReplayStep
  <1>2. Step \in 1..Len(log) /\ Step \in pending /\ Step <= undone /\ undone \in Nat /\ Len(log) \in Nat
    BY <1>0, StepLemma DEF RangesInv, Window
  <1>3. /\ store' \in StoresOf(product)
        /\ Agree(product, log, store, trail[Step + 1]) \/ (product[1] # "redis" /\ Agree(product, log, store, trail[Step])) =>
             Agree(product, log, store', trail[Step])
    BY <1>1, <1>2, ReplayLemma DEF RangesInv
  <1>4. RangesInv'
    BY <1>0, <1>2, <1>3 DEF RangesInv
  <1>5. PlanInv'
    <2>1. \A i \in pending : ReverseIn(product, log[i].event) # {} /\ i <= Step
      BY <1>0, StepLemma DEF PlanInv
    <2>2. \A i \in 1..(Step - 1) : ReverseIn(product, log[i].event) # {} => i \in pending
      <3>1. state # "writing"
        BY <1>0
      <3>2. \A i \in 1..(undone - 1) : ReverseIn(product, log[i].event) # {} => i \in pending
        BY <3>1, Zenon DEF PlanInv
      <3>. SUFFICES ASSUME NEW i \in 1..(Step - 1), ReverseIn(product, log[i].event) # {}
           PROVE  i \in pending
        OBVIOUS
      <3>3. i \in 1..(undone - 1)
        BY <1>2
      <3>. QED BY <3>2, <3>3
    <2>3. undone' \in 1..(Len(log') + 1)
      BY <1>0, <1>2
    <2>4. undone' \in pending' /\ state' = "rolling" /\ replayed'
      BY <1>0, <1>2
    <2>. QED BY <1>0, <2>1, <2>2, <2>3, <2>4, Zenon DEF PlanInv
  <1>6. MatchInv'
    BY <1>0, <1>3, StepLemma DEF MatchInv, Agree
  <1>7. WritingInv' /\ RefusedForCause' /\ Window(product, log, trail)'
    BY <1>0 DEF WritingInv, RefusedForCause
  <1>. QED BY <1>4, <1>5, <1>6, <1>7

LEMMA RemoveStepStep ==
  ASSUME IInv, RemoveStep
  PROVE  IInv'
  <1>. USE DEF IInv
  <1>0. /\ replayed /\ pending' = pending \ {Step} /\ ~replayed' /\ replayed' \in BOOLEAN
        /\ UNCHANGED <<product, store, log, trail, state, undone, crashes>>
    BY DEF RemoveStep
  <1>1. state = "rolling" /\ undone \in pending /\ undone \in 1..(Len(log) + 1) /\ Len(log) \in Nat
    BY <1>0 DEF PlanInv, WritingInv, RangesInv, Window
  <1>2. Step = undone
    <2>1. \A i \in pending : i <= undone
      BY <1>1 DEF PlanInv
    <2>2. pending \in SUBSET Nat
      BY <1>1 DEF RangesInv
    <2>3. Max(pending) \in pending /\ \A i \in pending : i <= Max(pending)
      BY <1>1, <2>1, <2>2, MaxLemma
    <2>4. Max(pending) \in Nat /\ undone \in Nat /\ Max(pending) <= undone /\ undone <= Max(pending)
      BY <1>1, <2>1, <2>2, <2>3
    <2>. QED BY <2>4 DEF Step
  <1>3. RangesInv'
    BY <1>0 DEF RangesInv
  <1>4. PlanInv'
    <2>1. undone' \in 1..(Len(log') + 1) /\ undone' \notin pending' /\ ~replayed'
      BY <1>0, <1>1, <1>2
    <2>2. \A i \in pending' : ReverseIn(product', log'[i].event) # {} /\ i <= undone'
      BY <1>0, <1>1 DEF PlanInv
    <2>3. \A i \in 1..(undone' - 1) : ReverseIn(product', log'[i].event) # {} => i \in pending'
      BY <1>0, <1>1, <1>2 DEF PlanInv
    <2>. QED BY <2>1, <2>2, <2>3, Zenon DEF PlanInv
  <1>5. MatchInv'
    BY <1>0 DEF MatchInv, Agree
  <1>6. WritingInv' /\ RefusedForCause' /\ Window(product, log, trail)'
    BY <1>0, <1>1 DEF WritingInv, RefusedForCause
  <1>. QED BY <1>3, <1>4, <1>5, <1>6

LEMMA RefuseStepStep ==
  ASSUME IInv, RefuseStep
  PROVE  IInv'
  <1>. USE DEF IInv
  <1>0. /\ state = "rolling" /\ pending # {} /\ ~replayed /\ state' = "refused"
        /\ UNCHANGED <<product, store, log, trail, pending, replayed, undone, crashes>>
    BY DEF RefuseStep
  <1>1. \A operation \in Operations : ReplaysIn(product, operation, store) = {}
    BY Parameters DEF RefuseStep
  <1>2. crashes = 0 => log[Step].keys \cap TaintedIn(product, log) # {}
    <2>. SUFFICES ASSUME crashes = 0, log[Step].keys \cap TaintedIn(product, log) = {} PROVE FALSE
      OBVIOUS
    <2>1. PICK operation : operation \in ReverseIn(product, log[Step].event) /\ operation \in Operations
      BY <1>0, StepLemma
    <2>2. Step \in 1..Len(log) /\ Agree(product, log, store, trail[Step + 1])
      BY <1>0, StepLemma
    <2>3. ReplaysIn(product, operation, store) # {}
      BY <2>1, <2>2, ReplayLemma DEF RangesInv
    <2>. QED BY <1>1, <2>1, <2>3
  <1>3. RefusedForCause'
    <2>1. Step' = Step /\ Tainted' = Tainted
      BY <1>0 DEF Step, Tainted, AllKeys, Closed, Lost, ReverseOf, Driver
    <2>2. crashes = 0 \/ crashes > 0
      BY BoundsAssumption DEF RangesInv
    <2>. QED BY <1>0, <1>2, <2>1, <2>2, Parameters DEF RefusedForCause
  <1>4. RangesInv' /\ WritingInv' /\ PlanInv'
    BY <1>0 DEF RangesInv, WritingInv, PlanInv
  <1>5. MatchInv' /\ Window(product, log, trail)'
    BY <1>0 DEF MatchInv, Agree
  <1>. QED BY <1>3, <1>4, <1>5

LEMMA CrashStep ==
  ASSUME IInv, Crash
  PROVE  IInv'
  <1>. USE DEF IInv
  <1>0. /\ replayed /\ crashes < MaxCrashes /\ ~replayed' /\ replayed' \in BOOLEAN /\ crashes' = crashes + 1
        /\ UNCHANGED <<product, store, log, trail, pending, state, undone>>
    BY DEF Crash
  <1>1. crashes \in Nat /\ MaxCrashes \in Nat /\ crashes' > 0 /\ crashes' # 0 /\ state = "rolling"
    BY <1>0, BoundsAssumption DEF RangesInv, PlanInv, WritingInv
  <1>2. RangesInv' /\ WritingInv' /\ PlanInv'
    BY <1>0, <1>1 DEF RangesInv, WritingInv, PlanInv
  <1>3. MatchInv'
    BY <1>0, <1>1 DEF MatchInv, Agree
  <1>4. RefusedForCause' /\ Window(product, log, trail)'
    BY <1>0, <1>1 DEF RefusedForCause
  <1>. QED BY <1>2, <1>3, <1>4

(* The inductive invariant holds for windows of any length.                *)
THEOREM Invariance == Spec => []IInv
  <1>1. Init => IInv
    BY InitLemma
  <1>2. ASSUME IInv, [Next]_vars PROVE IInv'
    <2>1. CASE UNCHANGED vars
      <3>1. /\ product' = product /\ store' = store /\ log' = log /\ trail' = trail /\ pending' = pending
            /\ state' = state /\ replayed' = replayed /\ undone' = undone /\ crashes' = crashes
        BY <2>1 DEF vars
      <3>2. RefusedForCause'
        BY <1>2, <3>1 DEF IInv, RefusedForCause, Step, Tainted, AllKeys, Closed, Lost, ReverseOf, Driver
      <3>. QED BY <1>2, <3>1, <3>2 DEF IInv, RangesInv, WritingInv, PlanInv, MatchInv, Agree
    <2>2. CASE Next
      BY <1>2, <2>2, WriteStep, PlanStep, ReplayStepStep, RemoveStepStep, RefuseStepStep, CrashStep DEF Next
    <2>. QED BY <1>2, <2>1, <2>2
  <1>. QED BY <1>1, <1>2, PTL DEF Spec

(* Type correctness: every replay of ReplayRows, ExecuteSQL,               *)
(* ExecuteCommand or Execute leaves whole rows with unique keys, a list    *)
(* within its bound and counters in range.                                 *)
THEOREM TypeCorrect == Spec => []TypeOK
  <1>1. IInv => TypeOK
    <2>. SUFFICES ASSUME IInv PROVE TypeOK
      OBVIOUS
    <2>1. /\ trail \in [1..(Len(log) + 1) -> StoresOf(product)]
          /\ DOMAIN log = 1..Len(log)
      BY DEF IInv, Window
    <2>. QED BY <2>1, Parameters DEF IInv, RangesInv, TypeOK
  <1>. QED BY <1>1, Invariance, PTL

(* The compensating steps of RecoveryPlan, replayed from the last to the   *)
(* first, take every key that no write without a safe step reached back    *)
(* through the states it had, for windows of any length.                   *)
THEOREM RollbackMatchesHistory == Spec => []MatchesHistory
  <1>1. IInv => MatchesHistory
    BY Parameters DEF IInv, MatchInv, Agree, MatchesHistory, Driver
  <1>. QED BY <1>1, Invariance, PTL

(* Without a crash a replay is refused only at a step that a write without *)
(* a safe step reached, for windows of any length.                         *)
THEOREM RollbackRefusedForCause == Spec => []RefusedForCause
  <1>1. IInv => RefusedForCause
    BY DEF IInv
  <1>. QED BY <1>1, Invariance, PTL

==================================================================================
