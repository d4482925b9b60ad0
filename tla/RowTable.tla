--------------------------------- MODULE RowTable ---------------------------------
(***************************************************************************)
(* A database table with a primary key, as far as the flashbacks rely on   *)
(* it: the changes it allows and the images of rows a log keeps.           *)
(***************************************************************************)
EXTENDS FiniteSets, Sequences, Naturals

CONSTANTS
  Keys,     \* primary keys
  Values,   \* values of the other column
  Null,     \* the value that is no value
  Skipped   \* in an image: the column is not there

ASSUME NullAssumption == Null \in Values
ASSUME SkippedAssumption == Skipped \notin Keys \cup Values

Columns == {"key", "val"}

Rows == [key : Keys, val : Values]

Tables == {t \in SUBSET Rows : \A r, s \in t : r.key = s.key => r = s}

KeysOf(rows) == {r.key : r \in rows}

(* A set of at most one element, the way absent tuples are written here.   *)
Optional(S) == {{}} \cup {{x} : x \in S}

(* A change replaces at most one row by at most one.                       *)
Changes == {c \in [old : Optional(Rows), new : Optional(Rows)] : c.old # c.new}

Operation(c) ==
  CASE c.old = {} -> "insert"
    [] c.new = {} -> "delete"
    [] OTHER      -> "update"

Fits(c, t) == c.old \subseteq t /\ KeysOf(c.new) \cap KeysOf(t \ c.old) = {}

(* The tables a change may leave of some, none where it finds no row or    *)
(* meets a row with its key.                                               *)
Changed(c, tables) == {(u \ c.old) \cup c.new : u \in {v \in tables : Fits(c, v)}}

(* The tables after the first changes of some made one after the other.    *)
Stages(changes, t) ==
  LET after[i \in 0..Len(changes)] ==
        IF i = 0 THEN {t} ELSE Changed(changes[i], after[i - 1])
  IN  after

(* The table after all of them, none if one of them cannot be made.        *)
Outcome(changes, t) == Stages(changes, t)[Len(changes)]

KeyOnly(r) == [r EXCEPT !.val = Skipped]

(* What a row has lost in an image that only names its key.                *)
Lossy(image, rows) == image # {} /\ image # rows /\ \E r \in rows : r.val # Null

==================================================================================
