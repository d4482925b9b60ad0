------------------------------ MODULE MongoDocument -------------------------------
(***************************************************************************)
(* The compensating commands of mongo/decode/events/types, and the         *)
(* collections whose changes they undo: tables keyed by _id.               *)
(***************************************************************************)
EXTENDS RowTable

(* A change stream with or without pre-images, or the lines of an oplog.   *)
Captures == {"preimages", "stream", "oplog"}

(* parseChange, from what the server writes of a change: the pre-image     *)
(* stands in for a document that is not there, and the oplog entry of a    *)
(* delete holds the _id as its document.                                   *)
ParsedChange(c, capture) ==
  LET pre == IF capture = "preimages" THEN c.old ELSE {}
      doc == CASE Operation(c) = "insert" -> c.new
               [] Operation(c) = "delete" -> IF capture = "oplog" THEN {KeyOnly(r) : r \in c.old} ELSE pre
               [] Operation(c) = "update" -> IF capture = "oplog" THEN c.new ELSE pre
  IN  [ operation      |-> Operation(c),
        documentKey    |-> KeysOf(c.old \cup c.new),
        document       |-> doc,
        beforeDocument |-> pre ]

Command(operation, filter, document) ==
  [operation |-> operation, filter |-> filter, document |-> document]

(* Event.Reverse                                                           *)
ReverseDocument(change) ==
  CASE change.operation = "insert" /\ change.documentKey # {} ->
         {Command("delete", change.documentKey, {})}
    [] change.operation = "update" /\ change.documentKey # {} /\ change.beforeDocument # {} ->
         {Command("replace", change.documentKey, change.beforeDocument)}
    [] change.operation = "delete" /\ change.document # {} ->
         {Command("insert", {}, change.document)}
    [] OTHER -> {}

(* A document without the field has no value there.                        *)
Stored(documents) ==
  {[r EXCEPT !.val = IF @ = Skipped THEN Null ELSE @] : r \in documents}

(* The server executes a command of the plan: no collection when it        *)
(* refuses.  Nothing matches, nothing is replaced.                         *)
ExecuteCommand(command, t) ==
  LET old == {r \in t : r.key \in command.filter}
      new == Stored(command.document)
  IN  CASE command.operation = "delete"  -> {t \ old}
        [] command.operation = "replace" -> {IF old = {} THEN t ELSE (t \ old) \cup new}
        [] command.operation = "insert"  -> {u \in {t \cup new} : KeysOf(new) \cap KeysOf(t) = {}}

(* An update never changes an _id.                                         *)
MongoWrites(t, capture) ==
  {[ event  |-> ParsedChange(c, capture),
     after  |-> (t \ c.old) \cup c.new,
     keys   |-> KeysOf(c.old \cup c.new),
     unsafe |-> c.new = {} /\ Lossy(ParsedChange(c, capture).document, c.old) ]
   : c \in {d \in Changes : Fits(d, t) /\ Cardinality(KeysOf(d.old \cup d.new)) = 1}}

==================================================================================
