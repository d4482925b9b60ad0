------------------------------- MODULE PostgresLine -------------------------------
(***************************************************************************)
(* A change of a PostgreSQL table on its way through text: test_decoding   *)
(* prints it, a file or a slot carries the line, postgres/decode/decoder/  *)
(* parser.go reads it and the SQL of postgres/decode/events/types names    *)
(* what was read.  A text is a sequence of symbols: what the parser looks  *)
(* for, and a few pieces of text that stand for all others.                *)
(***************************************************************************)
EXTENDS Integers, Sequences, SequencesExt, FiniteSetsExt

CONSTANTS
  Symbols,      \* what texts are made of
  Names,        \* names of columns, as they are in the catalog
  Tables,       \* names of tables in the schema "public"
  Datums,       \* columns' values: [type, kind, text]
  MaxColumns,   \* bound on the columns of a row
  Carriers      \* "file" and "slot"

VARIABLES
  written,    \* the change that was made: [op, table, columns, old]
  carrier,    \* how its line reaches the parser
  phase,      \* "line", "oldKey", "columns", "read" or "refused"
  text,       \* the body parseColumns is called with
  rest,       \* the body behind the new-tuple marker
  pos,        \* pos of parseColumns
  schema, table, columns, oldKey    \* the fields of types.Change

vars == <<written, carrier, phase, text, rest, pos, schema, table, columns, oldKey>>

(* Words PostgreSQL does not quote and pieces that are letters in Go.      *)
Safe == {"a", "b", "t", "public"}
Letters == Safe \cup {"A"}
Separator == <<":", " ">>
OldKeyMark == <<"old-key:", " ">>
NewTupleMark == <<" ", "new-tuple:", " ">>

(* Types whose values are printed without quotes, and what is printed.     *)
Bare == {"integer", "numeric", "boolean"}
Scalars == {<<"7">>, <<"huge">>, <<"NaN">>, <<"true">>, <<"false">>}

(* What PostgreSQL writes besides names and values.                        *)
Format ==
  Safe \cup Bare \cup {"BEGIN", "COMMIT", "table ", "insert", "update", "delete", "truncate"}
    \cup {"old-key:", "new-tuple:", "(no-flags)", "(no-tuple-data)", "null", "unchanged-toast-datum"}
    \cup {".", ":", " ", "[", "]", "'", "\"", "bit", "text", "B", "0", "1", "7", "huge", "NaN", "true", "false"}

ASSUME SymbolsAssumption == Format \cup {"\n"} \subseteq Symbols

Text == Seq(Symbols)

(* The names that are not modelled: what the parser takes for the end of   *)
(* a type or of a table's name.                                            *)
ASSUME NamesAssumption ==
  /\ \A n \in Names \cup Tables : n \in Text /\ n # <<>>
  /\ \A n \in Names : ~\E i \in DOMAIN n : n[i] = "]" /\ i < Len(n) /\ n[i + 1] = ":"
  /\ \A n \in Tables : ~\E i \in DOMAIN n : n[i] = ":" /\ i < Len(n) /\ n[i + 1] = " "

(* A NULL and a toasted value that did not change have no text.            *)
ASSUME DatumsAssumption ==
  \A d \in Datums :
    /\ d \in [ type : Bare \cup {"bit", "integer[]", "text"},
               kind : {"datum", "null", "toast"}, text : Text ]
    /\ d.kind # "datum" => d.text = <<>>
    /\ d.kind = "datum" /\ d.type \in Bare => d.text \in Scalars
    /\ d.type = "bit" => d.text \in Seq({"0", "1"})

ASSUME ColumnsAssumption == MaxColumns \in Nat
ASSUME CarriersAssumption == Carriers \subseteq {"file", "slot"}

----------------------------------------------------------------------------------
(* What PostgreSQL prints.                                                 *)

Double(s, quote) ==
  FlattenSeq([i \in DOMAIN s |-> IF s[i] = quote THEN <<quote, quote>> ELSE <<s[i]>>])

Quoted(s, quote) == <<quote>> \o Double(s, quote) \o <<quote>>

Plain(name) == \A i \in DOMAIN name : name[i] \in Safe

PrintName(name) == IF Plain(name) THEN name ELSE Quoted(name, "\"")

PrintType(d) == IF d.type = "integer[]" THEN <<"integer", "[", "]">> ELSE <<d.type>>

PrintText(d) ==
  CASE d.type \in Bare -> d.text
    [] d.type = "bit"  -> <<"B">> \o Quoted(d.text, "'")
    [] OTHER           -> Quoted(d.text, "'")

PrintDatum(d) ==
  CASE d.kind = "null"  -> <<"null">>
    [] d.kind = "toast" -> <<"unchanged-toast-datum">>
    [] OTHER            -> PrintText(d)

PrintColumn(c) ==
  PrintName(c.name) \o <<"[">> \o PrintType(c.datum) \o <<"]", ":">> \o PrintDatum(c.datum)

(* A tuple; of an old one the columns that are NULL are left out.          *)
PrintColumns(cs) == FlattenSeq([i \in DOMAIN cs |-> <<" ">> \o PrintColumn(cs[i])])

NotNull(cs) ==
  FlattenSeq([i \in DOMAIN cs |-> IF cs[i].datum.kind = "null" THEN <<>> ELSE <<cs[i]>>])

PrintBody(w) ==
  CASE w.op = "truncate" -> <<" ", "(no-flags)">>
    [] w.op = "delete"   ->
         IF w.old = <<>> THEN <<" ", "(no-tuple-data)">> ELSE PrintColumns(NotNull(w.old))
    [] w.op = "update" /\ w.old # <<>>   ->
         <<" ", "old-key:">> \o PrintColumns(NotNull(w.old))
           \o <<" ", "new-tuple:">> \o PrintColumns(w.columns)
    [] OTHER                             -> PrintColumns(w.columns)

PrintLine(w) ==
  IF w.op \in {"BEGIN", "COMMIT"} THEN <<w.op, " ", "7">> ELSE
  <<"table ", "public", ".">> \o PrintName(w.table) \o <<":", " ", w.op, ":">> \o PrintBody(w)

(* A file ends the line at the first line break, also inside a value.      *)
Carried(s) ==
  LET breaks == {i \in DOMAIN s : carrier = "file" /\ s[i] = "\n"}
  IN  IF breaks = {} THEN s ELSE SubSeq(s, 1, Min(breaks) - 1)

----------------------------------------------------------------------------------
(* parser.go.  Whatever may fail returns a set, empty when it does.        *)

Before(s, i) == SubSeq(s, 1, i - 1)
From(s, i) == SubSeq(s, i, Len(s))

(* strings.Index and the loops that look for one symbol from a place on.   *)
IndexFrom(s, part, first) ==
  LET at == {i \in first..(Len(s) - Len(part) + 1) : SubSeq(s, i, i + Len(part) - 1) = part}
  IN  IF at = {} THEN {} ELSE {Min(at)}

Index(s, part) == IndexFrom(s, part, 1)

(* splitTable                                                              *)
SplitTable(name) ==
  LET dots == {i \in DOMAIN name : name[i] = "."}
  IN  [schema |-> Before(name, Max(dots)), table |-> From(name, Max(dots) + 1)]

(* The first half of parseChange: table, operation and body.               *)
Heads(line) ==
  LET s == From(line, 2)
  IN  UNION {{[ name |-> SplitTable(Before(s, i)), op |-> s[i + 2], body |-> From(s, j + 2) ]
               : j \in IndexFrom(s, Separator, i + 2)}
             : i \in Index(s, Separator)}

(* parseScalar: an integer beyond 64 bits is read as a float64.            *)
ParseScalar(raw) ==
  CASE raw = <<"null">>                  -> [go |-> "nil", text |-> <<>>]
    [] raw \in {<<"true">>, <<"false">>} -> [go |-> "bool", text |-> raw]
    [] raw = <<"7">>                     -> [go |-> "int64", text |-> raw]
    [] raw = <<"huge">>                  -> [go |-> "float64", text |-> <<"rounded">>]
    [] raw = <<"NaN">>                   -> [go |-> "float64", text |-> raw]
    [] OTHER                             -> [go |-> "string", text |-> raw]

(* A plausible mistake in ParseQuoted: any quote ends the value.           *)
ParseQuotedToQuote(s, pos0) ==
  {[value |-> [go |-> "string", text |-> SubSeq(s, pos0 + 1, i - 1)], next |-> i + 1]
     : i \in IndexFrom(s, <<"'">>, pos0 + 1)}

(* The loop of parseQuotedValue: from[i] is what it does from place i on,  *)
(* with b so far before it; two quotes are one, a single one ends the      *)
(* value.                                                                  *)
QuotedFrom(s, first) ==
  LET from[i \in first..(Len(s) + 2)] ==
        IF i > Len(s) THEN {}
        ELSE IF s[i] # "'" THEN {[r EXCEPT !.text = <<s[i]>> \o @] : r \in from[i + 1]}
        ELSE IF i < Len(s) /\ s[i + 1] = "'"
             THEN {[r EXCEPT !.text = <<"'">> \o @] : r \in from[i + 2]}
        ELSE {[text |-> <<>>, next |-> i + 1]}
  IN  from

(* parseQuotedValue                                                        *)
ParseQuoted(s, pos0) ==
  {[value |-> [go |-> "string", text |-> r.text], next |-> r.next]
     : r \in QuotedFrom(s, pos0 + 1)[pos0 + 1]}

(* parseColumnValue                                                        *)
ParseValue(s, start) ==
  IF start <= Len(s) /\ s[start] = "'" THEN ParseQuoted(s, start)
  ELSE LET end == Min(IndexFrom(s, <<" ">>, start) \cup {Len(s) + 1})
       IN  {[value |-> ParseScalar(SubSeq(s, start, end - 1)), next |-> end]}

(* parseColumn                                                             *)
ParseColumn(s, start) ==
  LET types(i) == {j \in IndexFrom(s, <<"]">>, i + 1) : j < Len(s) /\ s[j + 1] = ":"}
  IN  UNION {UNION {{[ column |-> [ name |-> SubSeq(s, start, i - 1),
                                    type |-> SubSeq(s, i + 1, j - 1), value |-> v.value ],
                       next |-> v.next ] : v \in ParseValue(s, j + 2)} : j \in types(i)}
             : i \in IndexFrom(s, <<"[">>, start)}

----------------------------------------------------------------------------------
(* The SQL of a reversed change, and how PostgreSQL takes it.              *)

QuoteIdent(name) ==
  IF \A i \in DOMAIN name : name[i] \in Letters THEN name ELSE Quoted(name, "\"")

(* A plausible mistake in SqlValue: the quotes in a value are not doubled. *)
SqlValueRaw(value) ==
  CASE value.go = "nil"    -> <<"NULL">>
    [] value.go = "string" -> <<"'">> \o value.text \o <<"'">>
    [] OTHER               -> value.text

SqlValue(value) ==
  CASE value.go = "nil"    -> <<"NULL">>
    [] value.go = "string" -> Quoted(value.text, "'")
    [] OTHER               -> value.text

(* An identifier that is not quoted is folded to lower case.               *)
IdentNames(ident, name) ==
  ident = Quoted(name, "\"") \/ (Plain(name) /\ ident = name)

(* A number outside quotes is one only if it is written in digits, and no  *)
(* literal stands for a value the line does not have.                      *)
LiteralDenotes(literal, d) ==
  CASE d.kind = "null"  -> literal = <<"NULL">>
    [] d.kind = "toast" -> FALSE
    [] OTHER            -> \/ literal = Quoted(d.text, "'")
                           \/ d.type \in Bare /\ literal = d.text /\ d.text # <<"NaN">>

----------------------------------------------------------------------------------
Rows == UNION {{r \in [1..n -> [name : Names, datum : Datums]] :
                  \A i, j \in 1..n : r[i].name = r[j].name => i = j} : n \in 1..MaxColumns}

Stored(r) == \A i \in DOMAIN r : r[i].datum.kind # "toast"

(* An update of one column prints the whole new row; what a toasted value  *)
(* is is only printed when it changes.                                     *)
UpdatedTo(r) == {q \in {[r EXCEPT ![i].datum = d] : i \in DOMAIN r, d \in Datums} :
                   \A i \in DOMAIN r : q[i].datum.type = r[i].datum.type}

Change(op, t, r, o) == [op |-> op, table |-> t, columns |-> r, old |-> o]

(* An old tuple is printed if it is the replica identity.                  *)
Changes ==
  LET rows == {r \in Rows : Stored(r)}
  IN       {Change(op, <<"t">>, <<>>, <<>>) : op \in {"BEGIN", "COMMIT", "truncate", "delete"}}
      \cup {Change("insert", t, r, <<>>) : t \in Tables, r \in rows}
      \cup {Change("delete", t, <<>>, r) : t \in Tables, r \in rows}
      \cup UNION {{Change("update", <<"t">>, q, o) : q \in UpdatedTo(r), o \in {r, <<>>}} : r \in rows}

Init ==
  /\ written \in Changes
  /\ carrier \in Carriers
  /\ phase = "line"
  /\ text = <<>> /\ rest = <<>> /\ pos = 1
  /\ schema = <<>> /\ table = <<>> /\ columns = <<>> /\ oldKey = <<>>

Line == Carried(PrintLine(written))

(* parseLine: a transaction has no more to read.                           *)
ParseTransaction ==
  /\ phase = "line"
  /\ Line[1] \in {"BEGIN", "COMMIT"}
  /\ phase' = "read"
  /\ UNCHANGED <<written, carrier, text, rest, pos, schema, table, columns, oldKey>>

(* parseChange and parseChangeColumns up to parseColumns.                  *)
ParseChange ==
  /\ phase = "line"
  /\ Line[1] = "table "
  /\ \E head \in Heads(Line) :
       LET keyed == head.op = "update" /\ IsPrefix(OldKeyMark, head.body)
           body == IF keyed THEN From(head.body, Len(OldKeyMark) + 1) ELSE head.body
           marks == IF keyed THEN Index(body, NewTupleMark) ELSE {}
       IN  /\ schema' = head.name.schema
           /\ table' = head.name.table
           /\ phase' = IF ~keyed THEN "columns" ELSE IF marks = {} THEN "refused" ELSE "oldKey"
           /\ text' = IF marks = {} THEN body ELSE Before(body, Min(marks))
           /\ rest' = IF marks = {} THEN <<>> ELSE From(body, Min(marks) + Len(NewTupleMark))
  /\ UNCHANGED <<written, carrier, pos, columns, oldKey>>

(* A deleted row of NULLs: nothing follows the colon of the operation.     *)
RefuseChange ==
  /\ phase = "line"
  /\ Line[1] = "table "
  /\ Heads(Line) = {}
  /\ phase' = "refused"
  /\ UNCHANGED <<written, carrier, text, rest, pos, schema, table, columns, oldKey>>

(* parseColumns: the loop skips blanks, then reads a column or is done.    *)
Start == Min({i \in pos..Len(text) : text[i] # " "} \cup {Len(text) + 1})

NextColumn ==
  /\ phase \in {"oldKey", "columns"}
  /\ Start <= Len(text)
  /\ \E c \in ParseColumn(text, Start) :
       /\ columns' = Append(columns, c.column)
       /\ pos' = c.next
  /\ UNCHANGED <<written, carrier, phase, text, rest, schema, table, oldKey>>

RefuseColumn ==
  /\ phase \in {"oldKey", "columns"}
  /\ Start <= Len(text)
  /\ ParseColumn(text, Start) = {}
  /\ phase' = "refused"
  /\ UNCHANGED <<written, carrier, text, rest, pos, schema, table, columns, oldKey>>

EndOldKey ==
  /\ phase = "oldKey"
  /\ Start > Len(text)
  /\ oldKey' = columns
  /\ columns' = <<>>
  /\ text' = rest
  /\ pos' = 1
  /\ phase' = "columns"
  /\ UNCHANGED <<written, carrier, rest, schema, table>>

EndColumns ==
  /\ phase = "columns"
  /\ Start > Len(text)
  /\ phase' = "read"
  /\ UNCHANGED <<written, carrier, text, rest, pos, schema, table, columns, oldKey>>

Next ==
  \/ ParseTransaction \/ ParseChange \/ RefuseChange
  \/ NextColumn \/ RefuseColumn \/ EndOldKey \/ EndColumns

Spec == Init /\ [][Next]_vars

----------------------------------------------------------------------------------
(* What the line shows of the change.                                      *)
Shown == NotNull(written.old) \o written.columns

(* What makes parseChange refuse a line PostgreSQL printed: it is no row   *)
(* change, nothing is left of an old row of NULLs, an array's type or a    *)
(* name has brackets of its own, a line break in a name or a value ends a  *)
(* line of a file, and the marker of the new tuple is looked for in the    *)
(* old names and values too.                                               *)
Bracketed(name) == \E i, j \in DOMAIN name : i < j /\ name[i] = "[" /\ name[j] = "]"

Broken ==
  /\ carrier = "file"
  /\ \/ "\n" \in ToSet(written.table)
     \/ \E c \in ToSet(Shown) : "\n" \in ToSet(c.name) \cup ToSet(c.datum.text)

Marked(c) == Index(c.name, NewTupleMark) \cup Index(c.datum.text, NewTupleMark) # {}

Unreadable ==
  \/ written.op = "truncate"
  \/ written.op = "delete" /\ NotNull(written.old) = <<>>
  \/ written.op = "update" /\ written.old # <<>> /\ NotNull(written.old) = <<>>
  \/ \E c \in ToSet(Shown) : c.datum.type = "integer[]" \/ Bracketed(c.name)
  \/ Broken
  \/ written.op = "update" /\ \E c \in ToSet(NotNull(written.old)) : Marked(c)

(* What it reads as something else: quotes around a name are taken for     *)
(* part of it, integers beyond 64 bits become floats, NaN is no literal,   *)
(* the B of bits is taken for text, and so is the note that a toasted      *)
(* value did not change.                                                   *)
MisreadDatum(d) ==
  \/ d.kind = "toast"
  \/ d.kind = "datum" /\ d.type = "bit"
  \/ d.type \in Bare /\ d.text \in {<<"huge">>, <<"NaN">>}

Misread ==
  \/ ~Plain(written.table)
  \/ \E c \in ToSet(Shown) : ~Plain(c.name) \/ MisreadDatum(c.datum)

(* A line is refused for one of these causes and for no other, and until   *)
(* then nothing of it has been handed over.                                *)
RefusedForItsText ==
  /\ phase = "refused" => Unreadable
  /\ phase = "read" => ~Unreadable

SqlNames(cs, printed) ==
  /\ Len(cs) = Len(printed)
  /\ \A i \in DOMAIN cs :
       /\ IdentNames(QuoteIdent(cs[i].name), printed[i].name)
       /\ LiteralDenotes(SqlValue(cs[i].value), printed[i].datum)

(* The tuples a reversed change names in SQL are those PostgreSQL printed, *)
(* column by column, unless the line is misread for a cause above: also    *)
(* with quotes, blanks, brackets, colons and the markers of the format in  *)
(* a value.                                                                *)
SqlDenotesChange ==
  (phase = "read" /\ written.op \in {"insert", "update", "delete"}) =>
     LET ok == /\ IdentNames(QuoteIdent(table), written.table)
               /\ QuoteIdent(schema) = <<"public">>
               /\ SqlNames(oldKey \o columns, Shown)
     IN  ok <=> ~Misread

=================================================================================
