------------------------------ MODULE MCPostgresLine ------------------------------
(***************************************************************************)
(* Names and values for PostgresLine that a cfg cannot spell: columns with *)
(* brackets, a line break and a marker in their names, tables that are     *)
(* quoted for their case and for a dot, and values with everything the     *)
(* parser looks for.                                                       *)
(***************************************************************************)
EXTENDS PostgresLine

MCSymbols == Format \cup {"A", "\n"}

MCNames == {<<"a">>, <<"A", "[", "\n">>, <<"b", "[", "]">> \o NewTupleMark}

MCTables == {<<"t">>, <<"A", "\n">>, <<"a", ".", "b">>}

Datum(type, content) == [type |-> type, kind |-> "datum", text |-> content]

Absent(type, kind) == [type |-> type, kind |-> kind, text |-> <<>>]

MCDatums ==
  { Datum("integer", <<"7">>), Datum("numeric", <<"huge">>), Datum("numeric", <<"NaN">>),
    Datum("boolean", <<"true">>), Datum("bit", <<"1">>), Datum("integer[]", <<"7">>),
    Absent("integer", "null"), Absent("text", "null"), Absent("text", "toast"),
    Datum("text", <<"a">>), Datum("text", <<>>), Datum("text", <<"null">>),
    Datum("text", <<"'">>), Datum("text", <<"'", "'", "a">>), Datum("text", <<"a", "\n", "a">>),
    Datum("text", <<"a", "]", ":", " ", "b", "[", "text", "]", ":">>),
    Datum("text", <<"a">> \o NewTupleMark \o <<"a">>) }

=================================================================================
