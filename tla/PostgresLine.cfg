\* Changes of rows with one or two columns, carried by a file or a slot.
SPECIFICATION Spec
CONSTANTS
  Symbols <- MCSymbols
  Names <- MCNames
  Tables <- MCTables
  Datums <- MCDatums
  MaxColumns = 2
  Carriers = {"file", "slot"}
INVARIANTS
  RefusedForItsText
  SqlDenotesChange
\* A line that is read or refused stays so.
CHECK_DEADLOCK FALSE
