------------------------------ MODULE Statement ------------------------------
(***************************************************************************)
(* What pdfgen draws: a statement is generated transaction by transaction, *)
(* and rendered row by row, with a header on every page and a footer under *)
(* it.  A document is the sequence of its lines, one for each cell that is *)
(* drawn, in draw order: that is how the parser gets it.  A line is known  *)
(* by what the parser's patterns make of its text, and an amount by its    *)
(* sign, its units and its two decimals.                                   *)
(***************************************************************************)
EXTENDS Integers, Sequences

CONSTANTS Pages, RowsPerPage,
          Descriptions,    \* kinds of text a description may be
          Openings,        \* balances before the first transaction, in cents
          Amounts          \* amounts, in cents

MaxRowsPerPage == 39

\* What the parser tells apart.  The merchants of pdfgen are all plain text; a
\* statement of the same layout can have been drawn with others.
Furniture == {"title", "account", "period", "column", "page"}
Kinds     == Furniture \cup {"blank", "date", "amount", "text"}

\* The limits of the command line.
ASSUME StatementAssumption ==
    /\ Pages \in Nat \ {0} /\ RowsPerPage \in 1..MaxRowsPerPage
    /\ Descriptions \in SUBSET Kinds
    /\ Openings \in SUBSET Int /\ Amounts \in SUBSET Int

VARIABLES day, balance,    \* what the generator carries from row to row
          table,           \* st.Transactions
          drawn,           \* rows already drawn
          lines,           \* cells drawn so far
          closed           \* the document is written out

statementVars == <<day, balance, table, drawn, lines, closed>>

Total == Pages * RowsPerPage

-----------------------------------------------------------------------------
(* The generator *)

StatementInit ==
    /\ day = 1
    /\ balance \in Openings
    /\ table  = <<>>
    /\ drawn  = 0
    /\ lines  = <<>>
    /\ closed = FALSE

\* Wrong variant: the row shows the balance before the transaction.
AddTransactionBefore(days, desc, amount) ==
    /\ Len(table) < Total
    /\ day'     = day + days
    /\ balance' = balance + amount
    /\ table'   = Append(table, [date |-> day, description |-> desc,
                                 amount |-> amount, balance |-> balance])
    /\ UNCHANGED <<drawn, lines, closed>>

AddTransaction(days, desc, amount) ==
    /\ Len(table) < Total
    /\ day'     = day + days
    /\ balance' = balance + amount
    /\ table'   = Append(table, [date |-> day', description |-> desc,
                                 amount |-> amount, balance |-> balance'])
    /\ UNCHANGED <<drawn, lines, closed>>

\* Wrong variant: c / 100 carries the sign, and zero has none.
FormatCentsSignInUnits(c) ==
    LET size == IF c < 0 THEN -c ELSE c IN
    [minus |-> c < 0 /\ size >= 100, units |-> size \div 100, cents |-> size % 100]

FormatCents(c) ==
    LET size == IF c < 0 THEN -c ELSE c IN
    [minus |-> c < 0, units |-> size \div 100, cents |-> size % 100]

-----------------------------------------------------------------------------
(* The renderer *)

\* A drawn cell.  at is history: how many cells of the table are drawn by then.
Line(kind, text, at) == [kind |-> kind, text |-> text, at |-> at]

Plain(n) == [minus |-> FALSE, units |-> n, cents |-> 0]

Header(at) ==
    LET Cell(kind) == Line(kind, Plain(0), at) IN
    <<Cell("title"), Cell("account"), Cell("period"),
      Cell("column"), Cell("column"), Cell("column"), Cell("column")>>

Footer(at) == Line("page", Plain(0), at)

\* Wrong variant: the last two columns are swapped.
RowCellsSwapped(r) ==
    LET t == table[r]  first == 4 * (r - 1) IN
    <<Line("date", Plain(t.date), first + 1),
      Line(t.description, Plain(r), first + 2),
      Line("amount", FormatCents(t.balance), first + 3),
      Line("amount", FormatCents(t.amount), first + 4)>>

RowCells(r) ==
    LET t == table[r]  first == 4 * (r - 1) IN
    <<Line("date", Plain(t.date), first + 1),
      Line(t.description, Plain(r), first + 2),
      Line("amount", FormatCents(t.amount), first + 3),
      Line("amount", FormatCents(t.balance), first + 4)>>

\* AddPage draws the footer of the page before, then the header.
PageBreak ==
    CASE drawn % RowsPerPage # 0 -> <<>>
      [] drawn = 0               -> Header(0)
      [] OTHER                   -> <<Footer(4 * drawn)>> \o Header(4 * drawn)

DrawRow ==
    /\ Len(table) = Total /\ drawn < Total
    /\ lines' = lines \o PageBreak \o RowCells(drawn + 1)
    /\ drawn' = drawn + 1
    /\ UNCHANGED <<day, balance, table, closed>>

\* OutputFileAndClose draws the last footer.
Output ==
    /\ Len(table) = Total /\ drawn = Total /\ ~closed
    /\ lines'  = Append(lines, Footer(4 * drawn))
    /\ closed' = TRUE
    /\ UNCHANGED <<day, balance, table, drawn>>

StatementNext ==
    \/ \E days \in 0..1, desc \in Descriptions, amount \in Amounts :
          AddTransaction(days, desc, amount)
    \/ DrawRow
    \/ Output

=============================================================================
