--------------------------- MODULE StatementParser ---------------------------
(***************************************************************************)
(* parser.Parse and ToCSV, on a document in pdfgen's layout.  The parser   *)
(* has no positions to go by: it drops the lines it takes for page         *)
(* furniture, and counts cells in fours.  A description that looks like    *)
(* furniture, or is blank, shifts every cell behind it.                    *)
(***************************************************************************)
EXTENDS Statement

VARIABLES stage,   \* where the job is: unread, scan, rows, parsed, or an error
          read,    \* lines looked at
          cells,   \* cells kept
          txs,     \* rows accepted
          csv      \* what is uploaded as the result

parserVars == <<statementVars, stage, read, cells, txs, csv>>

NoCsv == [header |-> FALSE, records |-> <<>>]

ParserInit ==
    /\ StatementInit
    /\ stage = "unread"
    /\ read  = 0
    /\ cells = <<>>
    /\ txs   = <<>>
    /\ csv   = NoCsv

-----------------------------------------------------------------------------
(* Parse *)

\* The text of the document is there.
Extract ==
    /\ closed /\ stage = "unread"
    /\ stage' = "scan"
    /\ UNCHANGED <<statementVars, read, cells, txs, csv>>

\* The pdf library returns an error, or panics and is recovered from.
ExtractFails ==
    /\ closed /\ stage = "unread"
    /\ stage' = "unreadable"
    /\ UNCHANGED <<statementVars, read, cells, txs, csv>>

\* Wrong variant: the footers are kept.
DroppedButFooters(kind) == kind \in (Furniture \cup {"blank"}) \ {"page"}

\* TrimSpace leaves nothing, or isPreamble.
Dropped(kind) == kind \in Furniture \cup {"blank"}

ScanLine ==
    /\ stage = "scan" /\ read < Len(lines)
    /\ read'  = read + 1
    /\ cells' = IF Dropped(lines[read'].kind) THEN cells ELSE Append(cells, lines[read'])
    /\ UNCHANGED <<statementVars, stage, txs, csv>>

CheckLayout ==
    /\ stage = "scan" /\ read = Len(lines)
    /\ stage' = IF cells = <<>> \/ Len(cells) % 4 # 0 THEN "rejected" ELSE "rows"
    /\ UNCHANGED <<statementVars, read, cells, txs, csv>>

\* The next four cells are a row if the first is a date and the last two are
\* amounts; anything is a description.
ParseRow ==
    /\ stage = "rows" /\ 4 * Len(txs) < Len(cells)
    /\ LET i == 4 * Len(txs)
           t == <<cells[i + 1], cells[i + 2], cells[i + 3], cells[i + 4]>> IN
       IF t[1].kind = "date" /\ t[3].kind = "amount" /\ t[4].kind = "amount"
       THEN txs' = Append(txs, t) /\ stage' = stage
       ELSE txs' = <<>> /\ stage' = "rejected"
    /\ UNCHANGED <<statementVars, read, cells, csv>>

\* Parse returns, and ToCSV writes the column names and the rows.
ToCSV ==
    /\ stage = "rows" /\ 4 * Len(txs) = Len(cells)
    /\ stage' = "parsed"
    /\ csv'   = [header |-> TRUE, records |-> txs]
    /\ UNCHANGED <<statementVars, read, cells, txs>>

ParserNext ==
    \/ StatementNext /\ UNCHANGED <<stage, read, cells, txs, csv>>
    \/ Extract \/ ExtractFails
    \/ ScanLine \/ CheckLayout \/ ParseRow \/ ToCSV

ParserSpec == ParserInit /\ [][ParserNext]_parserVars

-----------------------------------------------------------------------------
(* Properties *)

\* The amount a formatted text stands for.
Value(text) ==
    LET size == 100 * text.units + text.cents IN IF text.minus THEN -size ELSE size

\* A statement is never misread: a result has the rows of the table, all of them
\* and each value in its column, whatever the descriptions look like and however
\* many of them were taken for furniture.
ParsedIsDrawn ==
    stage = "parsed" =>
        /\ Len(csv.records) = Total
        /\ \A r \in 1..Total :
              LET t == table[r]  record == csv.records[r] IN
              /\ record[1].text.units = t.date
              /\ record[2].kind = t.description /\ record[2].text.units = r
              /\ Value(record[3].text) = t.amount
              /\ Value(record[4].text) = t.balance

\* "The PDF layout is a contract": pdfgen's own statements, whose descriptions
\* are never taken for furniture, are read whatever the number of pages and of
\* rows, unless the pdf library fails.
OnlyLostCellsReject ==
    stage = "rejected" => \E r \in 1..Total : Dropped(table[r].description)

\* The result adds up as the statement did: read back from the text, each
\* balance is the one before it plus the amount, and the dates never go back.
ResultAddsUp ==
    stage = "parsed" =>
        \A r \in 2..Len(csv.records) :
            LET before == csv.records[r - 1]  this == csv.records[r] IN
            /\ Value(this[4].text) = Value(before[4].text) + Value(this[3].text)
            /\ this[1].text.units >= before[1].text.units

=============================================================================
