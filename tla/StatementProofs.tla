--------------------------- MODULE StatementProofs ---------------------------
(***************************************************************************)
(* Proofs about StatementParser, for any number of pages and rows, any     *)
(* descriptions and any amounts.  The argument is about positions: in the  *)
(* sequence of cells the parser keeps, only descriptions of the table can  *)
(* be missing, and a row of four that starts in step with the table and    *)
(* passes the checks ends in step with it.                                 *)
(***************************************************************************)
EXTENDS StatementParser, SequenceTheorems, TLAPS

(* The inductive invariant *)

Texts        == [minus : BOOLEAN, units : Int, cents : Int]
Lines        == [kind : Kinds, text : Texts, at : Int]
Transactions == [date : Int, description : Descriptions, amount : Int, balance : Int]

ParserTypeOK ==
    /\ day \in Int /\ balance \in Int
    /\ table \in Seq(Transactions) /\ Len(table) <= Total
    /\ drawn \in 0..Total /\ lines \in Seq(Lines) /\ closed \in BOOLEAN
    /\ stage \in {"unread", "scan", "rows", "parsed", "rejected", "unreadable"}
    /\ read \in 0..Len(lines)
    /\ cells \in Seq(Lines) /\ txs \in Seq(Seq(Lines))

\* The rows of the table add up, and end in what the generator carries.
Ledger ==
    /\ \A r \in 2..Len(table) :
          /\ table[r].balance = table[r - 1].balance + table[r].amount
          /\ table[r].date >= table[r - 1].date
    /\ table # <<>> => /\ table[Len(table)].balance = balance
                      /\ table[Len(table)].date = day

\* Cells of the table drawn after i elements of s.
At(s, i) == IF i = 0 THEN 0 ELSE s[i].at

IsTableCell(line) == \E r \in 1..Total, c \in 1..4 : line = RowCells(r)[c]

\* A document is furniture and the cells of the table, in their order.
Drawing ==
    /\ drawn > 0 \/ closed => Len(table) = Total
    /\ lines # <<>> => drawn > 0
    /\ closed => drawn = Total
    /\ stage # "unread" => closed
    /\ At(lines, Len(lines)) = 4 * drawn
    /\ \A i \in 1..Len(lines) :
          \/ lines[i].kind \in Furniture /\ lines[i].at = At(lines, i - 1)
          \/ IsTableCell(lines[i]) /\ lines[i].at = At(lines, i - 1) + 1

\* Between two cells of the table only a description can be missing.
Skipped(a, b) ==
    \/ a = b
    \/ \E r \in 1..Total : /\ a = 4 * (r - 1) + 1 /\ b = a + 1
                           /\ Dropped(table[r].description)

NoneDropped == \A r \in 1..Total : ~Dropped(table[r].description)

Scanned ==
    /\ stage = "unread" => read = 0 /\ cells = <<>>
    /\ Skipped(At(cells, Len(cells)), At(lines, read))
    /\ \A j \in 1..Len(cells) :
          /\ IsTableCell(cells[j])
          /\ Skipped(At(cells, j - 1), cells[j].at - 1)
          /\ NoneDropped => cells[j].at = j

\* The rows accepted so far are the first rows of the table.
Accepted ==
    /\ stage \notin {"rows", "parsed"} => txs = <<>>
    /\ stage \in {"rows", "parsed"} =>
          /\ read = Len(lines)
          /\ Len(cells) % 4 = 0 /\ 4 * Len(txs) <= Len(cells)
          /\ At(cells, 4 * Len(txs)) = 4 * Len(txs)
          /\ \A r \in 1..Len(txs) : r <= Total /\ txs[r] = RowCells(r)
    /\ stage = "parsed" => 4 * Len(txs) = Len(cells) /\ csv.records = txs

ParserInv ==
    /\ ParserTypeOK
    /\ Ledger
    /\ Drawing
    /\ closed => Scanned
    /\ ~closed => read = 0 /\ cells = <<>>
    /\ Accepted
    /\ OnlyLostCellsReject

-----------------------------------------------------------------------------
(* The operators *)

\* What a formatted amount reads back as.
THEOREM FormatReadsBack == \A c \in Int : Value(FormatCents(c)) = c /\ FormatCents(c) \in Texts
<1>1. ASSUME NEW size \in Nat
      PROVE  /\ 100 * (size \div 100) + (size % 100) = size
             /\ size \div 100 \in Int /\ size % 100 \in Int
  OBVIOUS
<1>2. ASSUME NEW c \in Int, c < 0 PROVE Value(FormatCents(c)) = c /\ FormatCents(c) \in Texts
  <2>1. FormatCents(c) = [minus |-> TRUE, units |-> (-c) \div 100, cents |-> (-c) % 100]
    BY <1>2 DEF FormatCents
  <2>2. -c \in Nat
    BY <1>2
  <2> QED
    BY <1>1, <2>1, <2>2 DEF Value, Texts
<1>3. ASSUME NEW c \in Int, c >= 0 PROVE Value(FormatCents(c)) = c /\ FormatCents(c) \in Texts
  <2>1. FormatCents(c) = [minus |-> FALSE, units |-> c \div 100, cents |-> c % 100]
    <3>1. (c < 0) = FALSE
      BY <1>3
    <3> QED
      BY <3>1 DEF FormatCents
  <2> QED
    BY <1>1, <1>3, <2>1 DEF Value, Texts
<1> QED
  BY <1>2, <1>3

LEMMA TotalType == Total \in Nat /\ Total > 0 /\ RowsPerPage \in Nat
<1>1. \A m, n \in Nat \ {0} : m * n \in Nat /\ m * n > 0
  OBVIOUS
<1> QED
  BY <1>1, StatementAssumption DEF Total, MaxRowsPerPage

\* The four cells of a row.
LEMMA RowFacts ==
    ASSUME ParserTypeOK, NEW r \in 1..Len(table)
    PROVE  /\ table[r] \in Transactions
           /\ RowCells(r) \in Seq(Lines) /\ Len(RowCells(r)) = 4
           /\ RowCells(r) = <<RowCells(r)[1], RowCells(r)[2], RowCells(r)[3], RowCells(r)[4]>>
           /\ \A c \in 1..4 : /\ RowCells(r)[c].at = 4 * (r - 1) + c
                              /\ RowCells(r)[c] \in Lines
           /\ RowCells(r)[1].kind = "date"
           /\ RowCells(r)[2].kind = table[r].description
           /\ RowCells(r)[3].kind = "amount" /\ RowCells(r)[4].kind = "amount"
           /\ RowCells(r)[1].text.units = table[r].date
           /\ RowCells(r)[2].text.units = r
           /\ RowCells(r)[3].text = FormatCents(table[r].amount)
           /\ RowCells(r)[4].text = FormatCents(table[r].balance)
<1>1. table[r] \in Transactions
  BY DEF ParserTypeOK
<1>2. /\ table[r].date \in Int /\ table[r].amount \in Int /\ table[r].balance \in Int
      /\ table[r].description \in Kinds
  BY <1>1, StatementAssumption DEF Transactions
<1>3. /\ Plain(table[r].date) \in Texts /\ Plain(r) \in Texts
      /\ Plain(table[r].date).units = table[r].date /\ Plain(r).units = r
  BY <1>2 DEF Plain, Texts
<1>4. FormatCents(table[r].amount) \in Texts /\ FormatCents(table[r].balance) \in Texts
  BY <1>2, FormatReadsBack
<1>5. \A k \in Kinds, t \in Texts, n \in Int :
          /\ Line(k, t, n) \in Lines /\ Line(k, t, n).at = n
          /\ Line(k, t, n).kind = k /\ Line(k, t, n).text = t
  BY DEF Line, Lines
<1>6. RowCells(r) = <<Line("date", Plain(table[r].date), 4 * (r - 1) + 1),
                      Line(table[r].description, Plain(r), 4 * (r - 1) + 2),
                      Line("amount", FormatCents(table[r].amount), 4 * (r - 1) + 3),
                      Line("amount", FormatCents(table[r].balance), 4 * (r - 1) + 4)>>
  BY DEF RowCells
<1>7. "date" \in Kinds /\ "amount" \in Kinds
  BY DEF Kinds
<1>a. /\ 4 * (r - 1) + 1 \in Int /\ 4 * (r - 1) + 2 \in Int
      /\ 4 * (r - 1) + 3 \in Int /\ 4 * (r - 1) + 4 \in Int
  OBVIOUS
<1>b. PICK l1 \in Lines : /\ l1 = Line("date", Plain(table[r].date), 4 * (r - 1) + 1)
                          /\ l1.at = 4 * (r - 1) + 1 /\ l1.kind = "date"
                          /\ l1.text = Plain(table[r].date)
  BY <1>3, <1>5, <1>7, <1>a
<1>c. PICK l2 \in Lines : /\ l2 = Line(table[r].description, Plain(r), 4 * (r - 1) + 2)
                          /\ l2.at = 4 * (r - 1) + 2 /\ l2.kind = table[r].description
                          /\ l2.text = Plain(r)
  <2>1. PICK k \in Kinds : k = table[r].description
    BY <1>2
  <2>2. /\ Line(k, Plain(r), 4 * (r - 1) + 2) \in Lines
        /\ Line(k, Plain(r), 4 * (r - 1) + 2).at = 4 * (r - 1) + 2
        /\ Line(k, Plain(r), 4 * (r - 1) + 2).kind = k
        /\ Line(k, Plain(r), 4 * (r - 1) + 2).text = Plain(r)
    BY <1>3, <1>5, <1>a
  <2> QED
    BY <2>1, <2>2
<1>d. PICK l3 \in Lines :
         /\ l3 = Line("amount", FormatCents(table[r].amount), 4 * (r - 1) + 3)
         /\ l3.at = 4 * (r - 1) + 3 /\ l3.kind = "amount"
         /\ l3.text = FormatCents(table[r].amount)
  BY <1>4, <1>5, <1>7, <1>a
<1>e. PICK l4 \in Lines :
         /\ l4 = Line("amount", FormatCents(table[r].balance), 4 * (r - 1) + 4)
         /\ l4.at = 4 * (r - 1) + 4 /\ l4.kind = "amount"
         /\ l4.text = FormatCents(table[r].balance)
  BY <1>4, <1>5, <1>7, <1>a
<1>8. RowCells(r) = <<l1, l2, l3, l4>>
  BY <1>6, <1>b, <1>c, <1>d, <1>e
<1>9. \A c \in 1..4 : c = 1 \/ c = 2 \/ c = 3 \/ c = 4
  OBVIOUS
<1> QED
  BY <1>1, <1>3, <1>8, <1>9, <1>b, <1>c, <1>d, <1>e

-----------------------------------------------------------------------------
(* Drawing *)

LEMMA ParserInitInv == ParserInit => ParserInv
<1> SUFFICES ASSUME ParserInit PROVE ParserInv
  OBVIOUS
<1>1. /\ day = 1 /\ balance \in Int /\ table = <<>> /\ drawn = 0 /\ lines = <<>>
      /\ closed = FALSE /\ stage = "unread" /\ read = 0 /\ cells = <<>> /\ txs = <<>>
  BY StatementAssumption DEF ParserInit, StatementInit
<1>2. Len(table) = 0 /\ Len(lines) = 0 /\ Len(cells) = 0
  BY <1>1
<1>3. ParserTypeOK
  <2>1. /\ table \in Seq(Transactions) /\ lines \in Seq(Lines) /\ cells \in Seq(Lines)
        /\ txs \in Seq(Seq(Lines))
    BY <1>1
  <2>2. day \in Int /\ drawn \in 0..Total /\ Len(table) <= Total /\ read \in 0..Len(lines)
    BY <1>1, <1>2, TotalType
  <2>3. closed \in BOOLEAN
    BY <1>1
  <2> QED
    BY <1>1, <2>1, <2>2, <2>3 DEF ParserTypeOK
<1>4. Ledger /\ Drawing
  BY <1>1, <1>2, TotalType DEF Ledger, Drawing, At
<1> QED
  BY <1>1, <1>2, <1>3, <1>4 DEF ParserInv, Accepted, OnlyLostCellsReject

LEMMA AddStep ==
    ASSUME ParserInv, NEW days \in 0..1, NEW desc \in Descriptions, NEW amount \in Amounts,
           AddTransaction(days, desc, amount), UNCHANGED <<stage, read, cells, txs, csv>>
    PROVE  ParserInv'
<1>1. /\ Len(table) < Total /\ day' = day + days /\ balance' = balance + amount
      /\ drawn' = drawn /\ lines' = lines /\ closed' = closed
  BY DEF AddTransaction
<1>2. /\ day \in Int /\ balance \in Int /\ table \in Seq(Transactions) /\ amount \in Int
      /\ drawn \in 0..Total /\ closed \in BOOLEAN
  BY StatementAssumption DEF ParserInv, ParserTypeOK
<1>3. PICK t \in Transactions :
         /\ t.date = day' /\ t.amount = amount /\ t.balance = balance'
         /\ table' = Append(table, t)
  BY <1>1, <1>2 DEF AddTransaction, Transactions
<1>4. /\ Len(table') = Len(table) + 1 /\ table' \in Seq(Transactions)
      /\ table'[Len(table) + 1] = t /\ \A r \in 1..Len(table) : table'[r] = table[r]
  BY <1>2, <1>3
<1>5. drawn = 0 /\ ~closed /\ stage = "unread"
  BY <1>1, <1>2, TotalType DEF ParserInv, Drawing
<1>6. lines = <<>> /\ read = 0 /\ cells = <<>> /\ txs = <<>>
  BY <1>2, <1>5 DEF ParserInv, Drawing, Accepted
<1>7. ParserTypeOK'
  BY <1>1, <1>2, <1>4, TotalType DEF ParserInv, ParserTypeOK
<1>8. Ledger'
  <2>1. ASSUME NEW r \in 2..Len(table')
        PROVE  /\ table'[r].balance = table'[r - 1].balance + table'[r].amount
               /\ table'[r].date >= table'[r - 1].date
    <3>1. CASE r \in 2..Len(table)
      BY <1>4, <3>1 DEF ParserInv, Ledger
    <3>2. CASE r = Len(table) + 1
      <4>1. Len(table) \in 1..Len(table) /\ table # <<>>
        BY <1>2, <3>2
      <4>2. table'[r - 1] = table[Len(table)]
        BY <1>2, <1>4, <3>2, <4>1
      <4>3. table[Len(table)].balance = balance /\ table[Len(table)].date = day
        BY <4>1 DEF ParserInv, Ledger
      <4> QED
        BY <1>1, <1>2, <1>3, <1>4, <3>2, <4>2, <4>3
    <3> QED
      BY <1>2, <1>4, <3>1, <3>2
  <2>2. table'[Len(table')].balance = balance' /\ table'[Len(table')].date = day'
    BY <1>3, <1>4
  <2> QED
    BY <2>1, <2>2 DEF Ledger
<1>9. Drawing'
  BY <1>1, <1>5, <1>6 DEF Drawing, At
<1> QED
  BY <1>1, <1>5, <1>6, <1>7, <1>8, <1>9 DEF ParserInv, Accepted, OnlyLostCellsReject

LEMMA PageBreakFacts ==
    ASSUME drawn \in Nat
    PROVE  /\ PageBreak \in Seq(Lines)
           /\ \A i \in 1..Len(PageBreak) : /\ PageBreak[i].kind \in Furniture
                                          /\ PageBreak[i].at = 4 * drawn
<1> DEFINE Fur == {l \in Lines : l.kind \in Furniture /\ l.at = 4 * drawn}
<1>1. \A k \in Furniture : Line(k, Plain(0), 4 * drawn) \in Fur
  BY DEF Line, Plain, Lines, Texts, Furniture, Kinds
<1>2. Header(4 * drawn) \in Seq(Fur)
  BY <1>1 DEF Header, Furniture
<1>3. <<Footer(4 * drawn)>> \in Seq(Fur)
  BY <1>1 DEF Footer, Furniture
<1>4. PageBreak \in {<<>>, Header(4 * drawn), <<Footer(4 * drawn)>> \o Header(4 * drawn)}
  <2>1. drawn = 0 => Header(0) = Header(4 * drawn)
    OBVIOUS
  <2> QED
    BY <2>1 DEF PageBreak
<1>5. PageBreak \in Seq(Fur)
  <2>1. <<Footer(4 * drawn)>> \o Header(4 * drawn) \in Seq(Fur)
    BY <1>2, <1>3
  <2> QED
    <3> HIDE DEF Fur
    <3>1. <<>> \in Seq(Fur)
      OBVIOUS
    <3> QED
      BY <1>2, <1>4, <2>1, <3>1
<1>6. \A i \in 1..Len(PageBreak) : PageBreak[i] \in Fur
  BY <1>5
<1>7. \A q \in Seq(Fur) : q \in Seq(Lines)
  OBVIOUS
<1> QED
  BY <1>5, <1>6, <1>7

\* Each step of the renderer leaves the table and the parser alone.
LEMMA SameTable ==
    ASSUME table' = table
    PROVE  /\ \A r : RowCells(r)' = RowCells(r)
           /\ \A l : IsTableCell(l)' <=> IsTableCell(l)
BY DEF RowCells, IsTableCell

\* t is u appended to s: its elements, and the count of cells before each of them.
Appended(s, u, t) ==
    /\ Len(t) = Len(s) + Len(u)
    /\ \A i \in 1..Len(s) : t[i] = s[i] /\ At(t, i - 1) = At(s, i - 1)
    /\ \A k \in 1..Len(u) :
          /\ t[Len(s) + k] = u[k]
          /\ At(t, Len(s) + k - 1) = IF k = 1 THEN At(s, Len(s)) ELSE u[k - 1].at
    /\ At(t, Len(t)) = IF u = <<>> THEN At(s, Len(s)) ELSE u[Len(u)].at
    /\ \A i \in 1..Len(t) : i \in 1..Len(s) \/ \E k \in 1..Len(u) : i = Len(s) + k

LEMMA Extend ==
    ASSUME NEW s \in Seq(Lines), NEW u \in Seq(Lines), NEW t \in Seq(Lines), t = s \o u
    PROVE  Appended(s, u, t)
<1>1. /\ Len(t) = Len(s) + Len(u)
      /\ Len(s) \in Nat /\ Len(u) \in Nat
      /\ \A i \in 1..Len(s) + Len(u) : t[i] = IF i <= Len(s) THEN s[i] ELSE u[i - Len(s)]
  BY ConcatProperties, LenProperties
<1>2. \A i \in 1..Len(s) : t[i] = s[i]
  BY <1>1
<1>3. \A i \in 0..Len(s) : At(t, i) = At(s, i)
  BY <1>1, <1>2 DEF At
<1>4. ASSUME NEW k \in 1..Len(u)
      PROVE  t[Len(s) + k] = u[k] /\ At(t, Len(s) + k) = u[k].at
  <2>1. Len(s) + k \in 1..Len(s) + Len(u) /\ ~(Len(s) + k <= Len(s)) /\ Len(s) + k - Len(s) = k
    BY <1>1
  <2>2. t[Len(s) + k] = u[k]
    BY <1>1, <2>1
  <2>3. Len(s) + k # 0
    BY <1>1
  <2> QED
    BY <2>2, <2>3 DEF At
<1>5. ASSUME NEW k \in 1..Len(u)
      PROVE  At(t, Len(s) + k - 1) = IF k = 1 THEN At(s, Len(s)) ELSE u[k - 1].at
  <2>1. CASE k = 1
    <3>1. Len(s) + k - 1 = Len(s) /\ Len(s) \in 0..Len(s)
      BY <1>1, <2>1
    <3> QED
      BY <1>3, <2>1, <3>1
  <2>2. CASE k # 1
    <3>1. PICK j \in 1..Len(u) : j = k - 1
      BY <1>1, <2>2
    <3>2. Len(s) + k - 1 = Len(s) + j
      BY <1>1, <3>1
    <3> QED
      BY <1>4, <2>2, <3>1, <3>2
  <2> QED
    BY <2>1, <2>2
<1>6. \A i \in 1..Len(s) : i - 1 \in 0..Len(s)
  BY <1>1
<1>7. At(t, Len(t)) = IF u = <<>> THEN At(s, Len(s)) ELSE u[Len(u)].at
  <2>1. CASE u = <<>>
    <3>1. Len(t) = Len(s) /\ Len(s) \in 0..Len(s)
      BY <1>1, <2>1
    <3> QED
      BY <1>3, <2>1, <3>1
  <2>2. CASE u # <<>>
    <3>1. Len(u) \in 1..Len(u)
      BY <2>2, EmptySeq
    <3> QED
      BY <1>1, <1>4, <2>2, <3>1
  <2> QED
    BY <2>1, <2>2
<1>8. ASSUME NEW i \in 1..Len(t), i \notin 1..Len(s)
      PROVE  \E k \in 1..Len(u) : i = Len(s) + k
  <2>1. i - Len(s) \in 1..Len(u) /\ i = Len(s) + (i - Len(s))
    BY <1>1, <1>8
  <2> QED
    BY <2>1
<1> QED
  BY <1>1, <1>2, <1>3, <1>4, <1>5, <1>6, <1>7, <1>8 DEF Appended

LEMMA DrawStep ==
    ASSUME ParserInv, DrawRow, UNCHANGED <<stage, read, cells, txs, csv>>
    PROVE  ParserInv'
<1>1. /\ Len(table) = Total /\ drawn < Total /\ drawn' = drawn + 1
      /\ lines' = lines \o PageBreak \o RowCells(drawn + 1)
      /\ day' = day /\ balance' = balance /\ table' = table /\ closed' = closed
  BY DEF DrawRow
<1>2. /\ drawn \in 0..Total /\ lines \in Seq(Lines) /\ ParserTypeOK
      /\ drawn \in Nat /\ drawn + 1 \in 1..Len(table)
  BY <1>1, TotalType DEF ParserInv, ParserTypeOK
<1>3. ~closed /\ stage = "unread" /\ read = 0 /\ cells = <<>> /\ txs = <<>>
  BY <1>1, <1>2 DEF ParserInv, Drawing, Accepted
<1>4. PICK b \in Seq(Lines) : b = PageBreak
  BY <1>2, PageBreakFacts
<1>5. PICK n \in Int : n = 4 * drawn
  BY <1>2
<1>6. PICK r \in 1..Len(table) : r = drawn + 1
  BY <1>2
<1>7. PICK u \in Seq(Lines) : u = RowCells(r)
  BY <1>2, RowFacts
<1>8. Len(u) = 4 /\ \A c \in 1..4 : u[c].at = n + c /\ IsTableCell(u[c])
  <2>1. Len(u) = 4 /\ \A c \in 1..4 : u[c].at = 4 * (r - 1) + c
    BY <1>2, <1>7, RowFacts
  <2>2. 4 * (r - 1) = n
    BY <1>2, <1>5, <1>6
  <2>3. \A c \in 1..4 : IsTableCell(u[c])
    BY <1>1, <1>7 DEF IsTableCell
  <2> QED
    BY <2>1, <2>2, <2>3
<1>9. \A i \in 1..Len(b) : b[i].kind \in Furniture /\ b[i].at = n
  BY <1>2, <1>4, <1>5, PageBreakFacts
<1>10. PICK m \in Seq(Lines) : m = lines \o b
  BY <1>2, ConcatProperties
<1>11. PICK t \in Seq(Lines) : t = m \o u
  BY ConcatProperties
<1>b. Appended(lines, b, m)
  BY <1>2, <1>10, Extend
<1>c. Appended(m, u, t)
  BY <1>11, Extend
<1>12. lines' = t
  BY <1>1, <1>4, <1>6, <1>7, <1>10, <1>11
<1>13. At(lines, Len(lines)) = n
  BY <1>5 DEF ParserInv, Drawing
<1> DEFINE Fine(q, i) == \/ q[i].kind \in Furniture /\ q[i].at = At(q, i - 1)
                         \/ IsTableCell(q[i]) /\ q[i].at = At(q, i - 1) + 1
<1>14. (\A i \in 1..Len(m) : Fine(m, i)) /\ At(m, Len(m)) = n
  <2>1. ASSUME NEW i \in 1..Len(lines) PROVE Fine(m, i)
    <3>1. Fine(lines, i)
      BY DEF ParserInv, Drawing
    <3>2. m[i] = lines[i] /\ At(m, i - 1) = At(lines, i - 1)
      BY <1>b DEF Appended
    <3> QED
      BY <3>1, <3>2
  <2>2. ASSUME NEW k \in 1..Len(b) PROVE Fine(m, Len(lines) + k)
    <3>1. /\ m[Len(lines) + k] = b[k]
          /\ At(m, Len(lines) + k - 1) = IF k = 1 THEN At(lines, Len(lines)) ELSE b[k - 1].at
      BY <1>b DEF Appended
    <3>2. k # 1 => k - 1 \in 1..Len(b)
      BY LenProperties
    <3>3. At(m, Len(lines) + k - 1) = n
      BY <1>9, <1>13, <3>1, <3>2
    <3> QED
      BY <1>9, <3>1, <3>3
  <2>3. At(m, Len(m)) = n
    <3>1. At(m, Len(m)) = IF b = <<>> THEN At(lines, Len(lines)) ELSE b[Len(b)].at
      BY <1>b DEF Appended
    <3>2. b # <<>> => Len(b) \in 1..Len(b)
      BY EmptySeq
    <3> QED
      BY <1>9, <1>13, <3>1, <3>2
  <2>4. \A i \in 1..Len(m) : i \in 1..Len(lines) \/ \E k \in 1..Len(b) : i = Len(lines) + k
    BY <1>b DEF Appended
  <2> HIDE DEF Fine
  <2> QED
    BY <2>1, <2>2, <2>3, <2>4
<1>15. (\A i \in 1..Len(t) : Fine(t, i)) /\ At(t, Len(t)) = n + 4
  <2>1. ASSUME NEW i \in 1..Len(m) PROVE Fine(t, i)
    <3>1. t[i] = m[i] /\ At(t, i - 1) = At(m, i - 1)
      BY <1>c DEF Appended
    <3> QED
      BY <1>14, <3>1
  <2>2. ASSUME NEW c \in 1..Len(u) PROVE Fine(t, Len(m) + c)
    <3>1. /\ t[Len(m) + c] = u[c]
          /\ At(t, Len(m) + c - 1) = IF c = 1 THEN At(m, Len(m)) ELSE u[c - 1].at
      BY <1>c DEF Appended
    <3>2. c \in 1..4 /\ (c # 1 => c - 1 \in 1..4)
      BY <1>8
    <3>3. At(t, Len(m) + c - 1) = n + (c - 1)
      <4>1. CASE c = 1
        <5> HIDE DEF Fine
        <5>1. At(t, Len(m) + c - 1) = n
          BY <1>14, <3>1, <4>1
        <5> QED
          BY <4>1, <5>1
      <4>2. CASE c # 1
        <5>1. PICK j \in 1..4 : j = c - 1
          BY <3>2, <4>2
        <5>2. At(t, Len(m) + c - 1) = u[j].at
          BY <3>1, <4>2, <5>1
        <5> QED
          BY <1>8, <5>1, <5>2
      <4> QED
        BY <4>1, <4>2
    <3> QED
      BY <1>8, <3>1, <3>2, <3>3
  <2>3. At(t, Len(t)) = n + 4
    <3>1. At(t, Len(t)) = IF u = <<>> THEN At(m, Len(m)) ELSE u[Len(u)].at
      BY <1>c DEF Appended
    <3>2. u # <<>>
      <4>1. ASSUME u = <<>> PROVE FALSE
        <5>1. Len(u) = 0
          BY <4>1
        <5> QED
          BY <1>8, <5>1
      <4> QED
        BY <4>1
    <3> QED
      BY <1>8, <3>1, <3>2
  <2>4. \A i \in 1..Len(t) : i \in 1..Len(m) \/ \E c \in 1..Len(u) : i = Len(m) + c
    BY <1>c DEF Appended
  <2> HIDE DEF Fine
  <2> QED
    BY <2>1, <2>2, <2>3, <2>4
<1>16. Drawing'
  <2>1. \A k : RowCells(k)' = RowCells(k)
    BY <1>1, SameTable
  <2>2. At(lines', Len(lines')) = 4 * drawn'
    <3>1. At(lines', Len(lines')) = At(t, Len(t))
      BY <1>12
    <3>2. 4 * drawn' = n + 4
      BY <1>1, <1>2, <1>5
    <3> QED
      BY <1>15, <3>1, <3>2
  <2>3. drawn' > 0 /\ Len(table') = Total /\ ~closed' /\ stage' = "unread"
    BY <1>1, <1>2, <1>3
  <2>4. ASSUME NEW i \in 1..Len(lines')
        PROVE  \/ lines'[i].kind \in Furniture /\ lines'[i].at = At(lines', i - 1)
               \/ /\ \E k \in 1..Total, c \in 1..4 : lines'[i] = RowCells(k)'[c]
                  /\ lines'[i].at = At(lines', i - 1) + 1
    <3>1. Fine(t, i)
      BY <1>12, <1>15
    <3>2. IsTableCell(t[i]) => \E k \in 1..Total, c \in 1..4 : t[i] = RowCells(k)'[c]
      BY <2>1 DEF IsTableCell
    <3>3. lines'[i] = t[i] /\ At(lines', i - 1) = At(t, i - 1)
      BY <1>12
    <3> QED
      BY <3>1, <3>2, <3>3
  <2> QED
    BY <2>2, <2>3, <2>4 DEF Drawing, IsTableCell
<1>17. ParserTypeOK'
  <2>1. drawn' \in 0..Total
    BY <1>1, <1>2, TotalType
  <2>3. lines' \in Seq(Lines)
    BY <1>12
  <2>2. read' \in 0..Len(lines')
    BY <1>3, <2>3, LenProperties
  <2> QED
    BY <1>1, <1>2, <2>1, <2>2, <2>3 DEF ParserTypeOK
<1> QED
  BY <1>1, <1>3, <1>16, <1>17 DEF ParserInv, Ledger, Accepted, OnlyLostCellsReject

\* Skipped after a step, its arguments being values of after it.
SkippedThen(a, b) ==
    \/ a = b
    \/ \E r \in 1..Total : /\ a = 4 * (r - 1) + 1 /\ b = a + 1
                           /\ Dropped(table'[r].description)

\* t is s and one more element.
Grown(s, x, t) ==
    /\ t \in Seq(Lines) /\ Len(t) = Len(s) + 1
    /\ \A i \in 1..Len(s) : t[i] = s[i] /\ At(t, i - 1) = At(s, i - 1)
    /\ t[Len(t)] = x /\ At(t, Len(t) - 1) = At(s, Len(s)) /\ At(t, Len(t)) = x.at

LEMMA Grow ==
    ASSUME NEW s \in Seq(Lines), NEW x \in Lines, NEW t, t = Append(s, x)
    PROVE  Grown(s, x, t)
<1>1. /\ t \in Seq(Lines) /\ Len(t) = Len(s) + 1 /\ Len(s) \in Nat
      /\ \A i \in 1..Len(s) : t[i] = s[i]
      /\ t[Len(s) + 1] = x
  BY AppendProperties, LenProperties
<1>2. \A i \in 0..Len(s) : At(t, i) = At(s, i)
  BY <1>1 DEF At
<1>3. \A i \in 1..Len(s) : i - 1 \in 0..Len(s)
  BY <1>1
<1>4. At(t, Len(t)) = x.at
  BY <1>1 DEF At
<1>5. Len(t) - 1 = Len(s) /\ Len(s) \in 0..Len(s)
  BY <1>1
<1> QED
  BY <1>1, <1>2, <1>3, <1>4, <1>5 DEF Grown

LEMMA OutputStep ==
    ASSUME ParserInv, Output, UNCHANGED <<stage, read, cells, txs, csv>>
    PROVE  ParserInv'
<1>1. /\ Len(table) = Total /\ drawn = Total /\ ~closed /\ closed' = TRUE
      /\ lines' = Append(lines, Footer(4 * drawn))
      /\ day' = day /\ balance' = balance /\ table' = table /\ drawn' = drawn
  BY DEF Output
<1>2. /\ lines \in Seq(Lines) /\ ParserTypeOK /\ drawn \in Nat /\ drawn \in 0..Total
  BY <1>1, TotalType DEF ParserInv, ParserTypeOK
<1>3. stage = "unread" /\ read = 0 /\ cells = <<>> /\ txs = <<>>
  BY <1>1, <1>2 DEF ParserInv, Drawing, Accepted
<1>4. PICK f \in Lines : f = Footer(4 * drawn) /\ f.kind \in Furniture /\ f.at = 4 * drawn
  <2>1. PICK n \in Int : n = 4 * drawn
    BY <1>2
  <2>2. Line("page", Plain(0), n) \in Lines
    BY DEF Line, Plain, Lines, Texts, Furniture, Kinds
  <2>3. Footer(4 * drawn) = Line("page", Plain(0), n)
    BY <2>1 DEF Footer
  <2>4. Line("page", Plain(0), n).kind = "page" /\ Line("page", Plain(0), n).at = n
    BY DEF Line
  <2> QED
    BY <2>1, <2>2, <2>3, <2>4 DEF Furniture
<1>5. PICK t : t = Append(lines, f)
  OBVIOUS
<1>6. lines' = t
  BY <1>1, <1>4, <1>5
<1>7. Grown(lines, f, t)
  BY <1>2, <1>5, Grow
<1>8. At(lines, Len(lines)) = 4 * drawn
  BY DEF ParserInv, Drawing
<1>9. \A k : RowCells(k)' = RowCells(k)
  BY <1>1, SameTable
<1>10. ASSUME NEW i \in 1..Len(t)
       PROVE  \/ t[i].kind \in Furniture /\ t[i].at = At(t, i - 1)
              \/ IsTableCell(t[i]) /\ t[i].at = At(t, i - 1) + 1
  <2>1. i \in 1..Len(lines) \/ i = Len(t)
    BY <1>2, <1>7, LenProperties DEF Grown
  <2>2. CASE i \in 1..Len(lines)
    <3>1. t[i] = lines[i] /\ At(t, i - 1) = At(lines, i - 1)
      BY <1>7, <2>2 DEF Grown
    <3> QED
      BY <2>2, <3>1 DEF ParserInv, Drawing
  <2>3. CASE i = Len(t)
    BY <1>4, <1>7, <1>8, <2>3 DEF Grown
  <2> QED
    BY <2>1, <2>2, <2>3
<1>11. Drawing'
  <2>1. ASSUME NEW i \in 1..Len(lines')
        PROVE  \/ lines'[i].kind \in Furniture /\ lines'[i].at = At(lines', i - 1)
               \/ /\ \E k \in 1..Total, c \in 1..4 : lines'[i] = RowCells(k)'[c]
                  /\ lines'[i].at = At(lines', i - 1) + 1
    <3>1. IsTableCell(t[i]) => \E k \in 1..Total, c \in 1..4 : t[i] = RowCells(k)'[c]
      BY <1>9 DEF IsTableCell
    <3>2. lines'[i] = t[i] /\ At(lines', i - 1) = At(t, i - 1) /\ i \in 1..Len(t)
      BY <1>6
    <3> QED
      BY <1>10, <3>1, <3>2
  <2>2. At(lines', Len(lines')) = 4 * drawn'
    <3>1. At(lines', Len(lines')) = At(t, Len(t))
      BY <1>6
    <3> QED
      BY <1>1, <1>4, <1>7, <3>1 DEF Grown
  <2>3. drawn' > 0 /\ Len(table') = Total /\ drawn' = Total /\ closed'
    BY <1>1, TotalType
  <2> QED
    BY <2>1, <2>2, <2>3 DEF Drawing, IsTableCell
<1>12. ParserTypeOK'
  <2>1. lines' \in Seq(Lines)
    BY <1>6, <1>7 DEF Grown
  <2>2. read' \in 0..Len(lines')
    BY <1>3, <2>1, LenProperties
  <2>3. closed' \in BOOLEAN
    BY <1>1
  <2> QED
    BY <1>1, <1>2, <2>1, <2>2, <2>3 DEF ParserTypeOK
<1>13. Scanned'
  <2>1. Len(cells') = 0 /\ read' = 0
    BY <1>3
  <2>2. At(cells', Len(cells')) = 0 /\ At(lines', read') = 0
    BY <2>1 DEF At
  <2> QED
    BY <1>3, <2>1, <2>2 DEF Scanned, Skipped
<1> QED
  BY <1>1, <1>3, <1>11, <1>12, <1>13 DEF ParserInv, Ledger, Accepted, OnlyLostCellsReject

-----------------------------------------------------------------------------
(* Parsing *)

\* The steps of the parser leave the statement alone.
LEMMA SameStatement ==
    ASSUME ParserInv, UNCHANGED statementVars, closed
    PROVE  /\ Ledger' /\ Drawing' /\ closed'
           /\ \A a, b : Skipped(a, b)' <=> Skipped(a, b)
           /\ \A l : IsTableCell(l)' <=> IsTableCell(l)
           /\ \A r : RowCells(r)' = RowCells(r)
           /\ NoneDropped' <=> NoneDropped
BY DEF statementVars, ParserInv, Ledger, Drawing, Skipped, IsTableCell, RowCells, NoneDropped, At

\* A cell of the table: where it is, and what it looks like.
LEMMA CellFacts ==
    ASSUME ParserTypeOK, Len(table) = Total, NEW l, IsTableCell(l)
    PROVE  \E r \in 1..Total, c \in 1..4 :
              /\ l = RowCells(r)[c] /\ l.at = 4 * (r - 1) + c /\ l \in Lines
              /\ c = 1 => l.kind = "date"
              /\ c = 2 => l.kind = table[r].description
              /\ c \in {3, 4} => l.kind = "amount"
<1>1. PICK r \in 1..Total, c \in 1..4 : l = RowCells(r)[c]
  BY DEF IsTableCell
<1>2. r \in 1..Len(table)
  OBVIOUS
<1>3. /\ RowCells(r)[c].at = 4 * (r - 1) + c /\ RowCells(r)[c] \in Lines
      /\ RowCells(r)[1].kind = "date" /\ RowCells(r)[2].kind = table[r].description
      /\ RowCells(r)[3].kind = "amount" /\ RowCells(r)[4].kind = "amount"
  BY <1>2, RowFacts
<1> QED
  BY <1>1, <1>3

LEMMA AtInt ==
    ASSUME NEW s \in Seq(Lines), NEW i \in 0..Len(s)
    PROVE  At(s, i) \in Int
<1>1. CASE i = 0
  BY <1>1 DEF At
<1>2. CASE i # 0
  <2>1. i \in 1..Len(s)
    BY <1>2, LenProperties
  <2>2. PICK l \in Lines : l = s[i]
    BY <2>1, ElementOfSeq
  <2> QED
    BY <1>2, <2>2 DEF At, Lines
<1> QED
  BY <1>1, <1>2

LEMMA ScanStep == ASSUME ParserInv, ScanLine PROVE ParserInv'
<1>1. /\ stage = "scan" /\ read < Len(lines) /\ read' = read + 1
      /\ cells' = IF Dropped(lines[read + 1].kind) THEN cells ELSE Append(cells, lines[read + 1])
      /\ UNCHANGED <<statementVars, stage, txs, csv>>
  BY DEF ScanLine
<1>2. /\ ParserTypeOK /\ closed /\ Len(table) = Total /\ Drawing /\ Scanned
      /\ lines \in Seq(Lines) /\ cells \in Seq(Lines) /\ read \in 0..Len(lines)
  BY <1>1 DEF ParserInv, Drawing, ParserTypeOK
<1>3. txs = <<>> /\ txs' = <<>>
  BY <1>1, <1>2 DEF ParserInv, Accepted
<1>4. PICK i \in 1..Len(lines) : i = read + 1
  BY <1>1, <1>2, LenProperties
<1>5. PICK l \in Lines : l = lines[i]
  BY <1>2, ElementOfSeq
<1>6. \/ l.kind \in Furniture /\ l.at = At(lines, read)
      \/ IsTableCell(l) /\ l.at = At(lines, read) + 1
  <2>1. i - 1 = read
    BY <1>2, <1>4
  <2> QED
    BY <1>2, <1>5, <2>1 DEF Drawing
<1>7. At(lines, i) = l.at
  BY <1>5 DEF At
<1>8. Skipped(At(cells, Len(cells)), At(lines, read))
  BY <1>2 DEF Scanned
<1>9. statementVars' = statementVars
  BY <1>1
<1>10. /\ Ledger' /\ Drawing' /\ closed'
       /\ \A a, b : Skipped(a, b)' <=> Skipped(a, b)
       /\ \A c : IsTableCell(c)' <=> IsTableCell(c)
       /\ NoneDropped' <=> NoneDropped
  BY <1>2, <1>9, SameStatement
<1>11. lines' = lines /\ table' = table
  BY <1>9 DEF statementVars
<1>a. Accepted' /\ OnlyLostCellsReject'
  <2>1. stage' = "scan"
    BY <1>1
  <2> QED
    BY <1>3, <2>1 DEF Accepted, OnlyLostCellsReject
<1>12. CASE Dropped(l.kind)
  <2>1. cells' = cells
    BY <1>1, <1>4, <1>5, <1>12
  <2>2. Skipped(At(cells, Len(cells)), l.at)
    <3>1. CASE l.at = At(lines, read)
      BY <1>8, <3>1
    <3>2. CASE IsTableCell(l) /\ l.at = At(lines, read) + 1
      <4>1. PICK r \in 1..Total, c \in 1..4 :
               /\ l.at = 4 * (r - 1) + c
               /\ c = 1 => l.kind = "date"
               /\ c = 2 => l.kind = table[r].description
               /\ c \in {3, 4} => l.kind = "amount"
        BY <1>2, <3>2, CellFacts
      <4>2. c = 2 /\ Dropped(table[r].description)
        BY <1>12, <4>1 DEF Dropped, Furniture
      <4>3. At(cells, Len(cells)) = At(lines, read)
        <5>1. ASSUME NEW k \in 1..Total, At(lines, read) = 4 * (k - 1) + 1 + 1 PROVE FALSE
          <6>1. l.at = 4 * (k - 1) + 3 /\ l.at = 4 * (r - 1) + 2
            BY <3>2, <4>1, <4>2, <5>1, TotalType
          <6> QED
            BY <6>1, TotalType
        <5> QED
          BY <1>8, <5>1 DEF Skipped
      <4>4. At(cells, Len(cells)) = 4 * (r - 1) + 1
        <5>1. l.at \in Int
          BY <4>1, TotalType
        <5>2. At(lines, read) \in Int
          BY <1>2, AtInt
        <5> QED
          BY <3>2, <4>1, <4>2, <4>3, <5>1, <5>2, TotalType
      <4> QED
        BY <3>2, <4>2, <4>3, <4>4 DEF Skipped
    <3> QED
      BY <1>6, <3>1, <3>2
  <2>3. Scanned'
    <3>1. At(lines', read') = l.at
      BY <1>1, <1>4, <1>7, <1>11
    <3>2. Skipped(At(cells, Len(cells)), l.at)'
      BY <1>10, <2>1, <2>2
    <3> QED
      BY <1>1, <1>2, <1>10, <2>1, <2>2, <3>1 DEF Scanned
  <2>4. ParserTypeOK'
    BY <1>1, <1>2, <1>4, <1>11, <2>1, <1>9 DEF ParserTypeOK, statementVars
  <2> QED
    BY <1>10, <1>a, <2>3, <2>4 DEF ParserInv
<1>13. CASE ~Dropped(l.kind)
  <2>1. PICK q : q = Append(cells, l)
    OBVIOUS
  <2>2. cells' = q
    BY <1>1, <1>4, <1>5, <1>13, <2>1
  <2>3. Grown(cells, l, q)
    BY <1>2, <2>1, Grow
  <2>4. IsTableCell(l) /\ l.at = At(lines, read) + 1
    BY <1>6, <1>13 DEF Dropped
  <2>5. At(lines, read) = l.at - 1
    <3>1. At(lines, read) \in Int
      BY <1>2, AtInt
    <3> QED
      BY <2>4, <3>1
  <2>6. NoneDropped => l.at = Len(q)
    <3>1. ASSUME NoneDropped PROVE At(cells, Len(cells)) = Len(cells)
      <4>1. Len(cells) \in Nat
        BY <1>2, LenProperties
      <4>2. \A j \in 1..Len(cells) : cells[j].at = j
        BY <1>2, <3>1 DEF Scanned
      <4> QED
        BY <4>1, <4>2 DEF At
    <3>2. NoneDropped => At(cells, Len(cells)) = At(lines, read)
      BY <1>8 DEF Skipped, NoneDropped
    <3> QED
      BY <2>3, <2>4, <3>1, <3>2 DEF Grown
  <2>7. ASSUME NEW j \in 1..Len(q)
        PROVE  /\ IsTableCell(q[j])
               /\ Skipped(At(q, j - 1), q[j].at - 1)
               /\ NoneDropped => q[j].at = j
    <3>1. j \in 1..Len(cells) \/ j = Len(q)
      BY <1>2, <2>3, LenProperties DEF Grown
    <3>2. CASE j \in 1..Len(cells)
      <4>1. q[j] = cells[j] /\ At(q, j - 1) = At(cells, j - 1)
        BY <2>3, <3>2 DEF Grown
      <4>2. /\ IsTableCell(cells[j])
            /\ Skipped(At(cells, j - 1), cells[j].at - 1)
            /\ NoneDropped => cells[j].at = j
        BY <1>2, <3>2 DEF Scanned
      <4> QED
        BY <4>1, <4>2
    <3>3. CASE j = Len(q)
      <4>1. q[j] = l /\ At(q, j - 1) = At(cells, Len(cells))
        BY <2>3, <3>3 DEF Grown
      <4> QED
        BY <1>8, <2>4, <2>5, <2>6, <3>3, <4>1
    <3> QED
      BY <3>1, <3>2, <3>3
  <2>8. Scanned'
    <3>1. Skipped(At(q, Len(q)), At(lines, i))
      BY <1>7, <2>3 DEF Grown, Skipped
    <3>2. lines' = lines /\ read' = i /\ stage' = "scan"
      BY <1>1, <1>4, <1>11
    <3>3. \A a, b : Skipped(a, b) <=> SkippedThen(a, b)
      BY <1>11 DEF Skipped, SkippedThen
    <3>4. SkippedThen(At(cells', Len(cells')), At(lines', read'))
      BY <2>2, <3>1, <3>2, <3>3
    <3>5. ASSUME NEW j \in 1..Len(cells')
          PROVE  /\ \E k \in 1..Total, c \in 1..4 : cells'[j] = RowCells(k)'[c]
                 /\ SkippedThen(At(cells', j - 1), cells'[j].at - 1)
                 /\ NoneDropped' => cells'[j].at = j
      <4>1. /\ IsTableCell(q[j])
            /\ NoneDropped => q[j].at = j
            /\ SkippedThen(At(q, j - 1), q[j].at - 1)
        BY <2>2, <2>7, <3>3
      <4>2. \E k \in 1..Total, c \in 1..4 : q[j] = RowCells(k)'[c]
        <5>1. \A k : RowCells(k)' = RowCells(k)
          BY <1>11, SameTable
        <5> QED
          BY <4>1, <5>1 DEF IsTableCell
      <4>3. q[j] = cells'[j] /\ At(q, j - 1) = At(cells', j - 1)
        BY <2>2
      <4>4. NoneDropped' => q[j].at = j
        BY <1>10, <4>1
      <4> QED
        BY <4>1, <4>2, <4>3, <4>4
    <3> QED
      BY <3>2, <3>4, <3>5 DEF Scanned, Skipped, SkippedThen, IsTableCell
  <2>9. ParserTypeOK'
    <3>1. cells' \in Seq(Lines)
      BY <2>2, <2>3 DEF Grown
    <3> QED
      BY <1>1, <1>2, <1>4, <1>9, <1>11, <3>1 DEF ParserTypeOK, statementVars
  <2> QED
    BY <1>10, <1>a, <2>8, <2>9 DEF ParserInv
<1> QED
  BY <1>12, <1>13

\* Once the lines are read: the last cell kept ends the table.
LEMMA AllScanned ==
    ASSUME ParserInv, closed, read = Len(lines)
    PROVE  /\ At(cells, Len(cells)) = 4 * Total
           /\ NoneDropped => Len(cells) = 4 * Total
<1>1. At(lines, read) = 4 * Total
  BY DEF ParserInv, Drawing
<1>2. Skipped(At(cells, Len(cells)), 4 * Total)
  BY <1>1 DEF ParserInv, Scanned
<1>3. At(cells, Len(cells)) = 4 * Total
  <2>1. ASSUME NEW r \in 1..Total, 4 * Total = 4 * (r - 1) + 1 + 1 PROVE FALSE
    BY <2>1, TotalType
  <2> QED
    BY <1>2, <2>1 DEF Skipped
<1>4. ASSUME NoneDropped PROVE Len(cells) = 4 * Total
  <2>1. Len(cells) \in Nat
    BY LenProperties DEF ParserInv, ParserTypeOK
  <2>2. \A j \in 1..Len(cells) : cells[j].at = j
    BY <1>4 DEF ParserInv, Scanned
  <2> QED
    BY <1>3, <2>1, <2>2 DEF At
<1> QED
  BY <1>3, <1>4

LEMMA SameScan ==
    ASSUME Scanned, stage' # "unread",
           table' = table, lines' = lines, cells' = cells, read' = read
    PROVE  Scanned'
<1>1. \A a, b : Skipped(a, b) <=> SkippedThen(a, b)
  BY DEF Skipped, SkippedThen
<1>2. \A k : RowCells(k)' = RowCells(k)
  BY SameTable
<1>3. At(cells', Len(cells')) = At(cells, Len(cells)) /\ At(lines', read') = At(lines, read)
  OBVIOUS
<1>4. SkippedThen(At(cells', Len(cells')), At(lines', read'))
  BY <1>1, <1>3 DEF Scanned
<1>5. NoneDropped' <=> NoneDropped
  BY DEF NoneDropped
<1>6. ASSUME NEW j \in 1..Len(cells')
      PROVE  /\ \E k \in 1..Total, c \in 1..4 : cells'[j] = RowCells(k)'[c]
             /\ SkippedThen(At(cells', j - 1), cells'[j].at - 1)
             /\ NoneDropped' => cells'[j].at = j
  <2>1. /\ IsTableCell(cells[j])
        /\ Skipped(At(cells, j - 1), cells[j].at - 1)
        /\ NoneDropped => cells[j].at = j
    BY DEF Scanned
  <2>2. cells'[j] = cells[j] /\ At(cells', j - 1) = At(cells, j - 1)
    OBVIOUS
  <2> QED
    BY <1>1, <1>2, <1>5, <2>1, <2>2 DEF IsTableCell
<1> QED
  BY <1>4, <1>6 DEF Scanned, Skipped, SkippedThen, IsTableCell

LEMMA LayoutStep == ASSUME ParserInv, CheckLayout PROVE ParserInv'
<1>1. /\ stage = "scan" /\ read = Len(lines)
      /\ stage' = IF cells = <<>> \/ Len(cells) % 4 # 0 THEN "rejected" ELSE "rows"
      /\ UNCHANGED <<statementVars, read, cells, txs, csv>>
  BY DEF CheckLayout
<1>2. /\ closed /\ txs = <<>> /\ Len(table) = Total /\ Drawing
      /\ ParserTypeOK /\ cells \in Seq(Lines)
  BY <1>1 DEF ParserInv, Drawing, Accepted, ParserTypeOK
<1>3. statementVars' = statementVars
  BY <1>1
<1>4. /\ Ledger' /\ Drawing' /\ closed' /\ (NoneDropped' <=> NoneDropped)
  BY <1>2, <1>3, SameStatement
<1>5. lines' = lines /\ table' = table /\ cells' = cells /\ read' = read /\ txs' = <<>>
  BY <1>1, <1>2 DEF statementVars
<1>6. ParserTypeOK'
  BY <1>1, <1>2, <1>3, <1>5 DEF ParserTypeOK, statementVars
<1>7. Scanned'
  <2>1. stage' # "unread"
    BY <1>1
  <2> QED
    BY <1>2, <1>5, <2>1, SameScan DEF ParserInv
<1>8. CASE stage' = "rejected"
  <2>1. ~NoneDropped
    <3>1. ASSUME NoneDropped PROVE FALSE
      <4>1. Len(cells) = 4 * Total
        BY <1>1, <1>2, <3>1, AllScanned
      <4>2. Len(cells) > 0 /\ Len(cells) % 4 = 0
        BY <4>1, TotalType
      <4>3. cells # <<>>
        BY <4>2, EmptySeq
      <4> QED
        BY <1>1, <1>8, <4>2, <4>3
    <3> QED
      BY <3>1
  <2>2. OnlyLostCellsReject'
    BY <1>5, <2>1 DEF OnlyLostCellsReject, NoneDropped
  <2>3. Accepted'
    BY <1>5, <1>8 DEF Accepted
  <2> QED
    BY <1>4, <1>6, <1>7, <2>2, <2>3 DEF ParserInv
<1>9. CASE stage' = "rows"
  <2>1. Len(cells) % 4 = 0 /\ Len(cells) \in Nat /\ Len(txs') = 0
    BY <1>1, <1>2, <1>5, <1>9, LenProperties
  <2>2. Accepted'
    BY <1>1, <1>5, <1>9, <2>1 DEF Accepted, At
  <2>3. OnlyLostCellsReject'
    BY <1>9 DEF OnlyLostCellsReject
  <2> QED
    BY <1>4, <1>6, <1>7, <2>2, <2>3 DEF ParserInv
<1> QED
  BY <1>1, <1>8, <1>9

\* What the cell behind position x of the kept cells can be.
LEMMA NextCell ==
    ASSUME Scanned, cells \in Seq(Lines), NEW j \in 1..Len(cells)
    PROVE  /\ IsTableCell(cells[j]) /\ cells[j] \in Lines /\ cells[j].at \in Int
           /\ At(cells, j) = cells[j].at
           /\ \/ cells[j].at = At(cells, j - 1) + 1
              \/ \E r \in 1..Total : /\ At(cells, j - 1) = 4 * (r - 1) + 1
                                     /\ cells[j].at = 4 * (r - 1) + 3
<1>1. PICK l \in Lines : l = cells[j]
  BY ElementOfSeq
<1>2. cells[j].at \in Int
  BY <1>1 DEF Lines
<1>3. At(cells, j) = cells[j].at
  BY LenProperties DEF At
<1>4. j - 1 \in 0..Len(cells)
  BY LenProperties
<1>5. At(cells, j - 1) \in Int
  BY <1>4, AtInt
<1>6. Skipped(At(cells, j - 1), cells[j].at - 1)
  BY DEF Scanned
<1>7. CASE At(cells, j - 1) = cells[j].at - 1
  BY <1>2, <1>3, <1>1, <1>5, <1>7 DEF Scanned
<1>8. ASSUME NEW r \in 1..Total, At(cells, j - 1) = 4 * (r - 1) + 1,
             cells[j].at - 1 = At(cells, j - 1) + 1
      PROVE  cells[j].at = 4 * (r - 1) + 3
  BY <1>2, <1>8, TotalType
<1> QED
  BY <1>1, <1>2, <1>3, <1>6, <1>7, <1>8 DEF Scanned, Skipped

\* Four cells that start in step with the table and pass the checks are a row.
LEMMA RowInStep ==
    ASSUME ParserTypeOK, Scanned, Len(table) = Total, NEW n \in Nat, 4 * n + 4 <= Len(cells),
           At(cells, 4 * n) = 4 * n,
           cells[4 * n + 3].kind = "amount", cells[4 * n + 4].kind = "amount"
    PROVE  /\ n + 1 \in 1..Total
           /\ At(cells, 4 * n + 4) = 4 * n + 4
           /\ <<cells[4 * n + 1], cells[4 * n + 2], cells[4 * n + 3], cells[4 * n + 4]>>
                 = RowCells(n + 1)
<1>0. /\ cells \in Seq(Lines) /\ Len(cells) \in Nat
      /\ 4 * n + 1 \in 1..Len(cells) /\ (4 * n + 1) - 1 = 4 * n
      /\ 4 * n + 2 \in 1..Len(cells) /\ (4 * n + 2) - 1 = 4 * n + 1
      /\ 4 * n + 3 \in 1..Len(cells) /\ (4 * n + 3) - 1 = 4 * n + 2
      /\ 4 * n + 4 \in 1..Len(cells) /\ (4 * n + 4) - 1 = 4 * n + 3
  <2>1. cells \in Seq(Lines)
    BY DEF ParserTypeOK
  <2>2. Len(cells) \in Nat
    BY <2>1, LenProperties
  <2> QED
    BY <2>1, <2>2
<1>1. cells[4 * n + 1].at = 4 * n + 1 /\ At(cells, 4 * n + 1) = 4 * n + 1
  <2>1. ASSUME NEW r \in 1..Total, 4 * n = 4 * (r - 1) + 1 PROVE FALSE
    BY <2>1, TotalType
  <2>2. /\ At(cells, 4 * n + 1) = cells[4 * n + 1].at
        /\ \/ cells[4 * n + 1].at = At(cells, 4 * n) + 1
           \/ \E r \in 1..Total : At(cells, 4 * n) = 4 * (r - 1) + 1
    BY <1>0, NextCell
  <2> QED
    BY <2>1, <2>2
<1>2. /\ cells[4 * n + 2].at \in {4 * n + 2, 4 * n + 3}
      /\ At(cells, 4 * n + 2) = cells[4 * n + 2].at
  <2>1. /\ At(cells, 4 * n + 2) = cells[4 * n + 2].at
        /\ \/ cells[4 * n + 2].at = At(cells, 4 * n + 1) + 1
           \/ \E r \in 1..Total : /\ At(cells, 4 * n + 1) = 4 * (r - 1) + 1
                                  /\ cells[4 * n + 2].at = 4 * (r - 1) + 3
    BY <1>0, NextCell
  <2>2. ASSUME NEW r \in 1..Total, 4 * n + 1 = 4 * (r - 1) + 1,
               cells[4 * n + 2].at = 4 * (r - 1) + 3
        PROVE  cells[4 * n + 2].at = 4 * n + 3
    BY <2>2, TotalType
  <2> QED
    BY <1>1, <2>1, <2>2
<1>3. /\ cells[4 * n + 3].at = cells[4 * n + 2].at + 1
      /\ At(cells, 4 * n + 3) = cells[4 * n + 3].at
  <2>1. ASSUME NEW r \in 1..Total, cells[4 * n + 2].at = 4 * (r - 1) + 1 PROVE FALSE
    BY <1>2, <2>1, TotalType
  <2>2. /\ At(cells, 4 * n + 3) = cells[4 * n + 3].at
        /\ \/ cells[4 * n + 3].at = At(cells, 4 * n + 2) + 1
           \/ \E r \in 1..Total : At(cells, 4 * n + 2) = 4 * (r - 1) + 1
    BY <1>0, NextCell
  <2> QED
    BY <1>2, <2>1, <2>2
<1>4. /\ cells[4 * n + 4].at = cells[4 * n + 2].at + 2
      /\ At(cells, 4 * n + 4) = cells[4 * n + 4].at
  <2>1. ASSUME NEW r \in 1..Total, cells[4 * n + 3].at = 4 * (r - 1) + 1 PROVE FALSE
    BY <1>2, <1>3, <2>1, TotalType
  <2>2. /\ At(cells, 4 * n + 4) = cells[4 * n + 4].at
        /\ \/ cells[4 * n + 4].at = At(cells, 4 * n + 3) + 1
           \/ \E r \in 1..Total : At(cells, 4 * n + 3) = 4 * (r - 1) + 1
    BY <1>0, NextCell
  <2>3. cells[4 * n + 4].at = cells[4 * n + 3].at + 1
    BY <1>3, <2>1, <2>2
  <2> QED
    BY <1>2, <1>3, <2>2, <2>3
<1>5. /\ IsTableCell(cells[4 * n + 1]) /\ IsTableCell(cells[4 * n + 2])
      /\ IsTableCell(cells[4 * n + 3]) /\ IsTableCell(cells[4 * n + 4])
  BY <1>0, NextCell
<1>6. n + 1 \in 1..Total
  <2>1. PICK r \in 1..Total, c \in 1..4 : cells[4 * n + 1].at = 4 * (r - 1) + c
    <3>1. PICK l : l = cells[4 * n + 1]
      OBVIOUS
    <3>2. IsTableCell(l)
      BY <1>5, <3>1
    <3> QED
      BY <3>1, <3>2, CellFacts
  <2> QED
    BY <1>1, <2>1, TotalType
<1>7. cells[4 * n + 2].at # 4 * n + 3
  <2>1. ASSUME cells[4 * n + 2].at = 4 * n + 3 PROVE FALSE
    <3>1. cells[4 * n + 4].at = 4 * n + 5
      BY <1>4, <2>1
    <3>2. PICK l : l = cells[4 * n + 4]
      OBVIOUS
    <3>3. IsTableCell(l) /\ l.kind = "amount" /\ l.at = 4 * n + 5
      BY <1>5, <3>1, <3>2
    <3>4. PICK r \in 1..Total, c \in 1..4 :
             /\ l.at = 4 * (r - 1) + c
             /\ c = 1 => l.kind = "date"
      BY <3>3, CellFacts
    <3>5. c = 1
      BY <3>3, <3>4, TotalType
    <3> QED
      BY <3>3, <3>4, <3>5
  <2> QED
    BY <2>1
<1>8. /\ cells[4 * n + 2].at = 4 * n + 2 /\ cells[4 * n + 3].at = 4 * n + 3
      /\ cells[4 * n + 4].at = 4 * n + 4
  BY <1>2, <1>3, <1>4, <1>7
<1>9. PICK r \in 1..Total : r = n + 1 /\ 4 * (r - 1) = 4 * n
  BY <1>6
<1>10. /\ cells[4 * n + 1] = RowCells(r)[1] /\ cells[4 * n + 2] = RowCells(r)[2]
       /\ cells[4 * n + 3] = RowCells(r)[3] /\ cells[4 * n + 4] = RowCells(r)[4]
  <2>1. ASSUME NEW c \in 1..4, NEW l, IsTableCell(l), l.at = 4 * n + c
        PROVE  l = RowCells(r)[c]
    <3>1. PICK k \in 1..Total, d \in 1..4 : l = RowCells(k)[d] /\ l.at = 4 * (k - 1) + d
      BY <2>1, CellFacts
    <3>2. 4 * (k - 1) + d = 4 * (r - 1) + c
      BY <1>9, <2>1, <3>1
    <3>3. k = r /\ d = c
      BY <3>2, TotalType
    <3> QED
      BY <3>1, <3>3
  <2> QED
    BY <1>1, <1>5, <1>8, <2>1
<1>11. RowCells(r) = <<RowCells(r)[1], RowCells(r)[2], RowCells(r)[3], RowCells(r)[4]>>
  BY RowFacts
<1> QED
  BY <1>4, <1>6, <1>8, <1>9, <1>10, <1>11

LEMMA ParseRowStep == ASSUME ParserInv, ParseRow PROVE ParserInv'
<1> DEFINE n == Len(txs)
           row == <<cells[4 * n + 1], cells[4 * n + 2], cells[4 * n + 3], cells[4 * n + 4]>>
           Checked == /\ cells[4 * n + 1].kind = "date" /\ cells[4 * n + 3].kind = "amount"
                      /\ cells[4 * n + 4].kind = "amount"
<1>1. /\ stage = "rows" /\ 4 * n < Len(cells)
      /\ \/ Checked /\ txs' = Append(txs, row) /\ stage' = stage
         \/ ~Checked /\ txs' = <<>> /\ stage' = "rejected"
      /\ UNCHANGED <<statementVars, read, cells, csv>>
  BY DEF ParseRow
<1>2. /\ closed /\ Len(table) = Total /\ Drawing /\ Scanned /\ ParserTypeOK
      /\ cells \in Seq(Lines) /\ txs \in Seq(Seq(Lines)) /\ n \in Nat
      /\ Len(cells) \in Nat /\ Len(cells) % 4 = 0 /\ read = Len(lines)
      /\ At(cells, 4 * n) = 4 * n
      /\ \A r \in 1..n : r <= Total /\ txs[r] = RowCells(r)
  <2>1. closed /\ Len(table) = Total /\ Drawing /\ ParserTypeOK
    BY <1>1 DEF ParserInv, Drawing
  <2>2. cells \in Seq(Lines) /\ txs \in Seq(Seq(Lines))
    BY <2>1 DEF ParserTypeOK
  <2>3. n \in Nat /\ Len(cells) \in Nat
    BY <2>2, LenProperties
  <2>4. Scanned
    BY <2>1 DEF ParserInv
  <2> QED
    BY <1>1, <2>1, <2>2, <2>3, <2>4 DEF ParserInv, Accepted
<1>3. 4 * n + 4 <= Len(cells)
  <2>1. ASSUME NEW a \in Nat, NEW b \in Nat, 4 * a < b, b % 4 = 0 PROVE 4 * a + 4 <= b
    BY <2>1
  <2>2. PICK a \in Nat, b \in Nat : a = n /\ b = Len(cells)
    BY <1>2
  <2>3. 4 * a < b /\ b % 4 = 0
    BY <1>1, <1>2, <2>2
  <2>4. 4 * a + 4 <= b
    BY <2>1, <2>3
  <2> QED
    BY <2>2, <2>4
<1>4. statementVars' = statementVars
  BY <1>1
<1>5. Ledger' /\ Drawing' /\ closed'
  BY <1>2, <1>4, SameStatement
<1>6. lines' = lines /\ table' = table /\ cells' = cells /\ read' = read
  BY <1>1 DEF statementVars
<1>7. Scanned'
  <2>1. stage' # "unread"
    BY <1>1
  <2> QED
    BY <1>2, <1>6, <2>1, SameScan
<1>8. CASE Checked /\ txs' = Append(txs, row) /\ stage' = stage
  <2>1. n + 1 \in 1..Total /\ At(cells, 4 * n + 4) = 4 * n + 4 /\ row = RowCells(n + 1)
    <3>1. PICK k \in Nat : k = n
      BY <1>2
    <3>2. /\ 4 * k + 4 <= Len(cells) /\ At(cells, 4 * k) = 4 * k
          /\ cells[4 * k + 3].kind = "amount" /\ cells[4 * k + 4].kind = "amount"
      BY <1>2, <1>3, <1>8, <3>1
    <3>3. /\ k + 1 \in 1..Total /\ At(cells, 4 * k + 4) = 4 * k + 4
          /\ <<cells[4 * k + 1], cells[4 * k + 2], cells[4 * k + 3], cells[4 * k + 4]>>
                = RowCells(k + 1)
      BY <1>2, <3>2, RowInStep
    <3> QED
      BY <3>1, <3>3
  <2>2. row \in Seq(Lines)
    <3>1. n + 1 \in 1..Len(table)
      BY <1>2, <2>1
    <3> QED
      BY <1>2, <2>1, <3>1, RowFacts
  <2> HIDE DEF row
  <2>3. /\ txs' \in Seq(Seq(Lines)) /\ Len(txs') = n + 1
        /\ \A r \in 1..n : txs'[r] = txs[r]
        /\ txs'[n + 1] = row
    BY <1>2, <1>8, <2>2, AppendProperties
  <2>4. \A r \in 1..Len(txs') : r <= Total /\ txs'[r] = RowCells(r)'
    <3>1. \A k : RowCells(k)' = RowCells(k)
      BY <1>6, SameTable
    <3>2. ASSUME NEW r \in 1..Len(txs') PROVE r <= Total /\ txs'[r] = RowCells(r)
      <4>1. CASE r \in 1..n
        BY <1>2, <2>3, <4>1
      <4>2. CASE r = n + 1
        BY <2>1, <2>3, <4>2
      <4>3. r \in 1..n \/ r = n + 1
        BY <1>2, <2>3
      <4> QED
        BY <4>1, <4>2, <4>3
    <3> QED
      BY <3>1, <3>2
  <2>5. /\ 4 * Len(txs') <= Len(cells') /\ Len(cells') % 4 = 0
        /\ At(cells', 4 * Len(txs')) = 4 * Len(txs')
    <3>1. 4 * Len(txs') = 4 * n + 4
      BY <1>2, <2>3
    <3> QED
      BY <1>2, <1>3, <1>6, <2>1, <3>1
  <2>6. Accepted' /\ OnlyLostCellsReject'
    <3>1. stage' = "rows" /\ read' = Len(lines')
      BY <1>1, <1>2, <1>6, <1>8
    <3> QED
      BY <2>4, <2>5, <3>1 DEF Accepted, OnlyLostCellsReject
  <2>7. ParserTypeOK'
    BY <1>1, <1>2, <1>4, <1>6, <1>8, <2>3 DEF ParserTypeOK, statementVars
  <2> QED
    BY <1>5, <1>7, <2>6, <2>7 DEF ParserInv
<1>9. CASE ~Checked /\ txs' = <<>> /\ stage' = "rejected"
  <2>1. ~NoneDropped
    <3>1. ASSUME NoneDropped PROVE FALSE
      <4>1. /\ 4 * n + 1 \in 1..Len(cells) /\ 4 * n + 3 \in 1..Len(cells)
            /\ 4 * n + 4 \in 1..Len(cells)
        <5>1. PICK a \in Nat, b \in Nat : a = n /\ b = Len(cells)
          BY <1>2
        <5>2. 4 * a + 4 <= b
          BY <1>3, <5>1
        <5>3. 4 * a + 1 \in 1..b /\ 4 * a + 3 \in 1..b /\ 4 * a + 4 \in 1..b
          BY <5>2
        <5> QED
          BY <5>1, <5>3
      <4>2. \A j \in 1..Len(cells) : IsTableCell(cells[j]) /\ cells[j].at = j
        BY <1>2, <3>1 DEF Scanned
      <4>3. ASSUME NEW j \in 1..Len(cells), NEW c \in {1, 3, 4}, j = 4 * n + c
            PROVE  cells[j].kind = IF c = 1 THEN "date" ELSE "amount"
        <5>1. PICK l : l = cells[j]
          OBVIOUS
        <5>2. IsTableCell(l) /\ l.at = 4 * n + c
          BY <4>2, <4>3, <5>1
        <5>3. PICK k \in 1..Total, d \in 1..4 :
                 /\ l.at = 4 * (k - 1) + d
                 /\ d = 1 => l.kind = "date"
                 /\ d \in {3, 4} => l.kind = "amount"
          BY <1>2, <5>2, CellFacts
        <5>4. 4 * (k - 1) + d = 4 * n + c
          BY <5>2, <5>3
        <5>5. d = c
          <6>1. PICK a \in Nat : a = n
            BY <1>2
          <6>2. 4 * (k - 1) + d = 4 * a + c /\ k \in Nat
            BY <5>4, <6>1, TotalType
          <6> QED
            BY <6>2
        <5> QED
          BY <5>1, <5>3, <5>5
      <4> QED
        BY <1>9, <4>1, <4>3
    <3> QED
      BY <3>1
  <2>2. OnlyLostCellsReject'
    BY <1>6, <2>1 DEF OnlyLostCellsReject, NoneDropped
  <2>3. Accepted'
    BY <1>9 DEF Accepted
  <2>4. ParserTypeOK'
    BY <1>1, <1>2, <1>4, <1>6, <1>9 DEF ParserTypeOK, statementVars
  <2> QED
    BY <1>5, <1>7, <2>2, <2>3, <2>4 DEF ParserInv
<1> QED
  BY <1>1, <1>8, <1>9

\* The steps that move the parser on and keep its rows.
LEMMA StageStep ==
    ASSUME ParserInv, Extract \/ ExtractFails \/ ToCSV \/ UNCHANGED parserVars
    PROVE  ParserInv'
<1>1. /\ UNCHANGED <<day, balance, table, drawn, lines, closed, read, cells, txs>>
      /\ UNCHANGED statementVars
      /\ \/ closed /\ stage' # "unread"
         \/ stage' = stage
  <2>1. ASSUME ToCSV PROVE closed
    BY <2>1 DEF ToCSV, ParserInv, Drawing
  <2>2. ASSUME ToCSV PROVE stage' = "parsed" /\ UNCHANGED <<statementVars, read, cells, txs>>
    BY <2>2 DEF ToCSV
  <2> QED
    BY <2>1, <2>2 DEF Extract, ExtractFails, parserVars, statementVars
<1>2. ParserTypeOK'
  <2>1. stage' \in {"unread", "scan", "rows", "parsed", "rejected", "unreadable"}
    BY DEF Extract, ExtractFails, ToCSV, parserVars, ParserInv, ParserTypeOK
  <2> QED
    BY <1>1, <2>1 DEF ParserInv, ParserTypeOK
<1>3. Ledger'
  BY <1>1 DEF ParserInv, Ledger
<1>4. OnlyLostCellsReject'
  <2>1. stage' = "rejected" => stage = "rejected"
    BY DEF Extract, ExtractFails, ToCSV, parserVars
  <2> QED
    BY <1>1, <2>1 DEF ParserInv, OnlyLostCellsReject
<1>5. Accepted'
  <2>1. \A r : RowCells(r)' = RowCells(r)
    BY <1>1, SameTable
  <2>2. At(cells', 4 * Len(txs')) = At(cells, 4 * Len(txs))
    BY <1>1
  <2>3. CASE Extract \/ ExtractFails
    <3>1. txs = <<>> /\ stage' \notin {"rows", "parsed"}
      BY <2>3 DEF Extract, ExtractFails, ParserInv, Accepted
    <3> QED
      BY <1>1, <3>1 DEF Accepted
  <2>4. CASE ToCSV
    <3>1. /\ stage = "rows" /\ 4 * Len(txs) = Len(cells) /\ stage' = "parsed"
          /\ csv'.records = txs
      BY <2>4 DEF ToCSV
    <3>2. /\ read' = Len(lines')
          /\ Len(cells') % 4 = 0 /\ 4 * Len(txs') <= Len(cells')
          /\ At(cells', 4 * Len(txs')) = 4 * Len(txs')
          /\ \A r \in 1..Len(txs') : r <= Total /\ txs'[r] = RowCells(r)'
      BY <1>1, <2>1, <2>2, <3>1 DEF ParserInv, Accepted
    <3> QED
      BY <1>1, <3>1, <3>2 DEF Accepted
  <2>5. CASE UNCHANGED parserVars
    <3>1. stage' = stage /\ csv' = csv
      BY <2>5 DEF parserVars
    <3> QED
      BY <1>1, <2>1, <2>2, <3>1 DEF ParserInv, Accepted
  <2> QED
    BY <2>3, <2>4, <2>5
<1>6. CASE closed /\ stage' # "unread"
  <2>1. Scanned /\ Scanned' /\ Drawing' /\ closed'
    BY <1>1, <1>6, SameScan, SameStatement DEF ParserInv
  <2> QED
    BY <1>2, <1>3, <1>4, <1>5, <2>1 DEF ParserInv
<1>7. CASE stage' = stage
  <2>1. CASE closed
    <3>1. CASE stage # "unread"
      BY <1>6, <1>7, <2>1, <3>1
    <3>2. CASE stage = "unread"
      <4>1. /\ read' = 0 /\ cells' = <<>> /\ stage' = "unread"
            /\ At(cells', Len(cells')) = 0 /\ At(lines', read') = 0
        BY <1>1, <1>7, <2>1, <3>2 DEF ParserInv, Scanned, At
      <4>2. Scanned'
        BY <4>1 DEF Scanned, Skipped
      <4>3. Drawing' /\ closed'
        BY <1>1, <2>1, SameStatement
      <4> QED
        BY <1>2, <1>3, <1>4, <1>5, <4>2, <4>3 DEF ParserInv
    <3> QED
      BY <3>1, <3>2
  <2>2. CASE ~closed
    <3>1. read = 0 /\ cells = <<>> /\ stage = "unread"
      BY <2>2 DEF ParserInv, Drawing
    <3>2. Drawing'
      <4>1. \A r : RowCells(r)' = RowCells(r)
        BY <1>1, SameTable
      <4>2. ASSUME NEW i \in 1..Len(lines')
            PROVE  \/ lines'[i].kind \in Furniture /\ lines'[i].at = At(lines', i - 1)
                   \/ /\ \E k \in 1..Total, c \in 1..4 : lines'[i] = RowCells(k)'[c]
                      /\ lines'[i].at = At(lines', i - 1) + 1
        BY <1>1, <4>1 DEF ParserInv, Drawing, IsTableCell
      <4>3. At(lines', Len(lines')) = 4 * drawn'
        BY <1>1 DEF ParserInv, Drawing
      <4> QED
        BY <1>1, <1>7, <2>2, <4>2, <4>3 DEF ParserInv, Drawing, IsTableCell
    <3> QED
      BY <1>1, <1>2, <1>3, <1>4, <1>5, <2>2, <3>1, <3>2 DEF ParserInv
  <2> QED
    BY <2>1, <2>2
<1> QED
  BY <1>1, <1>6, <1>7

LEMMA ParserNextInv == ParserInv /\ [ParserNext]_parserVars => ParserInv'
<1> SUFFICES ASSUME ParserInv, [ParserNext]_parserVars PROVE ParserInv'
  OBVIOUS
<1>1. ASSUME NEW days \in 0..1, NEW desc \in Descriptions, NEW amount \in Amounts,
             AddTransaction(days, desc, amount), UNCHANGED <<stage, read, cells, txs, csv>>
      PROVE  ParserInv'
  BY <1>1, AddStep
<1>2. CASE DrawRow /\ UNCHANGED <<stage, read, cells, txs, csv>>
  BY <1>2, DrawStep
<1>3. CASE Output /\ UNCHANGED <<stage, read, cells, txs, csv>>
  BY <1>3, OutputStep
<1>4. CASE Extract \/ ExtractFails \/ ToCSV \/ UNCHANGED parserVars
  BY <1>4, StageStep
<1>5. CASE ScanLine
  BY <1>5, ScanStep
<1>6. CASE CheckLayout
  BY <1>6, LayoutStep
<1>7. CASE ParseRow
  BY <1>7, ParseRowStep
<1> QED
  BY <1>1, <1>2, <1>3, <1>4, <1>5, <1>6, <1>7 DEF ParserNext, StatementNext

-----------------------------------------------------------------------------
(* The results *)

LEMMA ParserInductive == ParserSpec => []ParserInv
BY ParserInitInv, ParserNextInv, PTL DEF ParserSpec

\* A statement is never misread, whatever its size and its descriptions.
THEOREM NeverMisread == ParserSpec => []ParsedIsDrawn
<1>1. ASSUME ParserInv PROVE ParsedIsDrawn
  <2> SUFFICES ASSUME stage = "parsed" PROVE ParsedIsDrawn
    BY DEF ParsedIsDrawn
  <2>1. /\ closed /\ Len(table) = Total /\ ParserTypeOK /\ read = Len(lines)
        /\ 4 * Len(txs) = Len(cells) /\ csv.records = txs
        /\ At(cells, 4 * Len(txs)) = 4 * Len(txs)
        /\ \A r \in 1..Len(txs) : txs[r] = RowCells(r)
    BY <1>1 DEF ParserInv, Drawing, Accepted
  <2>2. At(cells, Len(cells)) = 4 * Total
    BY <1>1, <2>1, AllScanned
  <2>3. Len(txs) = Total
    <3>1. Len(txs) \in Nat
      BY <2>1, LenProperties DEF ParserTypeOK
    <3> QED
      BY <2>1, <2>2, <3>1, TotalType
  <2>4. ASSUME NEW r \in 1..Total
        PROVE  /\ csv.records[r][1].text.units = table[r].date
               /\ csv.records[r][2].kind = table[r].description
               /\ csv.records[r][2].text.units = r
               /\ Value(csv.records[r][3].text) = table[r].amount
               /\ Value(csv.records[r][4].text) = table[r].balance
    <3>1. csv.records[r] = RowCells(r) /\ r \in 1..Len(table)
      BY <2>1, <2>3
    <3>2. /\ table[r] \in Transactions
          /\ RowCells(r)[1].text.units = table[r].date
          /\ RowCells(r)[2].kind = table[r].description
          /\ RowCells(r)[2].text.units = r
          /\ RowCells(r)[3].text = FormatCents(table[r].amount)
          /\ RowCells(r)[4].text = FormatCents(table[r].balance)
      BY <2>1, <3>1, RowFacts
    <3>3. table[r].amount \in Int /\ table[r].balance \in Int
      BY <3>2 DEF Transactions
    <3> QED
      BY <3>1, <3>2, <3>3, FormatReadsBack
  <2> QED
    BY <2>1, <2>3, <2>4 DEF ParsedIsDrawn
<1> QED
  BY <1>1, ParserInductive, PTL

\* Only a description taken for furniture, or the pdf library, turns a statement
\* away.
THEOREM LayoutIsContract == ParserSpec => []OnlyLostCellsReject
<1>1. ParserInv => OnlyLostCellsReject
  BY DEF ParserInv
<1> QED
  BY <1>1, ParserInductive, PTL

\* The rows of a result add up.
THEOREM AddsUp == ParserSpec => []ResultAddsUp
<1>1. ASSUME ParserInv, ParsedIsDrawn PROVE ResultAddsUp
  <2> SUFFICES ASSUME stage = "parsed", NEW r \in 2..Len(csv.records)
               PROVE  /\ Value(csv.records[r][4].text)
                            = Value(csv.records[r - 1][4].text) + Value(csv.records[r][3].text)
                      /\ csv.records[r][1].text.units >= csv.records[r - 1][1].text.units
    BY DEF ResultAddsUp
  <2>1. Len(csv.records) = Total /\ Len(table) = Total
    BY <1>1 DEF ParsedIsDrawn, ParserInv, Drawing
  <2>2. r \in 2..Len(table) /\ r \in 1..Total /\ r - 1 \in 1..Total
    BY <2>1, TotalType
  <2>3. /\ table[r].balance = table[r - 1].balance + table[r].amount
        /\ table[r].date >= table[r - 1].date
    BY <1>1, <2>2 DEF ParserInv, Ledger
  <2>4. \A k \in 1..Total : /\ csv.records[k][1].text.units = table[k].date
                           /\ Value(csv.records[k][3].text) = table[k].amount
                           /\ Value(csv.records[k][4].text) = table[k].balance
    BY <1>1 DEF ParsedIsDrawn
  <2> QED
    BY <2>2, <2>3, <2>4
<1> QED
  BY <1>1, ParserInductive, NeverMisread, PTL

=============================================================================
