-------------------------- MODULE MCStatementParser --------------------------
EXTENDS StatementParser

\* Four debits overdraw the balance by less than one unit.
SomeOpenings == {120300}
SomeAmounts  == {-30099, 5000}

=============================================================================
