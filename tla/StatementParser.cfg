\* Two pages of two rows, so that cells can be lost on both sides of a page
\* break and four descriptions can go, which leaves a multiple of four cells.
CONSTANTS
    Pages = 2
    RowsPerPage = 2
    Descriptions = {"text", "date", "page"}
    Openings <- SomeOpenings
    Amounts <- SomeAmounts
SPECIFICATION ParserSpec
INVARIANTS
    ParsedIsDrawn
    OnlyLostCellsReject
    ResultAddsUp
CHECK_DEADLOCK FALSE
