CONSTANTS
    Strings <- MCStrings
    Parts <- MCParts
    MaxComponents = 2
    Printable <- MCPrintable
    Books <- MCBooks
    MaxDepth = 1
    Word = 32
SPECIFICATION Spec
INVARIANTS
    PrintThenParse
    RangesAreOrdered
    SeekLandsInClip
    PlaceComesBack
    DurationsAgree
CHECK_DEADLOCK FALSE
