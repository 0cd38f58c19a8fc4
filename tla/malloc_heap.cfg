\* malloc_heap: tables of two pages, so that the chain grows; requests whose mask fits an int.
CONSTANTS
    Width = 8
    IntWidth = 4
    Entries = 2
    MaxTables = 3
    Requests = {1, 2}
SPECIFICATION Spec
INVARIANTS
    NoOverlap
    FreeAccepted
    BitmapExact
