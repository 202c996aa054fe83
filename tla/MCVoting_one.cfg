SPECIFICATION Spec
CONSTANTS
    p1 = p1
    p2 = p2
    y1 = y1
    Absent = Absent
    Phones <- OnePhone
    Docs <- OneYak
    Values <- UpLikes
    Screens <- ListAndMap
    Selectable <- OneYak
    MaxOpening = 1
    MaxCalls = 1
    MaxWrites = 1
INVARIANTS OwnWritesShown CountKept MessageHasImage
PROPERTIES ImplementsLedger
