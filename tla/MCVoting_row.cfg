SPECIFICATION Spec
CONSTANTS
    p1 = p1
    p2 = p2
    y1 = y1
    Absent = Absent
    Phones <- OnePhone
    Docs <- OneYak
    Values <- UpLikes
    Screens <- ListOnly
    Selectable <- OneYak
    MaxOpening = 1
    MaxCalls = 2
    MaxWrites = 2
PROPERTIES MessageVoteUpdatesRow
