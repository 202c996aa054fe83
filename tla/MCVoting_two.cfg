SPECIFICATION LiveSpec
CONSTANTS
    p1 = p1
    p2 = p2
    y1 = y1
    Absent = Absent
    Phones <- TwoPhones
    Docs <- OneYak
    Values <- NarrowLikes
    Screens <- ListOnly
    Selectable <- NoYaks
    MaxOpening = 0
    MaxCalls = 1
    MaxWrites = 1
PROPERTIES QuietVotesSettle
