SPECIFICATION Spec
CONSTANTS
    p1 = p1
    p2 = p2
    y1 = y1
    c1 = c1
    c2 = c2
    Absent = Absent
    Phones <- TwoPhones
    Docs <- OneYak
    Texts <- TwoTexts
    Values <- ShortThreads
    Screens <- ListOnly
    Selectable <- OneYak
    MaxOpening = 1
    MaxCalls = 1
    MaxWrites = 2
    MaxReplies = 2
INVARIANTS CommentsInOrder RepliesKept
SYMMETRY PhoneAndTextSymmetry
