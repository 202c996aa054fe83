SPECIFICATION LiveSpec
CONSTANTS
    e1 = e1
    e2 = e2
    e3 = e3
    here = here
    there = there
    Nowhere = Nowhere
    Closed = Closed
    Editors <- ThreeEditors
    Places <- TwoPlaces
INVARIANTS YakHasImage OneYakPerImage SentWithLocation
PROPERTIES SentIsPosted
