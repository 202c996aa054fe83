SPECIFICATION Spec
CONSTANTS
    y1 = y1
    y2 = y2
    Yaks <- TwoYaks
    Radii <- SomeRadii
    Unlimited = 3
    NoTouch = NoTouch
    MaxCalls = 2
    MaxOpening = 2
INVARIANTS PinOpensItsYak IndexOutOfRangeHasCause RadiiAgree
SYMMETRY YakSymmetry
CHECK_DEADLOCK FALSE
