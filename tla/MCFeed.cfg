SPECIFICATION LiveSpec
CONSTANTS
    y1 = y1
    y2 = y2
    campus = campus
    Nowhere = Nowhere
    Yaks <- TwoYaks
    Places <- OnePlace
    Distance <- Uneven
    Likes <- SomeLikes
    Radii <- SomeRadii
    Unlimited = 3
    MaxCalls = 2
INVARIANTS RowsFollowRadius RowsInOrder
PROPERTIES YaksStay SpinnerEnds
