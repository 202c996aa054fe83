CONSTANTS
    MaxLevel = 3
    MaxBatches = 6
    MaxPending = 3
    Refused = {2, 5}
SPECIFICATION LiveSpec
INVARIANTS WriteStreamInv WireCarriesPipeline IdleIsUnneeded Paced
PROPERTIES ImplementsClient WritesSettle
