CONSTANTS
    MaxLevel = 2
    MaxCalls = 4
    MaxEvents = 3
SPECIFICATION WatchLiveSpec
INVARIANTS WatchStreamInv
PROPERTIES ImplementsReadCalls SyncedByNewestListen EveryCallAnswered
CHECK_DEADLOCK FALSE
