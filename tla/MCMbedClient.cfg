SPECIFICATION FairSpec
CONSTANTS
    Ranked = TRUE
    UserMax = 200
    Depth = 1
    MaxRedirects = 1
    Calls = {"connect", "close", "send"}
    PeerItems = {"part", "accept", "redirect", "refuse", "msg", "ping", "close"}
    CloseSizes = {8}
    OpenErrors = {"network", "too_large"}
    MaxChunk = 1
    MaxMsg = 2
    MaxEvents = 2
INVARIANTS
    TypeOK
    Agreement
    BuffersOwned
    LastWord
    Conveyor
    NoLostWakeup
PROPERTIES
    FreshStart
    CallReturns
    Unblocks
    KeepsConnection
