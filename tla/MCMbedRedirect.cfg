SPECIFICATION Spec
CONSTANTS
    Ranked = FALSE
    UserMax = 200
    Depth = 1
    MaxRedirects = 1
    Calls = {"connect"}
    PeerItems = {"accept", "redirect"}
    CloseSizes = {8}
    OpenErrors = {}
    MaxChunk = 1
    MaxMsg = 0
    MaxEvents = 2
INVARIANT
    ConnectTrue
