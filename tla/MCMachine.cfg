SPECIFICATION GroupsSpec
CONSTANTS
    c1 = c1  c2 = c2  c3 = c3  c4 = c4  rst = rst  pdtb = pdtb
    Calls = {c1, c2, c3, c4}
    Requested <- Requests
    Source <- Sources
    MaxWorkers <- Workers
    Unavailable = {}
    Serialized = {rst}
    Cached = {rst}
    NoJob = NoJob
INVARIANTS NoRepeatedCall SerializedProviders EndedCallsHoldNothing
PROPERTIES EveryCallEnds ImplementsContract
