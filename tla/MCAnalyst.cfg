SPECIFICATION FairAnalystSpec
CONSTANTS
    t1 = t1  t2 = t2
    Threads = {t1, t2}
    OutputRetries = 1
    TransportRetries = 1
    RequestLimit = 3
    NoThread = NoThread
INVARIANTS AttemptsBounded
PROPERTIES EveryExtractionEnds
