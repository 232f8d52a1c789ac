SPECIFICATION FairSpec
CONSTANTS
    p1 = p1  p2 = p2  p3 = p3  g1 = g1  g2 = g2
    Posts = {p1, p2, p3}
    Gets = {g1, g2}
    WellFormed = {p1, p2, p3, g1}
    Declared <- Sizes
    MaxChunk = 2
    PoolSize = 2
INVARIANTS OnePostAtATime BusyMeansHeld StoppedIsQuiet
PROPERTIES SlotComesBack GetsAnswered
