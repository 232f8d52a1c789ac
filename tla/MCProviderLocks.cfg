SPECIFICATION FairSpec
CONSTANTS
    m1 = m1  m2 = m2  m3 = m3  m4 = m4
    Machines = {m1, m2, m3, m4}
    InstanceOf <- Builds
    IdOf <- ReusedId
    Cyclic = TRUE
    None = None
CHECK_DEADLOCK FALSE
INVARIANTS OneLockPerProvider
PROPERTIES EntriesGo OnlySelfWaitBlocks
