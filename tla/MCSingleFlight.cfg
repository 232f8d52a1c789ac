SPECIFICATION FairSpec
CONSTANTS
    Threads = {t1, t2, t3}
    Identities = {k1, k2}
    Locks = {l1, l2, l3}
    NoThread = NoThread
    NoLock = NoLock
    NoIdentity = NoIdentity
INVARIANTS RegistryCountsUsers
PROPERTIES SomebodyGetsIn ImplementsKeyMutex
