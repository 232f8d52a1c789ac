SPECIFICATION FairSpec
CONSTANTS
    Threads = {t1, t2, t3}
    Processes = {p1, p2}
    ProcessOf <- OneProcess
    NoThread = NoThread
    InitialEntries = {"absent", "whole", "damaged", "historical"}
    Failing = {"unlink", "create", "write", "replace", "chmod"}
    MaxCrashes = 2
    t1 = t1  t2 = t2  t3 = t3  p1 = p1  p2 = p2
INVARIANTS EntryNeverPartial NoStrayTemp SingleComputation StoredResultIsReturned
PROPERTIES WholeEntryStays EveryThreadEnds
