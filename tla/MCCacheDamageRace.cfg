SPECIFICATION Spec
CONSTANTS
    Threads = {t1, t2, t3}
    Processes = {p1, p2}
    ProcessOf <- TwoProcesses
    NoThread = NoThread
    InitialEntries = {"damaged"}
    Failing = {}
    MaxCrashes = 0
    t1 = t1  t2 = t2  t3 = t3  p1 = p1  p2 = p2
INVARIANTS StoredResultIsReturned
