------------------------- MODULE MCResultCacheEntry -------------------------
\* Small instances of ResultCacheEntry for TLC: three threads, in one process
\* or spread over two processes that share the cache directory.
EXTENDS ResultCacheEntry

CONSTANTS t1, t2, t3, p1, p2

OneProcess == [t \in {t1, t2, t3} |-> p1]
TwoProcesses == [t \in {t1, t2, t3} |-> IF t = t3 THEN p2 ELSE p1]
=============================================================================
