--------------------------- MODULE MCSingleFlight ---------------------------
\* A small instance of SingleFlight for TLC: three threads, two identities and
\* lock objects enough for all of them.
EXTENDS SingleFlight
=============================================================================
