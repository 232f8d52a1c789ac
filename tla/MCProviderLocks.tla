---------------------------- MODULE MCProviderLocks ----------------------------
\* Small instances of ProviderLocks for TLC: machines on two providers that
\* come to have the same id one after the other, and on a third one.
EXTENDS ProviderLocks

CONSTANTS m1, m2, m3, m4

ReusedId == [p \in {"first", "second", "other"} |-> IF p = "other" THEN 2 ELSE 1]
Builds == [m \in {m1, m2, m3, m4} |-> IF m \in {m1, m2} THEN "first" ELSE IF m = m3 THEN "second" ELSE "other"]
================================================================================
