------------------------------- MODULE KeyMutex -------------------------------
(***************************************************************************)
(* What ResultCache.single_flight promises to the threads of one process:  *)
(* for every cache identity, at most one thread at a time is inside the    *)
(* body of the `with` statement, and bodies of different identities do not *)
(* interfere.  SingleFlight.tla is shown to implement this module.         *)
(***************************************************************************)
CONSTANTS
    Threads,     \* the threads of one process
    Identities,  \* the (directory, key) pairs of the cache
    NoThread     \* "nobody", not a thread

VARIABLE owner   \* owner[k]: the thread inside the body for k, or NoThread

Init == owner = [k \in Identities |-> NoThread]

Enter(t, k) ==
    /\ owner[k] = NoThread
    /\ owner' = [owner EXCEPT ![k] = t]

Leave(t, k) ==
    /\ owner[k] = t
    /\ owner' = [owner EXCEPT ![k] = NoThread]

Next == \E t \in Threads, k \in Identities : Enter(t, k) \/ Leave(t, k)

Spec == Init /\ [][Next]_owner
===============================================================================
