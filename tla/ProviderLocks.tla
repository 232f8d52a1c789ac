----------------------------- MODULE ProviderLocks -----------------------------
(***************************************************************************)
(* The registry of provider locks (rdam/machine.py: _PROVIDER_LOCKS,       *)
(* _provider_lock, _remove_provider_lock).  Machines that are built on one *)
(* provider instance must share its lock, but only they keep it alive: the *)
(* registry maps id(provider) to a weak reference, and a callback removes  *)
(* the entry when the lock has died.  By then the id, which CPython reuses,*)
(* may belong to another provider and its entry to another lock.           *)
(***************************************************************************)
CONSTANTS
    Machines,      \* machines that will be built, each by a thread of its own
    InstanceOf,    \* the provider instance each machine is built on
    IdOf,          \* id(provider) of each instance; ids may be reused
    Cyclic,        \* whether a machine may end in a reference cycle
    None

Instances == {InstanceOf[m] : m \in Machines}
Ids == {IdOf[p] : p \in Instances}
Id(m) == IdOf[InstanceOf[m]]

ASSUME ProviderLocksAssumption ==
    /\ Cyclic \in BOOLEAN
    /\ None \notin Machines

\* A lock is named by the machine whose construction created it.
VARIABLES
    state,      \* "new", "waiting" (for the guard), "inside", "live", "garbage", "dropped"
    lockOf,     \* the lock each machine has for its provider
    registry,   \* per id, the lock its weak reference was made for
    dead,       \* locks that have been deallocated: weak references to them give None
    callback,   \* per dead lock, the thread that runs _remove_provider_lock for it
    guard       \* holder of _PROVIDER_LOCKS_GUARD

vars == <<state, lockOf, registry, dead, callback, guard>>

Init ==
    /\ state = [m \in Machines |-> "new"]
    /\ lockOf = [m \in Machines |-> None]
    /\ registry = [i \in Ids |-> None]
    /\ dead = {}
    /\ callback = [k \in Machines |-> None]
    /\ guard = None

Goto(m, from, to) == state[m] = from /\ state' = [state EXCEPT ![m] = to]

\* A callback interrupts the thread it runs in.
Interrupted(m) == \E k \in Machines : callback[k] = m

Alive(p) == \E m \in Machines :
    InstanceOf[m] = p /\ state[m] \in {"waiting", "inside", "live", "garbage"}

\* A machine is built on a provider; while that lives its id is its own.
Begin(m) ==
    /\ ~Interrupted(m)
    /\ \A p \in Instances \ {InstanceOf[m]} : IdOf[p] = Id(m) => ~Alive(p)
    /\ Goto(m, "new", "waiting")
    /\ UNCHANGED <<lockOf, registry, dead, callback, guard>>

\* with _PROVIDER_LOCKS_GUARD
TakeGuard(m) ==
    /\ ~Interrupted(m)
    /\ guard = None
    /\ guard' = m
    /\ Goto(m, "waiting", "inside")
    /\ UNCHANGED <<lockOf, registry, dead, callback>>

\* Mutant: the guard is not given back where the shared lock is returned.
Share_KeepsGuard(m) ==
    /\ ~Interrupted(m)
    /\ registry[Id(m)] \notin dead \cup {None}
    /\ Goto(m, "inside", "live")
    /\ lockOf' = [lockOf EXCEPT ![m] = registry[Id(m)]]
    /\ UNCHANGED <<registry, dead, callback, guard>>

\* existing() gives the lock: it is shared.
Share(m) ==
    /\ ~Interrupted(m)
    /\ registry[Id(m)] \notin dead \cup {None}
    /\ Goto(m, "inside", "live")
    /\ lockOf' = [lockOf EXCEPT ![m] = registry[Id(m)]]
    /\ guard' = None
    /\ UNCHANGED <<registry, dead, callback>>

\* Mutant: an entry is taken for a lock without asking whether it still lives.
Create_UnlessEntry(m) ==
    /\ ~Interrupted(m)
    /\ registry[Id(m)] \in dead \cup {None}
    /\ Goto(m, "inside", "live")
    /\ lockOf' = [lockOf EXCEPT ![m] = m]
    /\ registry' = [registry EXCEPT ![Id(m)] = IF @ = None THEN m ELSE @]
    /\ guard' = None
    /\ UNCHANGED <<dead, callback>>

\* No entry, or one whose lock has died: a new lock and a new weak reference.
Create(m) ==
    /\ ~Interrupted(m)
    /\ registry[Id(m)] \in dead \cup {None}
    /\ Goto(m, "inside", "live")
    /\ lockOf' = [lockOf EXCEPT ![m] = m]
    /\ registry' = [registry EXCEPT ![Id(m)] = m]
    /\ guard' = None
    /\ UNCHANGED <<dead, callback>>

\* Machine m is deallocated in thread t.  When it was the last to hold its lock
\* that dies too, and the callback of its weak reference, if the registry still
\* has that reference, is about to run in t.
Deallocate(m, from, t) ==
    LET k == lockOf[m]
        last == \A n \in Machines \ {m} : ~(lockOf[n] = k /\ state[n] \in {"live", "garbage"})
    IN  /\ ~Interrupted(t)
        /\ Goto(m, from, "dropped")
        /\ dead' = IF last THEN dead \cup {k} ELSE dead
        /\ callback' = IF last /\ registry[Id(m)] = k THEN [callback EXCEPT ![k] = t] ELSE callback
        /\ UNCHANGED <<lockOf, registry, guard>>

\* The last reference to a machine goes.
Drop(m) == Deallocate(m, "live", m)

\* The last reference from outside goes, but the machine is part of a cycle.
Abandon(m) ==
    /\ Cyclic
    /\ Goto(m, "live", "garbage")
    /\ UNCHANGED <<lockOf, registry, dead, callback, guard>>

\* The garbage collector runs in whatever thread triggers it.
Collect(m, t) == Deallocate(m, "garbage", t)

\* Mutant: the entry is deleted whomever it belongs to now.
RemoveLock_Blindly(k) ==
    /\ callback[k] # None
    /\ guard = None
    /\ registry' = [registry EXCEPT ![Id(k)] = None]
    /\ callback' = [callback EXCEPT ![k] = None]
    /\ UNCHANGED <<state, lockOf, dead, guard>>

\* Mutant: the callback has been forgotten.
RemoveLock_Nothing(k) ==
    /\ callback[k] # None
    /\ guard = None
    /\ callback' = [callback EXCEPT ![k] = None]
    /\ UNCHANGED <<state, lockOf, registry, dead, guard>>

\* _remove_provider_lock: waits for the guard, deletes only its own entry.
RemoveLock(k) ==
    /\ callback[k] # None
    /\ guard = None
    /\ registry' = [registry EXCEPT ![Id(k)] = IF @ = k THEN None ELSE @]
    /\ callback' = [callback EXCEPT ![k] = None]
    /\ UNCHANGED <<state, lockOf, dead, guard>>

Construct(m) == TakeGuard(m) \/ Share(m) \/ Create(m)

Next ==
    \/ \E m \in Machines : Begin(m) \/ Construct(m) \/ Drop(m) \/ Abandon(m) \/ RemoveLock(m)
    \/ \E m, t \in Machines : Collect(m, t)
    \/ (\A m \in Machines : state[m] = "dropped") /\ UNCHANGED vars

Spec == Init /\ [][Next]_vars

\* Threads run; the guard is fair enough not to starve one of them for ever.
FairSpec ==
    /\ Spec
    /\ \A m \in Machines : SF_vars(Construct(m)) /\ SF_vars(RemoveLock(m))
    /\ \A m \in Machines : WF_vars(\E t \in Machines : Collect(m, t))
--------------------------------------------------------------------------------
(* Properties *)

\* The type invariant.
TypeOK ==
    /\ state \in [Machines -> {"new", "waiting", "inside", "live", "garbage", "dropped"}]
    /\ lockOf \in [Machines -> Machines \cup {None}]
    /\ registry \in [Ids -> Machines \cup {None}]
    /\ dead \in SUBSET Machines
    /\ callback \in [Machines -> Machines \cup {None}]
    /\ guard \in Machines \cup {None}

\* Machines that live at the same time have the same lock exactly when they are
\* built on the same provider: calls to it exclude each other whichever machine
\* they come through, and calls to others are not held up.
OneLockPerProvider ==
    \A m, n \in Machines :
        state[m] = "live" /\ state[n] = "live" =>
            (lockOf[m] = lockOf[n] <=> InstanceOf[m] = InstanceOf[n])

\* A lock that somebody holds is alive and is the one the registry gives out:
\* no late callback has removed it.
LiveLocksRegistered ==
    \A m \in Machines :
        state[m] \in {"live", "garbage"} => lockOf[m] \notin dead /\ registry[Id(m)] = lockOf[m]

\* A thread waits for itself: it holds the guard when it has to run a callback.
SelfWait == guard # None /\ Interrupted(guard)

\* "The machine MUST NOT retain a provider beyond that provider's own lifetime"
\* (specs/017 FR-041): once nobody uses an id its entry goes, unless a thread
\* waits for itself.
EntriesGo ==
    \A i \in Ids : (\A p \in Instances : IdOf[p] = i => ~Alive(p)) ~>
        (registry[i] = None \/ SelfWait \/ \E p \in Instances : IdOf[p] = i /\ Alive(p))

\* Nothing but that keeps a machine from being built.
OnlySelfWaitBlocks ==
    \A m \in Machines : state[m] = "waiting" ~> state[m] = "live" \/ SelfWait
================================================================================
