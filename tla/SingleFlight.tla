----------------------------- MODULE SingleFlight -----------------------------
(***************************************************************************)
(* ResultCache.single_flight (rdam/_result_cache.py): a registry, shared   *)
(* by every ResultCache of the process, that maps a cache identity to a    *)
(* lock and the number of threads that hold or await it.  The registry is  *)
(* read and written under one guard; the key's lock is awaited and held    *)
(* outside it.  An entry is dropped by the last thread that leaves, so a   *)
(* later thread gets a different lock object: that two threads of one      *)
(* identity never work with two different locks is what has to be shown.   *)
(***************************************************************************)
EXTENDS Naturals, FiniteSets

CONSTANTS
    Threads,     \* threads of the process that enter single_flight
    Identities,  \* (directory, key) pairs
    Locks,       \* lock objects; one is fresh when nothing refers to it
    NoThread, NoLock, NoIdentity

ASSUME SingleFlightAssumption ==
    /\ IsFiniteSet(Threads)
    /\ NoThread \notin Threads
    /\ NoLock \notin Locks
    /\ NoIdentity \notin Identities

VARIABLES
    guard,     \* the thread inside _LOCK_REGISTRY_GUARD, or NoThread
    regLock,   \* _LOCK_REGISTRY[k][0]; NoLock when k is not in the registry
    regRefs,   \* _LOCK_REGISTRY[k][1]; 0 when k is not in the registry
    holder,    \* the thread that has acquired each lock object
    pc,        \* where each thread is in single_flight
    want,      \* the local `identity`
    lock,      \* the local `lock`
    readLock,  \* lock of the registry entry a thread read under the guard
    readRefs   \* reference count of that entry

vars == <<guard, regLock, regRefs, holder, pc, want, lock, readLock, readRefs>>

\* "idle": outside; "registering": has read its entry, holds the guard;
\* "waiting": in lock.acquire(); "body": at the yield; "leaving": has called
\* lock.release(); "unregistering": has read its entry, holds the guard.
PCs == {"idle", "registering", "waiting", "body", "leaving", "unregistering"}

\* Threads counted by the registry entry of k.
Joined(k) ==
    {t \in Threads : want[t] = k /\ pc[t] \in {"waiting", "body", "leaving", "unregistering"}}

\* Lock() is a new object: no entry and no thread's frame refers to it.
Fresh(l) ==
    /\ \A k \in Identities : regLock[k] # l
    /\ \A t \in Threads : lock[t] # l /\ readLock[t] # l

Init ==
    /\ guard = NoThread
    /\ regLock = [k \in Identities |-> NoLock]
    /\ regRefs = [k \in Identities |-> 0]
    /\ holder = [l \in Locks |-> NoThread]
    /\ pc = [t \in Threads |-> "idle"]
    /\ want = [t \in Threads |-> NoIdentity]
    /\ lock = [t \in Threads |-> NoLock]
    /\ readLock = [t \in Threads |-> NoLock]
    /\ readRefs = [t \in Threads |-> 0]

\* Mutant: the registry is read without waiting for the guard.
BeginRegister_Unguarded(t, k) ==
    /\ pc[t] = "idle"
    /\ guard' = t
    /\ want' = [want EXCEPT ![t] = k]
    /\ readRefs' = [readRefs EXCEPT ![t] = regRefs[k]]
    /\ \/ /\ regLock[k] # NoLock
          /\ readLock' = [readLock EXCEPT ![t] = regLock[k]]
       \/ /\ regLock[k] = NoLock
          /\ \E l \in Locks : Fresh(l) /\ readLock' = [readLock EXCEPT ![t] = l]
    /\ pc' = [pc EXCEPT ![t] = "registering"]
    /\ UNCHANGED <<regLock, regRefs, holder, lock>>

\* Mutant: the lock of a new entry may be another identity's lock.
BeginRegister_AnyLock(t, k) ==
    /\ pc[t] = "idle"
    /\ guard = NoThread
    /\ guard' = t
    /\ want' = [want EXCEPT ![t] = k]
    /\ readRefs' = [readRefs EXCEPT ![t] = regRefs[k]]
    /\ \/ /\ regLock[k] # NoLock
          /\ readLock' = [readLock EXCEPT ![t] = regLock[k]]
       \/ /\ regLock[k] = NoLock
          /\ \E l \in Locks : readLock' = [readLock EXCEPT ![t] = l]
    /\ pc' = [pc EXCEPT ![t] = "registering"]
    /\ UNCHANGED <<regLock, regRefs, holder, lock>>

\* with _LOCK_REGISTRY_GUARD: lock, references = _LOCK_REGISTRY.get(identity, (Lock(), 0))
BeginRegister(t, k) ==
    /\ pc[t] = "idle"
    /\ guard = NoThread
    /\ guard' = t
    /\ want' = [want EXCEPT ![t] = k]
    /\ readRefs' = [readRefs EXCEPT ![t] = regRefs[k]]
    /\ \/ /\ regLock[k] # NoLock
          /\ readLock' = [readLock EXCEPT ![t] = regLock[k]]
       \/ /\ regLock[k] = NoLock
          /\ \E l \in Locks : Fresh(l) /\ readLock' = [readLock EXCEPT ![t] = l]
    /\ pc' = [pc EXCEPT ![t] = "registering"]
    /\ UNCHANGED <<regLock, regRefs, holder, lock>>

\*     _LOCK_REGISTRY[identity] = (lock, references + 1), and the guard is released
FinishRegister(t) ==
    /\ pc[t] = "registering"
    /\ regLock' = [regLock EXCEPT ![want[t]] = readLock[t]]
    /\ regRefs' = [regRefs EXCEPT ![want[t]] = readRefs[t] + 1]
    /\ lock' = [lock EXCEPT ![t] = readLock[t]]
    /\ guard' = NoThread
    /\ pc' = [pc EXCEPT ![t] = "waiting"]
    /\ UNCHANGED <<holder, want, readLock, readRefs>>

\* lock.acquire()
Acquire(t) ==
    /\ pc[t] = "waiting"
    /\ holder[lock[t]] = NoThread
    /\ holder' = [holder EXCEPT ![lock[t]] = t]
    /\ pc' = [pc EXCEPT ![t] = "body"]
    /\ UNCHANGED <<guard, regLock, regRefs, want, lock, readLock, readRefs>>

\* the body ends, normally or by an exception; finally: lock.release()
Release(t) ==
    /\ pc[t] = "body"
    /\ holder' = [holder EXCEPT ![lock[t]] = NoThread]
    /\ pc' = [pc EXCEPT ![t] = "leaving"]
    /\ UNCHANGED <<guard, regLock, regRefs, want, lock, readLock, readRefs>>

\* with _LOCK_REGISTRY_GUARD: current_lock, current_references = _LOCK_REGISTRY[identity]
BeginUnregister(t) ==
    /\ pc[t] = "leaving"
    /\ guard = NoThread
    /\ guard' = t
    /\ readLock' = [readLock EXCEPT ![t] = regLock[want[t]]]
    /\ readRefs' = [readRefs EXCEPT ![t] = regRefs[want[t]]]
    /\ pc' = [pc EXCEPT ![t] = "unregistering"]
    /\ UNCHANGED <<regLock, regRefs, holder, want, lock>>

\* Mutant: every thread that leaves drops the entry.
FinishUnregister_AlwaysDrops(t) ==
    /\ pc[t] = "unregistering"
    /\ regRefs' = [regRefs EXCEPT ![want[t]] = 0]
    /\ regLock' = [regLock EXCEPT ![want[t]] = NoLock]
    /\ guard' = NoThread
    /\ pc' = [pc EXCEPT ![t] = "idle"]
    /\ want' = [want EXCEPT ![t] = NoIdentity]
    /\ lock' = [lock EXCEPT ![t] = NoLock]
    /\ readLock' = [readLock EXCEPT ![t] = NoLock]
    /\ readRefs' = [readRefs EXCEPT ![t] = 0]
    /\ UNCHANGED holder

\*     del _LOCK_REGISTRY[identity] for the last reference, else write it back less one
FinishUnregister(t) ==
    /\ pc[t] = "unregistering"
    /\ regRefs' = [regRefs EXCEPT ![want[t]] = IF readRefs[t] = 1 THEN 0 ELSE readRefs[t] - 1]
    /\ regLock' = [regLock EXCEPT ![want[t]] = IF readRefs[t] = 1 THEN NoLock ELSE readLock[t]]
    /\ guard' = NoThread
    /\ pc' = [pc EXCEPT ![t] = "idle"]
    /\ want' = [want EXCEPT ![t] = NoIdentity]
    /\ lock' = [lock EXCEPT ![t] = NoLock]
    /\ readLock' = [readLock EXCEPT ![t] = NoLock]
    /\ readRefs' = [readRefs EXCEPT ![t] = 0]
    /\ UNCHANGED holder

\* What a thread does once it has entered, except ending its body.
Advance(t) ==
    \/ FinishRegister(t)
    \/ Acquire(t)
    \/ BeginUnregister(t)
    \/ FinishUnregister(t)

Next == \E t \in Threads : (\E k \in Identities : BeginRegister(t, k)) \/ Advance(t) \/ Release(t)

Spec == Init /\ [][Next]_vars

\* A running thread takes its next step.  Nothing is assumed of the body: a
\* provider call may hang, so Release has no fairness.
FairSpec == Spec /\ \A t \in Threads : WF_vars(Advance(t))
-------------------------------------------------------------------------------
(* Properties *)

\* The type invariant.
TypeOK ==
    /\ guard \in Threads \cup {NoThread}
    /\ regLock \in [Identities -> Locks \cup {NoLock}]
    /\ regRefs \in [Identities -> Nat]
    /\ holder \in [Locks -> Threads \cup {NoThread}]
    /\ pc \in [Threads -> PCs]
    /\ want \in [Threads -> Identities \cup {NoIdentity}]
    /\ lock \in [Threads -> Locks \cup {NoLock}]
    /\ readLock \in [Threads -> Locks \cup {NoLock}]
    /\ readRefs \in [Threads -> Nat]

\* No two threads are inside the body for the same identity: one provider
\* call (and one load/store of the entry) at a time per cache key.
OneFlightPerIdentity ==
    \A t, u \in Threads :
        pc[t] = "body" /\ pc[u] = "body" /\ want[t] = want[u] => t = u

\* A registry entry counts exactly the threads that hold or await its lock:
\* an entry is never dropped under a thread that still needs it (which would
\* hand out a second lock and raise KeyError on exit), and never outlives
\* its last user (the registry does not grow with the keys ever used).
RegistryCountsUsers ==
    \A k \in Identities :
        /\ regRefs[k] = Cardinality(Joined(k))
        /\ regLock[k] = NoLock <=> Joined(k) = {}

\* Waiting for one identity is never prolonged by a thread that works, however
\* long, on another one: as long as somebody waits for k, somebody gets in,
\* although no body is assumed to end.
SomebodyGetsIn ==
    \A k \in Identities :
        (\E t \in Threads : pc[t] = "waiting" /\ want[t] = k)
            ~> (\E t \in Threads : pc[t] = "body" /\ want[t] = k)

\* single_flight implements one mutex per identity.
Owner == [k \in Identities |->
            IF \E t \in Threads : pc[t] = "body" /\ want[t] = k
            THEN CHOOSE t \in Threads : pc[t] = "body" /\ want[t] = k
            ELSE NoThread]
Abstract == INSTANCE KeyMutex WITH owner <- Owner
ImplementsKeyMutex == Abstract!Spec
===============================================================================
