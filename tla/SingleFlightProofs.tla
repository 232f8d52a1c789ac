-------------------------- MODULE SingleFlightProofs --------------------------
(***************************************************************************)
(* Proofs about SingleFlight for every finite set of threads and every set *)
(* of identities and locks.                                                *)
(***************************************************************************)
EXTENDS SingleFlight, FiniteSetTheorems, TLAPS

\* Whoever reads or rewrites the registry is the one thread inside the guard.
GuardInv == \A t \in Threads : guard = t <=> pc[t] \in {"registering", "unregistering"}

\* A thread has an identity exactly while it is inside single_flight.
WantInv == \A t \in Threads : pc[t] # "idle" => want[t] \in Identities

\* Every thread counted for k works with the lock object of k's entry.
SharedLockInv ==
    \A t \in Threads :
        pc[t] \in {"waiting", "body", "leaving", "unregistering"} =>
            /\ lock[t] \in Locks
            /\ regLock[want[t]] = lock[t]

\* Entries of different identities have different lock objects.
DistinctLocksInv ==
    \A k1, k2 \in Identities :
        regLock[k1] # NoLock /\ regLock[k1] = regLock[k2] => k1 = k2

\* What the thread inside the guard has read is still what the registry says.
ReadInv ==
    \A t \in Threads :
        /\ pc[t] = "registering" =>
            /\ readRefs[t] = regRefs[want[t]]
            /\ readLock[t] \in Locks
            /\ regLock[want[t]] # NoLock => readLock[t] = regLock[want[t]]
            /\ regLock[want[t]] = NoLock => \A k \in Identities : regLock[k] # readLock[t]
        /\ pc[t] = "unregistering" =>
            /\ readRefs[t] = regRefs[want[t]]
            /\ readLock[t] = regLock[want[t]]

\* A lock object is held exactly by the thread whose body it protects.
HolderInv == \A t \in Threads, l \in Locks : holder[l] = t <=> pc[t] = "body" /\ lock[t] = l

IInv ==
    /\ TypeOK
    /\ GuardInv
    /\ WantInv
    /\ SharedLockInv
    /\ DistinctLocksInv
    /\ ReadInv
    /\ HolderInv
    /\ RegistryCountsUsers
-------------------------------------------------------------------------------
\* Adding one thread to, or taking one from, the users of an entry changes the
\* number of users by one.
LEMMA JoinedFinite == ASSUME NEW k PROVE IsFiniteSet(Joined(k))
  BY SingleFlightAssumption, FS_Subset DEF Joined

LEMMA JoinedNonEmpty ==
  ASSUME NEW k, NEW t \in Joined(k), Cardinality(Joined(k)) = 1
  PROVE  Joined(k) = {t}
<1>1. PICK x : Joined(k) = {x}
  BY JoinedFinite, FS_Singleton
<1>. QED  BY <1>1

LEMMA InitIInv == Init => IInv
<1> SUFFICES ASSUME Init PROVE IInv
  OBVIOUS
<1>1. TypeOK
  BY DEF Init, TypeOK, PCs
<1>2. RegistryCountsUsers
  <2>1. \A k \in Identities : Joined(k) = {}
    BY DEF Init, Joined
  <2>. QED  BY <2>1, FS_EmptySet DEF Init, RegistryCountsUsers
<1>3. GuardInv /\ WantInv /\ SharedLockInv /\ DistinctLocksInv /\ ReadInv /\ HolderInv
  BY SingleFlightAssumption
  DEF Init, GuardInv, WantInv, SharedLockInv, DistinctLocksInv, ReadInv, HolderInv
<1>. QED  BY <1>1, <1>2, <1>3 DEF IInv

\* A step that changes neither who uses an entry nor any count keeps the counts.
LEMMA SameUsers ==
  ASSUME RegistryCountsUsers, regRefs' = regRefs, regLock' = regLock,
         \A k \in Identities : Joined(k)' = Joined(k)
  PROVE  RegistryCountsUsers'
  BY DEF RegistryCountsUsers

LEMMA BeginRegisterIInv ==
  ASSUME IInv, NEW t \in Threads, NEW k \in Identities, BeginRegister(t, k)
  PROVE  IInv'
<1> USE DEF IInv
<1>1. TypeOK'
  BY DEF TypeOK, BeginRegister, PCs
<1>2. GuardInv' /\ WantInv' /\ SharedLockInv' /\ DistinctLocksInv' /\ HolderInv'
  BY SingleFlightAssumption
  DEF TypeOK, BeginRegister, GuardInv, WantInv, SharedLockInv, DistinctLocksInv, HolderInv
<1>3. ReadInv'
  <2>1. ASSUME NEW u \in Threads, u # t PROVE pc'[u] \notin {"registering", "unregistering"}
    BY <2>1, SingleFlightAssumption DEF TypeOK, BeginRegister, GuardInv
  <2>2. readLock'[t] \in Locks
    BY DEF BeginRegister, TypeOK, DistinctLocksInv
  <2>. QED  BY <2>1, <2>2 DEF TypeOK, BeginRegister, ReadInv, Fresh
<1>4. RegistryCountsUsers'
  <2>1. \A i \in Identities : Joined(i)' = Joined(i)
    BY DEF TypeOK, BeginRegister, Joined
  <2>. QED  BY <2>1, SameUsers DEF BeginRegister
<1>. QED  BY <1>1, <1>2, <1>3, <1>4

LEMMA FinishRegisterIInv ==
  ASSUME IInv, NEW t \in Threads, FinishRegister(t)
  PROVE  IInv'
<1> USE DEF IInv
<1>0. want[t] \in Identities
  BY DEF FinishRegister, WantInv
<1>1. TypeOK'
  BY <1>0 DEF TypeOK, FinishRegister, PCs
<1>2. GuardInv' /\ WantInv' /\ HolderInv' /\ ReadInv'
  BY SingleFlightAssumption, <1>0
  DEF TypeOK, FinishRegister, GuardInv, WantInv, ReadInv, HolderInv
<1>3. SharedLockInv'
  <2>. SUFFICES ASSUME NEW u \in Threads,
                       pc'[u] \in {"waiting", "body", "leaving", "unregistering"}
                PROVE  /\ lock'[u] \in Locks
                       /\ regLock'[want'[u]] = lock'[u]
    BY DEF SharedLockInv
  <2>1. CASE u = t
    BY <1>0, <2>1 DEF TypeOK, FinishRegister, ReadInv
  <2>2. CASE u # t
    <3>1. want[u] \in Identities
      BY <2>2 DEF TypeOK, FinishRegister, WantInv
    <3>. QED
      BY <1>0, <2>2, <3>1, SingleFlightAssumption DEF TypeOK, FinishRegister, SharedLockInv, ReadInv
  <2>. QED  BY <2>1, <2>2
<1>4. DistinctLocksInv'
  BY <1>0 DEF TypeOK, FinishRegister, ReadInv, DistinctLocksInv
<1>5. RegistryCountsUsers'
  <2>1. Joined(want[t])' = Joined(want[t]) \cup {t} /\ t \notin Joined(want[t])
    BY <1>0 DEF TypeOK, FinishRegister, Joined
  <2>2. Cardinality(Joined(want[t])') = Cardinality(Joined(want[t])) + 1
    BY <2>1, JoinedFinite, FS_AddElement
  <2>3. \A k \in Identities \ {want[t]} : Joined(k)' = Joined(k)
    BY <1>0 DEF TypeOK, FinishRegister, Joined
  <2>4. regRefs'[want[t]] = Cardinality(Joined(want[t])') /\ regLock'[want[t]] # NoLock
    BY <1>0, <2>2, SingleFlightAssumption DEF TypeOK, FinishRegister, ReadInv, RegistryCountsUsers
  <2>5. \A k \in Identities \ {want[t]} : regRefs'[k] = regRefs[k] /\ regLock'[k] = regLock[k]
    BY <1>0 DEF TypeOK, FinishRegister
  <2>. QED
    BY <1>0, <2>1, <2>3, <2>4, <2>5 DEF RegistryCountsUsers, FinishRegister
<1>. QED  BY <1>1, <1>2, <1>3, <1>4, <1>5

LEMMA AcquireIInv ==
  ASSUME IInv, NEW t \in Threads, Acquire(t)
  PROVE  IInv'
<1> USE DEF IInv
<1>0. lock[t] \in Locks
  BY DEF Acquire, SharedLockInv
<1>1. TypeOK'
  BY <1>0 DEF TypeOK, Acquire, PCs
<1>2. GuardInv' /\ WantInv' /\ SharedLockInv' /\ DistinctLocksInv' /\ ReadInv'
  BY DEF TypeOK, Acquire, GuardInv, WantInv, SharedLockInv, DistinctLocksInv, ReadInv
<1>3. HolderInv'
  BY <1>0, SingleFlightAssumption DEF TypeOK, Acquire, HolderInv
<1>4. RegistryCountsUsers'
  <2>1. \A i \in Identities : Joined(i)' = Joined(i)
    BY DEF TypeOK, Acquire, Joined
  <2>. QED  BY <2>1, SameUsers DEF Acquire
<1>. QED  BY <1>1, <1>2, <1>3, <1>4

LEMMA ReleaseIInv ==
  ASSUME IInv, NEW t \in Threads, Release(t)
  PROVE  IInv'
<1> USE DEF IInv
<1>0. lock[t] \in Locks /\ want[t] \in Identities
  BY DEF Release, SharedLockInv, WantInv
<1>1. TypeOK'
  BY <1>0 DEF TypeOK, Release, PCs
<1>2. GuardInv' /\ WantInv' /\ SharedLockInv' /\ DistinctLocksInv' /\ ReadInv'
  BY DEF TypeOK, Release, GuardInv, WantInv, SharedLockInv, DistinctLocksInv, ReadInv
<1>3. HolderInv'
  BY <1>0, SingleFlightAssumption DEF TypeOK, Release, HolderInv
<1>4. RegistryCountsUsers'
  <2>1. \A i \in Identities : Joined(i)' = Joined(i)
    BY DEF TypeOK, Release, Joined
  <2>. QED  BY <2>1, SameUsers DEF Release
<1>. QED  BY <1>1, <1>2, <1>3, <1>4

LEMMA BeginUnregisterIInv ==
  ASSUME IInv, NEW t \in Threads, BeginUnregister(t)
  PROVE  IInv'
<1> USE DEF IInv
<1>0. want[t] \in Identities
  BY DEF BeginUnregister, WantInv
<1>1. TypeOK'
  BY <1>0 DEF TypeOK, BeginUnregister, PCs
<1>2. GuardInv' /\ WantInv' /\ SharedLockInv' /\ DistinctLocksInv' /\ HolderInv'
  BY SingleFlightAssumption
  DEF TypeOK, BeginUnregister, GuardInv, WantInv, SharedLockInv, DistinctLocksInv, HolderInv
<1>3. ReadInv'
  <2>1. ASSUME NEW u \in Threads, u # t PROVE pc'[u] \notin {"registering", "unregistering"}
    BY <2>1, SingleFlightAssumption DEF TypeOK, BeginUnregister, GuardInv
  <2>. QED  BY <1>0, <2>1 DEF TypeOK, BeginUnregister, ReadInv
<1>4. RegistryCountsUsers'
  <2>1. \A i \in Identities : Joined(i)' = Joined(i)
    BY DEF TypeOK, BeginUnregister, Joined
  <2>. QED  BY <2>1, SameUsers DEF BeginUnregister
<1>. QED  BY <1>1, <1>2, <1>3, <1>4

LEMMA FinishUnregisterIInv ==
  ASSUME IInv, NEW t \in Threads, FinishUnregister(t)
  PROVE  IInv'
<1> USE DEF IInv
<1>0. want[t] \in Identities /\ t \in Joined(want[t])
  BY DEF FinishUnregister, WantInv, Joined
<1>1. readRefs[t] = Cardinality(Joined(want[t])) /\ readRefs[t] \in Nat \ {0}
  <2>1. readRefs[t] = Cardinality(Joined(want[t]))
    BY <1>0 DEF FinishUnregister, ReadInv, RegistryCountsUsers
  <2>. QED  BY <1>0, <2>1, JoinedFinite, FS_EmptySet, FS_CardinalityType
<1>2. TypeOK'
  BY <1>0, <1>1 DEF TypeOK, FinishUnregister, PCs
<1>3. GuardInv' /\ WantInv' /\ HolderInv' /\ ReadInv'
  BY SingleFlightAssumption, <1>0
  DEF TypeOK, FinishUnregister, GuardInv, WantInv, ReadInv, HolderInv
<1>4. SharedLockInv'
  <2>. SUFFICES ASSUME NEW u \in Threads,
                       pc'[u] \in {"waiting", "body", "leaving", "unregistering"}
                PROVE  /\ lock'[u] \in Locks
                       /\ regLock'[want'[u]] = lock'[u]
    BY DEF SharedLockInv
  <2>1. u # t /\ pc'[u] = pc[u] /\ lock'[u] = lock[u] /\ want'[u] = want[u]
    BY DEF TypeOK, FinishUnregister
  <2>2. want[u] \in Identities /\ lock[u] \in Locks /\ regLock[want[u]] = lock[u]
    BY <2>1 DEF WantInv, SharedLockInv
  <2>3. CASE want[u] # want[t]
    BY <1>0, <2>1, <2>2, <2>3 DEF TypeOK, FinishUnregister
  <2>4. CASE want[u] = want[t]
    <3>1. u \in Joined(want[t])
      BY <2>1, <2>4 DEF Joined
    <3>2. readRefs[t] # 1
      BY <1>0, <1>1, <2>1, <3>1, JoinedNonEmpty
    <3>. QED  BY <1>0, <1>1, <2>1, <2>2, <2>4, <3>2 DEF TypeOK, FinishUnregister, ReadInv
  <2>. QED  BY <2>3, <2>4
<1>5. DistinctLocksInv'
  BY <1>0, <1>1 DEF TypeOK, FinishUnregister, ReadInv, DistinctLocksInv
<1>6. RegistryCountsUsers'
  <2>0. PICK k \in Identities : k = want[t]
    BY <1>0
  <2>1. Joined(k)' = Joined(k) \ {t}
    BY <2>0, SingleFlightAssumption DEF TypeOK, FinishUnregister, Joined
  <2>2. Cardinality(Joined(k)') = Cardinality(Joined(k)) - 1
    BY <1>0, <2>0, <2>1, JoinedFinite, FS_RemoveElement
  <2>3. \A i \in Identities \ {k} : Joined(i)' = Joined(i)
    BY <2>0, SingleFlightAssumption DEF TypeOK, FinishUnregister, Joined
  <2>4. regRefs'[k] = Cardinality(Joined(k)')
    BY <1>1, <2>0, <2>2 DEF TypeOK, FinishUnregister
  <2>5. regLock'[k] = NoLock <=> Joined(k)' = {}
    <3>1. CASE readRefs[t] = 1
      BY <1>0, <1>1, <2>0, <2>1, <3>1, JoinedNonEmpty DEF TypeOK, FinishUnregister
    <3>2. CASE readRefs[t] # 1
      <4>1. Joined(k)' # {}
        <5> SUFFICES ASSUME Joined(k)' = {} PROVE FALSE
          OBVIOUS
        <5>1. Joined(k) = {t}
          BY <1>0, <2>0, <2>1
        <5>. QED  BY <1>1, <2>0, <3>2, <5>1, FS_Singleton
      <4>2. readLock[t] \in Locks
        BY DEF FinishUnregister, ReadInv, SharedLockInv
      <4>3. regLock'[k] = readLock[t]
        BY <2>0, <3>2 DEF TypeOK, FinishUnregister
      <4>. QED  BY <4>1, <4>2, <4>3, SingleFlightAssumption
    <3>. QED  BY <3>1, <3>2
  <2>6. \A i \in Identities \ {k} : regRefs'[i] = regRefs[i] /\ regLock'[i] = regLock[i]
    BY <2>0 DEF TypeOK, FinishUnregister
  <2>. QED
    BY <2>3, <2>4, <2>5, <2>6 DEF RegistryCountsUsers
<1>. QED  BY <1>2, <1>3, <1>4, <1>5, <1>6

LEMMA NextIInv == IInv /\ [Next]_vars => IInv'
<1> SUFFICES ASSUME IInv, [Next]_vars PROVE IInv'
  OBVIOUS
<1>1. CASE UNCHANGED vars
  <2>1. RegistryCountsUsers'
    BY <1>1, SameUsers DEF vars, IInv, Joined
  <2>. QED
    BY <1>1, <2>1
    DEF vars, IInv, TypeOK, GuardInv, WantInv, SharedLockInv, DistinctLocksInv, ReadInv, HolderInv
<1>2. ASSUME NEW t \in Threads, NEW k \in Identities, BeginRegister(t, k) PROVE IInv'
  BY <1>2, BeginRegisterIInv
<1>3. ASSUME NEW t \in Threads, Advance(t) \/ Release(t) PROVE IInv'
  BY <1>3, FinishRegisterIInv, AcquireIInv, ReleaseIInv, BeginUnregisterIInv, FinishUnregisterIInv
  DEF Advance
<1>. QED  BY <1>1, <1>2, <1>3 DEF Next
\* Two bodies of one identity would hold one lock object.
LEMMA BodyInv == IInv => OneFlightPerIdentity
<1> SUFFICES ASSUME IInv,
                    NEW t \in Threads, NEW u \in Threads,
                    pc[t] = "body", pc[u] = "body", want[t] = want[u]
             PROVE  t = u
  BY DEF OneFlightPerIdentity
<1>1. lock[t] = lock[u] /\ lock[t] \in Locks
  BY DEF IInv, SharedLockInv
<1>2. holder[lock[t]] = t /\ holder[lock[u]] = u
  BY <1>1 DEF IInv, HolderInv
<1>. QED  BY <1>1, <1>2

-------------------------------------------------------------------------------
\* The inductive invariant holds in every reachable state.
THEOREM Invariance == Spec => []IInv
  BY InitIInv, NextIInv, PTL DEF Spec

\* The state of single_flight is well typed.
THEOREM Typing == Spec => []TypeOK
<1>1. IInv => TypeOK
  BY DEF IInv
<1>. QED  BY <1>1, Invariance, PTL

\* At most one thread is inside the body for an identity.
THEOREM MutualExclusion == Spec => []OneFlightPerIdentity
  BY BodyInv, Invariance, PTL

\* A registry entry counts exactly the threads that hold or await its lock.
THEOREM ExactCounts == Spec => []RegistryCountsUsers
<1>1. IInv => RegistryCountsUsers
  BY DEF IInv
<1>. QED  BY <1>1, Invariance, PTL
-------------------------------------------------------------------------------
(* single_flight implements KeyMutex: entering and leaving the body are the *)
(* abstract steps, everything done about the registry is a stutter.        *)

InBody(t, k) == pc[t] = "body" /\ want[t] = k

LEMMA OwnerOfBody ==
  ASSUME OneFlightPerIdentity, NEW k \in Identities
  PROVE  /\ \A t \in Threads : InBody(t, k) => Owner[k] = t
         /\ (\A t \in Threads : ~InBody(t, k)) => Owner[k] = NoThread
  BY DEF OneFlightPerIdentity, InBody, Owner

LEMMA OwnerUnchanged ==
  ASSUME \A t \in Threads, k \in Identities : InBody(t, k)' = InBody(t, k)
  PROVE  Owner' = Owner
<1>1. ASSUME NEW k \in Identities, NEW t \in Threads
      PROVE (pc'[t] = "body" /\ want'[t] = k) = (pc[t] = "body" /\ want[t] = k)
  BY DEF InBody
<1>. QED  BY <1>1, Zenon DEF Owner

LEMMA AcquireEnters ==
  ASSUME IInv, NEW t \in Threads, Acquire(t)
  PROVE  Abstract!Enter(t, want[t]) /\ want[t] \in Identities
<1>1. want[t] \in Identities /\ lock[t] \in Locks /\ want' = want
  BY DEF IInv, WantInv, SharedLockInv, Acquire
<1>2. PICK k \in Identities : k = want[t]
  BY <1>1
<1>3. \A u \in Threads : ~InBody(u, k)
  \* Otherwise u holds the entry's lock object, which t has just found free.
  <2> SUFFICES ASSUME NEW u \in Threads, InBody(u, k) PROVE FALSE
    OBVIOUS
  <2>1. lock[u] = lock[t]
    BY <1>2 DEF InBody, IInv, SharedLockInv, Acquire
  <2>2. holder[lock[t]] = u
    BY <1>1, <2>1 DEF InBody, IInv, HolderInv
  <2>. QED  BY <2>2, SingleFlightAssumption DEF Acquire
<1>4. Owner[k] = NoThread
  BY <1>3, OwnerOfBody, BodyInv
<1>5. InBody(t, k)'
  BY <1>1, <1>2 DEF InBody, Acquire, IInv, TypeOK
<1>6. Owner'[k] = t
  <2>1. \A u \in Threads : InBody(u, k)' => u = t
    BY <1>2, <1>3 DEF InBody, Acquire, IInv, TypeOK
  <2>. QED  BY <1>5, <2>1 DEF InBody, Owner
<1>7. \A i \in Identities \ {k} : Owner'[i] = Owner[i]
  <2>1. \A u \in Threads, i \in Identities \ {k} :
          (pc'[u] = "body" /\ want'[u] = i) = (pc[u] = "body" /\ want[u] = i)
    BY <1>2 DEF Acquire, IInv, TypeOK
  <2>. QED  BY <2>1, Zenon DEF Owner
<1>8. Owner' = [Owner EXCEPT ![k] = t]
  <2>1. Owner = [i \in Identities |-> Owner[i]] /\ Owner' = [i \in Identities |-> Owner'[i]]
    BY DEF Owner
  <2>. QED  BY <1>6, <1>7, <2>1
<1>. QED  BY <1>1, <1>2, <1>4, <1>8 DEF Abstract!Enter

LEMMA ReleaseLeaves ==
  ASSUME IInv, NEW t \in Threads, Release(t)
  PROVE  Abstract!Leave(t, want[t]) /\ want[t] \in Identities
<1>1. want[t] \in Identities /\ want' = want
  BY DEF IInv, WantInv, Release
<1>2. PICK k \in Identities : k = want[t]
  BY <1>1
<1>3. InBody(t, k) /\ Owner[k] = t
  BY <1>2, OwnerOfBody, BodyInv DEF InBody, Release
<1>4. \A u \in Threads : ~InBody(u, k)'
  BY <1>2, <1>3, BodyInv DEF OneFlightPerIdentity, InBody, Release, IInv, TypeOK
<1>5. Owner'[k] = NoThread
  BY <1>4 DEF InBody, Owner
<1>6. \A i \in Identities \ {k} : Owner'[i] = Owner[i]
  <2>1. \A u \in Threads, i \in Identities \ {k} :
          (pc'[u] = "body" /\ want'[u] = i) = (pc[u] = "body" /\ want[u] = i)
    BY <1>2 DEF Release, IInv, TypeOK
  <2>. QED  BY <2>1, Zenon DEF Owner
<1>7. Owner' = [Owner EXCEPT ![k] = NoThread]
  BY <1>5, <1>6 DEF Owner
<1>. QED  BY <1>1, <1>2, <1>3, <1>7 DEF Abstract!Leave

LEMMA RegistryStutters ==
  ASSUME IInv, NEW t \in Threads,
         \/ \E k \in Identities : BeginRegister(t, k)
         \/ FinishRegister(t) \/ BeginUnregister(t) \/ FinishUnregister(t)
  PROVE  Owner' = Owner
<1>1. pc[t] # "body" /\ pc'[t] # "body"
  BY DEF BeginRegister, FinishRegister, BeginUnregister, FinishUnregister, IInv, TypeOK
<1>2. \A u \in Threads \ {t} : pc'[u] = pc[u] /\ want'[u] = want[u]
  BY DEF BeginRegister, FinishRegister, BeginUnregister, FinishUnregister, IInv, TypeOK
<1>3. \A u \in Threads, k \in Identities : InBody(u, k)' = InBody(u, k)
  BY <1>1, <1>2 DEF InBody
<1>. QED  BY <1>3, OwnerUnchanged

\* Every behaviour of the registry and its locks is a behaviour of one mutex
\* per cache identity.
THEOREM Refinement == Spec => ImplementsKeyMutex
<1>1. Init => Abstract!Init
  BY DEF Init, Owner, Abstract!Init
<1>2. IInv /\ [Next]_vars => [Abstract!Next]_Owner
  <2> SUFFICES ASSUME IInv, [Next]_vars PROVE Abstract!Next \/ Owner' = Owner
    OBVIOUS
  <2>1. CASE UNCHANGED vars
    BY <2>1 DEF vars, Owner
  <2>2. ASSUME NEW t \in Threads, Acquire(t) PROVE Abstract!Next
    BY <2>2, AcquireEnters DEF Abstract!Next
  <2>3. ASSUME NEW t \in Threads, Release(t) PROVE Abstract!Next
    BY <2>3, ReleaseLeaves DEF Abstract!Next
  <2>. QED  BY <2>1, <2>2, <2>3, RegistryStutters DEF Next, Advance
<1>. QED  BY <1>1, <1>2, Invariance, PTL DEF Spec, ImplementsKeyMutex, Abstract!Spec
===============================================================================
