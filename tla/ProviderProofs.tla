---------------------------- MODULE ProviderProofs ----------------------------
(***************************************************************************)
(* Proofs about the two things threads share around a provider:            *)
(* ProviderLocks, for any machines, providers and ids, and                 *)
(* StructuredAnalyst, for any threads, retries and request limits.         *)
(***************************************************************************)
EXTENDS ProviderLocks, StructuredAnalyst, Integers, TLAPS

Held == {"live", "garbage"}
Unbuilt == {"new", "waiting", "inside"}

\* While a provider is in use its id is its own.
IdsInv == \A m, n \in Machines :
    state[m] \notin {"new", "dropped"} /\ state[n] \notin {"new", "dropped"} /\ Id(m) = Id(n)
        => InstanceOf[m] = InstanceOf[n]

\* Locks come from machines that have been built, on the same provider.
LocksInv ==
    /\ \A m \in Machines : state[m] \in Held => lockOf[m] # None
    /\ \A m \in Machines : lockOf[m] # None =>
          InstanceOf[lockOf[m]] = InstanceOf[m] /\ state[lockOf[m]] \notin Unbuilt
    /\ \A k \in Machines : k \in dead => state[k] \notin Unbuilt
    /\ \A k \in Machines : callback[k] # None => k \in dead

\* What the registry would give out is held by somebody.
RegistryInv == \A i \in Ids : registry[i] \notin dead \cup {None} =>
    \E n \in Machines : state[n] \in Held /\ lockOf[n] = registry[i] /\ Id(n) = i

IInv == TypeOK /\ IdsInv /\ LocksInv /\ RegistryInv /\ LiveLocksRegistered
--------------------------------------------------------------------------------
LEMMA IdFacts ==
  ASSUME NEW m \in Machines
  PROVE  InstanceOf[m] \in Instances /\ Id(m) \in Ids /\ Id(m) = IdOf[InstanceOf[m]] /\ m # None
BY ProviderLocksAssumption DEF Instances, Ids, Id

LEMMA InitIInv == Init => IInv
BY ProviderLocksAssumption
DEF Init, IInv, TypeOK, IdsInv, LocksInv, RegistryInv, LiveLocksRegistered, Held

LEMMA BeginIInv ==
  ASSUME IInv, NEW m \in Machines, Begin(m)
  PROVE  IInv'
<1> USE DEF IInv
<1>1. state[m] = "new" /\ UNCHANGED <<lockOf, registry, dead, callback, guard>>
  BY DEF Begin, Goto
<1>2. \A n \in Machines : state'[n] = IF n = m THEN "waiting" ELSE state[n]
  BY DEF Begin, Goto, TypeOK
<1>3. TypeOK'
  BY <1>1 DEF Begin, Goto, TypeOK
<1>4. \A n \in Machines : state[n] \notin {"new", "dropped"} /\ Id(n) = Id(m) => InstanceOf[n] = InstanceOf[m]
  <2> SUFFICES ASSUME NEW n \in Machines, state[n] \notin {"new", "dropped"}, Id(n) = Id(m),
                      InstanceOf[n] # InstanceOf[m]
               PROVE  FALSE
    OBVIOUS
  <2>1. Alive(InstanceOf[n])
    BY DEF Alive, TypeOK
  <2>. QED  BY <2>1, IdFacts DEF Begin
<1>5. IdsInv'
  BY <1>2, <1>4 DEF IdsInv, Id
<1>6. LocksInv'
  <2>1. \A n \in Machines : state[n] \notin Unbuilt => state'[n] \notin Unbuilt
    BY <1>1, <1>2 DEF Unbuilt
  <2>2. \A n \in Machines : lockOf[n] # None => lockOf[n] \in Machines
    BY DEF TypeOK
  <2>3. \A n \in Machines : state'[n] \in Held => state[n] \in Held
    BY <1>1, <1>2 DEF Held
  <2>. QED  BY <1>1, <2>1, <2>2, <2>3 DEF LocksInv
<1>7. RegistryInv'
  <2>1. \A n \in Machines : state[n] \in Held => state'[n] \in Held
    BY <1>1, <1>2 DEF Held
  <2>. QED  BY <1>1, <2>1 DEF RegistryInv, Id
<1>8. LiveLocksRegistered'
  BY <1>1, <1>2 DEF LiveLocksRegistered, Id
<1>. QED  BY <1>3, <1>5, <1>6, <1>7, <1>8

LEMMA TakeGuardIInv ==
  ASSUME IInv, NEW m \in Machines, TakeGuard(m)
  PROVE  IInv'
<1> USE DEF IInv
<1>1. state[m] = "waiting" /\ UNCHANGED <<lockOf, registry, dead, callback>>
  BY DEF TakeGuard, Goto
<1>2. \A n \in Machines : state'[n] = IF n = m THEN "inside" ELSE state[n]
  BY DEF TakeGuard, Goto, TypeOK
<1>3. TypeOK'
  BY <1>1 DEF TakeGuard, Goto, TypeOK
<1>4. IdsInv'
  BY <1>1, <1>2 DEF IdsInv, Id
<1>5. LocksInv'
  <2>1. \A n \in Machines : state[n] \notin Unbuilt => state'[n] \notin Unbuilt
    BY <1>1, <1>2 DEF Unbuilt
  <2>2. \A n \in Machines : lockOf[n] # None => lockOf[n] \in Machines
    BY DEF TypeOK
  <2>3. \A n \in Machines : state'[n] \in Held => state[n] \in Held
    BY <1>1, <1>2 DEF Held
  <2>. QED  BY <1>1, <2>1, <2>2, <2>3 DEF LocksInv
<1>6. RegistryInv'
  <2>1. \A n \in Machines : state[n] \in Held => state'[n] \in Held
    BY <1>1, <1>2 DEF Held
  <2>. QED  BY <1>1, <2>1 DEF RegistryInv, Id
<1>7. LiveLocksRegistered'
  BY <1>1, <1>2 DEF LiveLocksRegistered, Id
<1>. QED  BY <1>3, <1>4, <1>5, <1>6, <1>7

\* A machine that is built on a provider finds or makes its one live lock.
LEMMA BuildIInv ==
  ASSUME IInv, NEW m \in Machines, Share(m) \/ Create(m)
  PROVE  IInv'
<1> USE DEF IInv
<1>1. /\ state[m] = "inside" /\ UNCHANGED <<dead, callback>>
      /\ state' = [state EXCEPT ![m] = "live"] /\ guard' = None
  BY DEF Share, Create, Goto
<1>2. \A n \in Machines : state'[n] = IF n = m THEN "live" ELSE state[n]
  BY <1>1 DEF TypeOK
<1>3. IdsInv'
  BY <1>1, <1>2 DEF IdsInv, Id
<1>4. m # None /\ Id(m) \in Ids
  BY IdFacts
<1>5. CASE Share(m)
  <2> DEFINE k == registry[Id(m)]
  <2>1. k \in Machines /\ k \notin dead /\ lockOf' = [lockOf EXCEPT ![m] = k] /\ registry' = registry
    BY <1>4, <1>5 DEF Share, TypeOK
  <2>2. PICK n \in Machines : state[n] \in Held /\ lockOf[n] = k /\ Id(n) = Id(m)
    BY <1>4, <2>1, IdFacts DEF RegistryInv
  <2>3. InstanceOf[n] = InstanceOf[m]
    BY <1>1, <2>2 DEF IdsInv, Held
  <2>4. InstanceOf[k] = InstanceOf[m] /\ state[k] \notin Unbuilt
    BY <2>1, <2>2, <2>3, IdFacts DEF LocksInv
  <2>5. \A l \in Machines : lockOf'[l] = IF l = m THEN k ELSE lockOf[l]
    BY <2>1 DEF TypeOK
  <2>6. TypeOK'
    BY <1>1, <1>4, <2>1 DEF TypeOK
  <2>7. LocksInv'
    BY <1>1, <1>2, <2>1, <2>4, <2>5, IdFacts DEF LocksInv, Held, Unbuilt
  <2>8. RegistryInv'
    <3> SUFFICES ASSUME NEW i \in Ids, registry[i] \notin dead \cup {None}
                 PROVE  \E l \in Machines : state'[l] \in Held /\ lockOf'[l] = registry[i] /\ Id(l) = i
      BY <1>1, <2>1 DEF RegistryInv, Id
    <3>1. PICK l \in Machines : state[l] \in Held /\ lockOf[l] = registry[i] /\ Id(l) = i
      BY DEF RegistryInv
    <3>. QED  BY <1>1, <1>2, <2>5, <3>1 DEF Held
  <2>9. LiveLocksRegistered'
    BY <1>1, <1>2, <2>1, <2>5 DEF LiveLocksRegistered, Id
  <2>. QED  BY <1>3, <2>6, <2>7, <2>8, <2>9
<1>6. CASE Create(m)
  <2>1. /\ registry[Id(m)] \in dead \cup {None}
        /\ lockOf' = [lockOf EXCEPT ![m] = m] /\ registry' = [registry EXCEPT ![Id(m)] = m]
    BY <1>6 DEF Create
  <2>2. m \notin dead /\ \A l \in Machines : lockOf[l] # m
    BY <1>1, <1>4 DEF LocksInv, Unbuilt
  <2>3. /\ \A l \in Machines : lockOf'[l] = IF l = m THEN m ELSE lockOf[l]
        /\ \A i \in Ids : registry'[i] = IF i = Id(m) THEN m ELSE registry[i]
    BY <2>1 DEF TypeOK
  <2>4. TypeOK'
    BY <1>1, <2>1 DEF TypeOK
  <2>5. LocksInv'
    BY <1>1, <1>2, <1>4, <2>2, <2>3 DEF LocksInv, Held, Unbuilt
  <2>6. RegistryInv'
    <3> SUFFICES ASSUME NEW i \in Ids, registry'[i] \notin dead \cup {None}
                 PROVE  \E l \in Machines : state'[l] \in Held /\ lockOf'[l] = registry'[i] /\ Id(l) = i
      BY <1>1 DEF RegistryInv, Id
    <3>1. CASE i = Id(m)
      BY <1>2, <2>3, <3>1 DEF Held
    <3>2. CASE i # Id(m)
      <4>1. PICK l \in Machines : state[l] \in Held /\ lockOf[l] = registry[i] /\ Id(l) = i
        BY <2>3, <3>2 DEF RegistryInv
      <4>. QED  BY <1>1, <1>2, <2>3, <3>2, <4>1 DEF Held
    <3>. QED  BY <3>1, <3>2
  <2>7. LiveLocksRegistered'
    <3> SUFFICES ASSUME NEW l \in Machines, state'[l] \in Held
                 PROVE  lockOf'[l] \notin dead /\ registry'[Id(l)] = lockOf'[l]
      BY <1>1 DEF LiveLocksRegistered, Held, Id
    <3>1. CASE l = m
      BY <1>4, <2>2, <2>3, <3>1
    <3>2. CASE l # m
      <4>1. state[l] \in Held /\ lockOf[l] \notin dead /\ registry[Id(l)] = lockOf[l] /\ lockOf[l] # None
        BY <1>2, <3>2 DEF LiveLocksRegistered, LocksInv, Held
      <4>2. Id(l) # Id(m)
        BY <2>1, <4>1
      <4>. QED  BY <2>3, <3>2, <4>1, <4>2, IdFacts
    <3>. QED  BY <3>1, <3>2
  <2>. QED  BY <1>3, <2>4, <2>5, <2>6, <2>7
<1>. QED  BY <1>5, <1>6

LEMMA DeallocateIInv ==
  ASSUME IInv, NEW m \in Machines, NEW t \in Machines, NEW from \in Held, Deallocate(m, from, t)
  PROVE  IInv'
<1> USE DEF IInv
<1> DEFINE k == lockOf[m]
<1> DEFINE last == \A n \in Machines \ {m} : ~(lockOf[n] = k /\ state[n] \in Held)
<1>1. /\ state[m] \in Held /\ UNCHANGED <<lockOf, registry, guard>>
      /\ state' = [state EXCEPT ![m] = "dropped"]
      /\ dead' = (IF last THEN dead \cup {k} ELSE dead)
      /\ callback' \in {callback, [callback EXCEPT ![k] = t]}
      /\ callback' # callback => last
  BY DEF Deallocate, Goto, Held
<1>2. \A n \in Machines : state'[n] = IF n = m THEN "dropped" ELSE state[n]
  BY <1>1 DEF TypeOK
<1>3. k \in Machines /\ k # None
  BY <1>1, IdFacts DEF LocksInv, TypeOK
<1>4. TypeOK'
  BY <1>1, <1>3 DEF TypeOK
<1>5. IdsInv'
  BY <1>2 DEF IdsInv, Id
<1>6. LocksInv'
  <2>1. \A n \in Machines : state'[n] \in Held => lockOf[n] # None
    BY <1>2 DEF LocksInv, Held
  <2>2. \A n \in Machines : state[n] \notin Unbuilt => state'[n] \notin Unbuilt
    BY <1>2 DEF Unbuilt
  <2>3. \A n \in Machines : n \in dead' => state'[n] \notin Unbuilt
    BY <1>1, <1>3, <2>2 DEF LocksInv
  <2>4. \A n \in Machines : callback'[n] # None => n \in dead'
    BY <1>1, <1>3 DEF LocksInv, TypeOK
  <2>5. \A n \in Machines : lockOf[n] # None => lockOf[n] \in Machines
    BY DEF TypeOK
  <2>. QED  BY <1>1, <2>1, <2>2, <2>3, <2>4, <2>5 DEF LocksInv
<1>7. RegistryInv'
  <2> SUFFICES ASSUME NEW i \in Ids, registry[i] \notin dead' \cup {None}
               PROVE  \E n \in Machines : state'[n] \in Held /\ lockOf[n] = registry[i] /\ Id(n) = i
    BY <1>1 DEF RegistryInv, Id
  <2>1. registry[i] \notin dead \cup {None}
    BY <1>1
  <2>2. PICK n \in Machines : state[n] \in Held /\ lockOf[n] = registry[i] /\ Id(n) = i
    BY <2>1 DEF RegistryInv
  <2>3. CASE n # m
    BY <1>2, <2>2, <2>3
  <2>4. CASE n = m
    <3>1. ~last
      BY <1>1, <2>2, <2>4
    <3>2. PICK o \in Machines \ {m} : lockOf[o] = k /\ state[o] \in Held
      BY <3>1
    <3>3. InstanceOf[o] = InstanceOf[m]
      BY <1>1, <1>3, <3>2 DEF LocksInv
    <3>. QED  BY <1>2, <2>2, <2>4, <3>2, <3>3 DEF Id
  <2>. QED  BY <2>3, <2>4
<1>8. LiveLocksRegistered'
  BY <1>1, <1>2 DEF LiveLocksRegistered, Held, Id
<1>. QED  BY <1>4, <1>5, <1>6, <1>7, <1>8

LEMMA AbandonIInv ==
  ASSUME IInv, NEW m \in Machines, Abandon(m)
  PROVE  IInv'
<1> USE DEF IInv
<1>1. state[m] = "live" /\ UNCHANGED <<lockOf, registry, dead, callback, guard>>
  BY DEF Abandon, Goto
<1>2. \A n \in Machines : state'[n] = IF n = m THEN "garbage" ELSE state[n]
  BY DEF Abandon, Goto, TypeOK
<1>3. TypeOK'
  BY <1>1 DEF Abandon, Goto, TypeOK
<1>4. IdsInv'
  BY <1>1, <1>2 DEF IdsInv, Id
<1>5. LocksInv'
  <2>1. \A n \in Machines : state[n] \notin Unbuilt => state'[n] \notin Unbuilt
    BY <1>1, <1>2 DEF Unbuilt
  <2>2. \A n \in Machines : lockOf[n] # None => lockOf[n] \in Machines
    BY DEF TypeOK
  <2>3. \A n \in Machines : state'[n] \in Held => state[n] \in Held
    BY <1>1, <1>2 DEF Held
  <2>. QED  BY <1>1, <2>1, <2>2, <2>3 DEF LocksInv
<1>6. RegistryInv'
  <2>1. \A n \in Machines : state[n] \in Held => state'[n] \in Held
    BY <1>1, <1>2 DEF Held
  <2>. QED  BY <1>1, <2>1 DEF RegistryInv, Id
<1>7. LiveLocksRegistered'
  BY <1>1, <1>2 DEF LiveLocksRegistered, Id
<1>. QED  BY <1>3, <1>4, <1>5, <1>6, <1>7

\* A late callback finds the entry of a live lock to be another's.
LEMMA RemoveLockIInv ==
  ASSUME IInv, NEW k \in Machines, RemoveLock(k)
  PROVE  IInv'
<1> USE DEF IInv
<1>1. /\ k \in dead /\ UNCHANGED <<state, lockOf, dead, guard>>
      /\ registry' = [registry EXCEPT ![Id(k)] = IF registry[Id(k)] = k THEN None ELSE registry[Id(k)]]
      /\ callback' = [callback EXCEPT ![k] = None]
  BY DEF RemoveLock, LocksInv
<1>2. \A i \in Ids : registry'[i] = IF i = Id(k) /\ registry[i] = k THEN None ELSE registry[i]
  BY <1>1, IdFacts DEF TypeOK
<1>3. TypeOK'
  BY <1>1 DEF TypeOK
<1>4. IdsInv' /\ LocksInv'
  BY <1>1 DEF IdsInv, LocksInv, TypeOK, Id
<1>5. RegistryInv'
  BY <1>1, <1>2 DEF RegistryInv, Id
<1>6. LiveLocksRegistered'
  BY <1>1, <1>2, IdFacts DEF LiveLocksRegistered, Id
<1>. QED  BY <1>3, <1>4, <1>5, <1>6

LEMMA NextIInv == IInv /\ [Next]_vars => IInv'
<1> SUFFICES ASSUME IInv, [Next]_vars PROVE IInv'
  OBVIOUS
<1>1. CASE UNCHANGED vars
  BY <1>1 DEF vars, IInv, TypeOK, IdsInv, LocksInv, RegistryInv, LiveLocksRegistered, Id
<1>2. ASSUME NEW m \in Machines, Begin(m) \/ Construct(m) \/ Abandon(m) \/ RemoveLock(m) PROVE IInv'
  BY <1>2, BeginIInv, TakeGuardIInv, BuildIInv, AbandonIInv, RemoveLockIInv DEF Construct
<1>3. ASSUME NEW m \in Machines, NEW t \in Machines, Drop(m) \/ Collect(m, t) PROVE IInv'
  BY <1>3, DeallocateIInv DEF Drop, Collect, Held
<1>. QED  BY <1>1, <1>2, <1>3 DEF Next
--------------------------------------------------------------------------------
THEOREM Invariance == Spec => []IInv
BY InitIInv, NextIInv, PTL DEF Spec

\* The lock of every live machine is alive and registered: no late callback
\* removes it, not even when the id has passed to another provider.
THEOREM Registered == Spec => []LiveLocksRegistered
<1>1. IInv => LiveLocksRegistered
  BY DEF IInv
<1>. QED  BY <1>1, Invariance, PTL

\* Live machines share a lock exactly when they share their provider.
THEOREM OneLock == Spec => []OneLockPerProvider
<1>1. IInv => OneLockPerProvider
  <2> SUFFICES ASSUME IInv, NEW m \in Machines, NEW n \in Machines, state[m] = "live", state[n] = "live"
               PROVE  lockOf[m] = lockOf[n] <=> InstanceOf[m] = InstanceOf[n]
    BY DEF OneLockPerProvider
  <2>1. registry[Id(m)] = lockOf[m] /\ registry[Id(n)] = lockOf[n]
    BY DEF IInv, LiveLocksRegistered
  <2>2. InstanceOf[lockOf[m]] = InstanceOf[m] /\ InstanceOf[lockOf[n]] = InstanceOf[n]
    BY DEF IInv, LocksInv, Held
  <2>. QED  BY <2>1, <2>2 DEF Id
<1>. QED  BY <1>1, Invariance, PTL
--------------------------------------------------------------------------------
(* StructuredAnalyst *)

\* The requests and outputs of runs before the current one are paid by those
\* runs; the current one pays with its turns and its refused proposals, and
\* with one output more when it ends in one.
Spent == {"extracted", "llm_output_failed_validation"}
Unstarted == {"idle", "empty_source_text"}
BudgetOf(t) ==
    /\ IF pc[t] \in Unstarted THEN runs[t] = 0 /\ outputs[t] = 0 /\ requests[t] = 0 ELSE runs[t] >= 1
    /\ runs[t] <= IF pc[t] = "waiting" THEN TransportRetries ELSE TransportRetries + 1
    /\ refused[t] <= OutputRetries /\ turns[t] <= RequestLimit
    /\ runs[t] >= 1 =>
          /\ outputs[t] <= (runs[t] - 1) * (OutputRetries + 1) + refused[t]
                              + (IF pc[t] \in Spent THEN 1 ELSE 0)
          /\ requests[t] <= (runs[t] - 1) * RequestLimit + turns[t]
    /\ outputs[t] + (IF pc[t] = "awaiting" THEN 1 ELSE 0) <= requests[t]
AnalystInv == AnalystTypeOK /\ \A t \in Threads : BudgetOf(t)

\* What one more run adds to a budget, and that budgets grow with runs.
LEMMA BudgetFacts ==
  ASSUME NEW r \in Nat, NEW b \in Nat
  PROVE  /\ (r + 1 - 1) * b = (r - 1) * b + b
         /\ (r - 1) * b \in Int
         /\ \A n \in Nat : r <= n => r * b <= n * b
<1>1. (r + 1 - 1) * b = (r - 1) * b + b /\ (r - 1) * b \in Int
  OBVIOUS
<1>2. ASSUME NEW n \in Nat, r <= n PROVE r * b <= n * b
  BY <1>2
<1>. QED  BY <1>1, <1>2

LEMMA AnalystInitInv == AnalystInit => AnalystInv
BY StructuredAnalystAssumption DEF AnalystInit, AnalystInv, AnalystTypeOK, BudgetOf, Proposals, Places,
   Unstarted, Spent

\* A step of one thread leaves the budgets of the others alone.
Untouched(u) ==
    /\ pc'[u] = pc[u] /\ runs'[u] = runs[u] /\ turns'[u] = turns[u]
    /\ refused'[u] = refused[u] /\ outputs'[u] = outputs[u] /\ requests'[u] = requests[u]
LEMMA UntouchedKeeps == ASSUME NEW u \in Threads, BudgetOf(u), Untouched(u) PROVE BudgetOf(u)'
BY DEF BudgetOf, Untouched

\* A step of t that counts nothing, to a place where nothing was spent.
LEMMA MoveInv ==
  ASSUME AnalystInv, NEW t \in Threads, NEW from, NEW to \in {"locking", "constructing", "registering", "asking",
             "waiting", "empty_source_text"} \cup (Errors \ Spent),
         Move(t, from, to), UNCHANGED counters,
         from \notin Spent \cup {"empty_source_text"},
         to = "empty_source_text" <=> from = "idle",
         to = "waiting" => runs[t] <= TransportRetries,
         accepted' = accepted, agent' \in {"none", "bare", "complete"}, lock' \in Threads \cup {NoThread}
  PROVE  AnalystInv'
<1>1. pc[t] = from /\ pc' = [pc EXCEPT ![t] = to] /\ pc'[t] = to /\ \A u \in Threads \ {t} : pc'[u] = pc[u]
  BY DEF Move, AnalystInv, AnalystTypeOK
<1>2. AnalystTypeOK'
  BY <1>1 DEF AnalystInv, AnalystTypeOK, counters, Places, Ends, Errors
<1>3. BudgetOf(t)'
  <2>1. /\ runs[t] \in Nat /\ turns[t] \in Nat /\ refused[t] \in Nat /\ outputs[t] \in Nat /\ requests[t] \in Nat
        /\ OutputRetries \in Nat /\ TransportRetries \in Nat /\ RequestLimit \in Nat
    BY StructuredAnalystAssumption DEF AnalystInv, AnalystTypeOK
  <2>2. BudgetOf(t) /\ to \notin Spent /\ to # "awaiting" /\ (to \in Unstarted <=> from \in Unstarted)
    BY <1>1 DEF AnalystInv, Spent, Unstarted, Errors
  <2>. QED  BY <1>1, <2>1, <2>2 DEF BudgetOf, counters, Spent, Unstarted
<1>4. ASSUME NEW u \in Threads, u # t PROVE BudgetOf(u)'
  BY <1>1, <1>4, UntouchedKeeps DEF AnalystInv, Untouched, counters
<1>. QED  BY <1>2, <1>3, <1>4 DEF AnalystInv

\* A run begins: what the one before may have spent becomes past.
LEMMA BeginRunInv ==
  ASSUME AnalystInv, NEW t \in Threads, BeginRun(t)
  PROVE  AnalystInv'
<1>1. /\ pc[t] \in {"idle", "waiting"} /\ pc' = [pc EXCEPT ![t] = "building"] /\ runs' = Count(runs, t)
      /\ turns' = [turns EXCEPT ![t] = 0] /\ refused' = [refused EXCEPT ![t] = 0]
      /\ UNCHANGED <<agent, lock, outputs, requests, accepted>>
  BY DEF BeginRun, Move
<1>2. AnalystTypeOK'
  BY <1>1 DEF AnalystInv, AnalystTypeOK, Count, Places
<1>3. BudgetOf(t)'
  <2>1. /\ runs[t] \in Nat /\ turns[t] \in Nat /\ refused[t] \in Nat /\ outputs[t] \in Nat /\ requests[t] \in Nat
        /\ OutputRetries \in Nat /\ TransportRetries \in Nat /\ RequestLimit \in Nat
    BY StructuredAnalystAssumption DEF AnalystInv, AnalystTypeOK
  <2>2. /\ pc'[t] = "building" /\ runs'[t] = runs[t] + 1 /\ turns'[t] = 0 /\ refused'[t] = 0
        /\ outputs'[t] = outputs[t] /\ requests'[t] = requests[t]
    BY <1>1 DEF AnalystInv, AnalystTypeOK, Count
  <2>3. BudgetOf(t)
    BY DEF AnalystInv
  <2>4. /\ (runs[t] + 1 - 1) * (OutputRetries + 1) = (runs[t] - 1) * (OutputRetries + 1) + (OutputRetries + 1)
        /\ (runs[t] + 1 - 1) * RequestLimit = (runs[t] - 1) * RequestLimit + RequestLimit
        /\ (runs[t] - 1) * (OutputRetries + 1) \in Int /\ (runs[t] - 1) * RequestLimit \in Int
    <3>1. OutputRetries + 1 \in Nat
      BY <2>1
    <3>. QED  BY <2>1, <3>1, BudgetFacts
  <2>5. CASE pc[t] = "idle"
    <3>1. runs[t] = 0 /\ outputs[t] = 0 /\ requests[t] = 0
      BY <2>3, <2>5 DEF BudgetOf, Unstarted
    <3>. QED  BY <2>1, <2>2, <3>1 DEF BudgetOf, Unstarted, Spent
  <2>6. CASE pc[t] = "waiting"
    <3>1. /\ runs[t] >= 1 /\ runs[t] <= TransportRetries /\ refused[t] <= OutputRetries /\ turns[t] <= RequestLimit
          /\ outputs[t] <= (runs[t] - 1) * (OutputRetries + 1) + refused[t]
          /\ requests[t] <= (runs[t] - 1) * RequestLimit + turns[t] /\ outputs[t] <= requests[t]
      BY <2>1, <2>3, <2>4, <2>6 DEF BudgetOf, Unstarted, Spent
    <3>. HIDE <2>3
    <3>. QED  BY <2>1, <2>2, <2>4, <3>1 DEF BudgetOf, Unstarted, Spent
  <2>. QED  BY <1>1, <2>5, <2>6
<1>4. ASSUME NEW u \in Threads, u # t PROVE BudgetOf(u)'
  BY <1>1, <1>4, UntouchedKeeps DEF AnalystInv, AnalystTypeOK, Untouched, Count
<1>. QED  BY <1>2, <1>3, <1>4 DEF AnalystInv

\* A request is one of the turns of the run.
LEMMA AskInv ==
  ASSUME AnalystInv, NEW t \in Threads, Ask(t)
  PROVE  AnalystInv'
<1>1. /\ pc[t] = "asking" /\ pc' = [pc EXCEPT ![t] = "awaiting"] /\ turns[t] < RequestLimit
      /\ turns' = Count(turns, t) /\ requests' = Count(requests, t)
      /\ UNCHANGED <<agent, lock, runs, refused, outputs, accepted>>
  BY DEF Ask, Move
<1>2. AnalystTypeOK'
  BY <1>1 DEF AnalystInv, AnalystTypeOK, Count, Places
<1>3. BudgetOf(t)'
  <2>1. /\ runs[t] \in Nat /\ turns[t] \in Nat /\ refused[t] \in Nat /\ outputs[t] \in Nat /\ requests[t] \in Nat
        /\ OutputRetries \in Nat /\ TransportRetries \in Nat /\ RequestLimit \in Nat
    BY StructuredAnalystAssumption DEF AnalystInv, AnalystTypeOK
  <2>2. /\ pc'[t] = "awaiting" /\ runs'[t] = runs[t] /\ turns'[t] = turns[t] + 1 /\ refused'[t] = refused[t]
        /\ outputs'[t] = outputs[t] /\ requests'[t] = requests[t] + 1
    BY <1>1 DEF AnalystInv, AnalystTypeOK, Count
  <2>3. BudgetOf(t) /\ (runs[t] - 1) * RequestLimit \in Int
    BY <2>1, BudgetFacts DEF AnalystInv
  <2>. QED  BY <1>1, <2>1, <2>2, <2>3 DEF BudgetOf, Unstarted, Spent
<1>4. ASSUME NEW u \in Threads, u # t PROVE BudgetOf(u)'
  BY <1>1, <1>4, UntouchedKeeps DEF AnalystInv, AnalystTypeOK, Untouched, Count
<1>. QED  BY <1>2, <1>3, <1>4 DEF AnalystInv

\* An output is a proposal that is refused, or the last one of its run.
LEMMA OutputInv ==
  ASSUME AnalystInv, NEW t \in Threads,
         pc[t] = "awaiting", outputs' = Count(outputs, t), UNCHANGED <<agent, lock, runs, turns, requests>>,
         \/ /\ pc' = [pc EXCEPT ![t] = "asking"]
            /\ refused[t] < OutputRetries /\ refused' = Count(refused, t)
         \/ /\ \E end \in Spent : pc' = [pc EXCEPT ![t] = end]
            /\ refused' = refused,
         accepted' \in [Threads -> Proposals \cup {"nothing"}]
  PROVE  AnalystInv'
<1>1. /\ runs[t] \in Nat /\ turns[t] \in Nat /\ refused[t] \in Nat /\ outputs[t] \in Nat /\ requests[t] \in Nat
      /\ OutputRetries \in Nat /\ TransportRetries \in Nat /\ RequestLimit \in Nat
  BY StructuredAnalystAssumption DEF AnalystInv, AnalystTypeOK
<1>2. /\ runs'[t] = runs[t] /\ turns'[t] = turns[t] /\ outputs'[t] = outputs[t] + 1 /\ requests'[t] = requests[t]
      /\ \/ pc'[t] = "asking" /\ refused[t] < OutputRetries /\ refused'[t] = refused[t] + 1
         \/ pc'[t] \in Spent /\ refused'[t] = refused[t]
  BY DEF AnalystInv, AnalystTypeOK, Count
<1>3. AnalystTypeOK'
  <2>1. outputs' \in [Threads -> Nat] /\ refused' \in [Threads -> Nat]
    BY DEF AnalystInv, AnalystTypeOK, Count
  <2>2. "asking" \in Places /\ Spent \subseteq Places
    BY DEF Spent, Places, Ends, Errors
  <2>3. pc' \in [Threads -> Places]
    BY <2>2 DEF AnalystInv, AnalystTypeOK, Places
  <2>. QED  BY <2>1, <2>3 DEF AnalystInv, AnalystTypeOK, Places
<1>4. BudgetOf(t)'
  <2>1. BudgetOf(t) /\ (runs[t] - 1) * (OutputRetries + 1) \in Int
    BY <1>1, BudgetFacts DEF AnalystInv
  <2>. QED  BY <1>1, <1>2, <2>1 DEF BudgetOf, Unstarted, Spent
<1>5. ASSUME NEW u \in Threads, u # t PROVE BudgetOf(u)'
  BY <1>5, UntouchedKeeps DEF AnalystInv, AnalystTypeOK, Untouched, Count
<1>. QED  BY <1>3, <1>4, <1>5 DEF AnalystInv

LEMMA ProceedInv ==
  ASSUME AnalystInv, NEW t \in Threads, Proceed(t)
  PROVE  AnalystInv'
<1> USE DEF counters
<1>1. agent \in {"none", "bare", "complete"} /\ lock \in Threads \cup {NoThread}
  BY DEF AnalystInv, AnalystTypeOK
<1>2. CASE LookForAgent(t)
  BY <1>1, <1>2, MoveInv DEF LookForAgent, Spent
<1>3. CASE LockAgent(t)
  BY <1>1, <1>3, MoveInv DEF LockAgent, Spent
<1>4. CASE BuildAgent(t)
  BY <1>1, <1>4, MoveInv DEF BuildAgent, Spent
<1>5. CASE RegisterValidator(t)
  BY <1>1, <1>5, MoveInv DEF RegisterValidator, Spent
<1>6. CASE AskTooMuch(t)
  BY <1>1, <1>6, MoveInv DEF AskTooMuch, Spent, Errors
<1>. QED  BY <1>2, <1>3, <1>4, <1>5, <1>6, AskInv DEF Proceed

LEMMA RespondInv ==
  ASSUME AnalystInv, NEW t \in Threads, Respond(t)
  PROVE  AnalystInv'
<1>1. agent \in {"none", "bare", "complete"} /\ lock \in Threads \cup {NoThread}
      /\ accepted \in [Threads -> Proposals \cup {"nothing"}]
  BY DEF AnalystInv, AnalystTypeOK
<1>2. CASE LookUp(t)
  BY <1>1, <1>2, MoveInv DEF LookUp, Spent
<1>3. CASE FailRun(t)
  BY <1>1, <1>3, MoveInv DEF FailRun, Spent, Errors
<1>4. CASE Rejected(t)
  BY <1>1, <1>4, MoveInv DEF Rejected, Spent, Errors
<1>5. CASE Retry(t)
  BY <1>1, <1>5, MoveInv DEF Retry, Spent
<1>6. CASE GiveUp(t)
  BY <1>1, <1>6, MoveInv DEF GiveUp, Spent, Errors
<1>7. CASE FailValidation(t)
  BY <1>1, <1>7, OutputInv DEF FailValidation, Move, Spent
<1>8. ASSUME NEW proposal \in Proposals, Accept(t, proposal) PROVE AnalystInv'
  <2>1. accepted' \in [Threads -> Proposals \cup {"nothing"}]
    BY <1>1, <1>8 DEF Accept
  <2>. QED  BY <1>8, <2>1, OutputInv DEF Accept, Move, Spent
<1>9. ASSUME NEW proposal \in Proposals, HandBack(t, proposal) PROVE AnalystInv'
  BY <1>1, <1>9, OutputInv DEF HandBack, Move
<1>. QED  BY <1>2, <1>3, <1>4, <1>5, <1>6, <1>7, <1>8, <1>9 DEF Respond

LEMMA AnalystNextInv == AnalystInv /\ [AnalystNext]_analystVars => AnalystInv'
<1> SUFFICES ASSUME AnalystInv, [AnalystNext]_analystVars PROVE AnalystInv'
  OBVIOUS
<1>1. CASE UNCHANGED analystVars
  BY <1>1 DEF analystVars, counters, AnalystInv, AnalystTypeOK, BudgetOf
<1>2. ASSUME NEW t \in Threads, Blank(t) \/ Deadline(t) PROVE AnalystInv'
  <2>1. agent \in {"none", "bare", "complete"} /\ lock \in Threads \cup {NoThread}
    BY DEF AnalystInv, AnalystTypeOK
  <2>2. CASE Blank(t)
    BY <2>1, <2>2, MoveInv DEF Blank, Spent
  <2>3. CASE Deadline(t)
    BY <2>1, <2>3, MoveInv DEF Deadline, Spent, Errors
  <2>. QED  BY <1>2, <2>2, <2>3
<1>3. ASSUME NEW t \in Threads, BeginRun(t) \/ Proceed(t) \/ Respond(t) PROVE AnalystInv'
  BY <1>3, BeginRunInv, ProceedInv, RespondInv
<1>. QED  BY <1>1, <1>2, <1>3 DEF AnalystNext, Finished
--------------------------------------------------------------------------------
THEOREM AnalystInvariance == AnalystSpec => []AnalystInv
BY AnalystInitInv, AnalystNextInv, PTL DEF AnalystSpec

\* However threads, refusals and transient errors mix, an extraction takes no
\* more runs, requests and outputs than the two budgets allow together.
THEOREM Bounded == AnalystSpec => []AttemptsBounded
<1>1. ASSUME AnalystInv, NEW t \in Threads
      PROVE  /\ runs[t] <= TransportRetries + 1
             /\ outputs[t] <= (TransportRetries + 1) * (OutputRetries + 1)
             /\ outputs[t] <= requests[t]
             /\ requests[t] <= (TransportRetries + 1) * RequestLimit
  <2> DEFINE R == TransportRetries + 1   O == OutputRetries + 1
  <2>1. /\ runs[t] \in Nat /\ turns[t] \in Nat /\ refused[t] \in Nat /\ outputs[t] \in Nat /\ requests[t] \in Nat
        /\ RequestLimit \in Nat /\ R \in Nat /\ O \in Nat /\ TransportRetries \in Nat /\ OutputRetries \in Nat
    BY <1>1, StructuredAnalystAssumption DEF AnalystInv, AnalystTypeOK
  <2>2. BudgetOf(t)
    BY <1>1 DEF AnalystInv
  <2>3. runs[t] <= R /\ outputs[t] <= requests[t]
    BY <2>1, <2>2 DEF BudgetOf
  <2>4. /\ runs[t] * O = (runs[t] - 1) * O + O /\ runs[t] * RequestLimit = (runs[t] - 1) * RequestLimit + RequestLimit
        /\ runs[t] * O <= R * O /\ runs[t] * RequestLimit <= R * RequestLimit
        /\ (runs[t] - 1) * O \in Int /\ (runs[t] - 1) * RequestLimit \in Int
        /\ runs[t] * O \in Nat /\ runs[t] * RequestLimit \in Nat /\ R * O \in Nat /\ R * RequestLimit \in Nat
    <3>1. runs[t] + 1 - 1 = runs[t]
      BY <2>1
    <3>. HIDE DEF R, O
    <3>2. /\ runs[t] * O \in Nat /\ runs[t] * RequestLimit \in Nat /\ R * O \in Nat /\ R * RequestLimit \in Nat
      BY <2>1
    <3>. QED  BY <2>1, <2>3, <3>1, <3>2, BudgetFacts
  <2>5. CASE runs[t] = 0
    <3>1. pc[t] \in Unstarted /\ outputs[t] = 0 /\ requests[t] = 0
      BY <2>2, <2>5 DEF BudgetOf
    <3>. QED  BY <2>1, <2>3, <2>4, <3>1
  <2>6. CASE runs[t] >= 1
    <3>1. outputs[t] <= (runs[t] - 1) * O + O /\ requests[t] <= (runs[t] - 1) * RequestLimit + RequestLimit
      BY <2>1, <2>2, <2>4, <2>6 DEF BudgetOf
    <3>. HIDE DEF R, O
    <3>2. outputs[t] <= R * O /\ requests[t] <= R * RequestLimit
      BY <2>1, <2>4, <3>1
    <3>. QED  BY <2>3, <3>2 DEF R, O
  <2>. QED  BY <2>1, <2>5, <2>6
<1>2. AnalystInv => AttemptsBounded
  BY <1>1 DEF AttemptsBounded
<1>. QED  BY <1>2, AnalystInvariance, PTL
================================================================================
