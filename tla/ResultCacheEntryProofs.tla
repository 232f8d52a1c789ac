------------------------ MODULE ResultCacheEntryProofs ------------------------
(***************************************************************************)
(* Proofs about ResultCacheEntry for every set of threads and processes:   *)
(* what holds whatever fails, and what a process that has the cache        *)
(* directory to itself can rely on.                                        *)
(***************************************************************************)
EXTENDS ResultCacheEntry, FiniteSetTheorems, TLAPS

Inside == {"checking", "reading", "discarding", "calling"} \cup StoreSteps

\* A thread is inside single_flight exactly while its process says so.
FlightInv == \A t \in Threads : flight[ProcessOf[t]] = t <=> pc[t] \in Inside

\* A temporary file that is about to be renamed is complete, and only a thread
\* between creating and renaming or unlinking it has one, or could not unlink it.
TempInv ==
    \A t \in Threads :
        /\ pc[t] = "replacing" => temp[t] = "whole"
        /\ temp[t] # "absent" => pc[t] \in {"writing", "replacing", "undoing", "littered"}

SafeInv ==
    /\ TypeOK
    /\ FlightInv
    /\ TempInv
    /\ EntryNeverPartial
    /\ orphans <= crashes

LEMMA SafeInit == Init => SafeInv
  BY ResultCacheEntryAssumption
  DEF Init, SafeInv, TypeOK, FlightInv, TempInv, EntryNeverPartial, Inside, Contents, PCs, LoadSteps,
      StoreSteps, Ends

\* Leaving the body frees the flight of the thread's own process only.
LEMMA LeaveFreesFlight ==
  ASSUME TypeOK, FlightInv, NEW t \in Threads, NEW from \in Inside, NEW end \in Ends,
         LeaveWith(t, from, end)
  PROVE  FlightInv'
<1>1. end \notin Inside
  BY DEF Inside, Ends, StoreSteps
<1>2. ProcessOf[t] \in Processes /\ t # NoThread
  BY ResultCacheEntryAssumption
<1>3. flight[ProcessOf[t]] = t
  BY DEF FlightInv, LeaveWith, Goto
<1>. QED
  BY <1>1, <1>2, <1>3, ResultCacheEntryAssumption DEF TypeOK, FlightInv, LeaveWith, Goto

LEMMA SafeStep ==
  ASSUME SafeInv, NEW t \in Threads, Step(t)
  PROVE  SafeInv'
<1> USE ResultCacheEntryAssumption DEF SafeInv
<1>1. ProcessOf[t] \in Processes
  OBVIOUS
<1>2. CASE Enter(t)
  BY <1>1, <1>2
  DEF Enter, Goto, TypeOK, FlightInv, TempInv, EntryNeverPartial, Inside, PCs, LoadSteps, StoreSteps, Ends
<1>3. CASE Check(t) \/ ReadHistorical(t) \/ ReadInvalid(t) \/ Discard(t) \/ ProviderReturns(t)
  BY <1>1, <1>3
  DEF Check, ReadHistorical, ReadInvalid, Discard, ProviderReturns, Goto, TypeOK, FlightInv, TempInv,
      EntryNeverPartial, Inside, Contents, PCs, LoadSteps, StoreSteps, Ends
<1>4. CASE ReadHit(t) \/ ProviderFails(t)
  BY <1>1, <1>4
  DEF ReadHit, ProviderFails, LeaveWith, Goto, TypeOK, FlightInv, TempInv, EntryNeverPartial, Inside,
      Contents, PCs, LoadSteps, StoreSteps, Ends
<1>5. CASE CreateTemp(t)
  <2>1. TypeOK'
    BY <1>1, <1>5 DEF CreateTemp, LeaveWith, Goto, TypeOK, Contents, PCs, Ends, StoreSteps
  <2>2. FlightInv'
    <3>1. CASE Goto(t, "creating", "writing") /\ UNCHANGED flight
      BY <3>1 DEF Goto, TypeOK, FlightInv, Inside, StoreSteps
    <3>2. CASE LeaveWith(t, "creating", "raised")
      BY <3>2, LeaveFreesFlight DEF Inside, StoreSteps, Ends
    <3>. QED  BY <1>5, <3>1, <3>2 DEF CreateTemp
  <2>3. TempInv'
    BY <1>1, <1>5 DEF CreateTemp, LeaveWith, Goto, TypeOK, TempInv, StoreSteps
  <2>. QED
    BY <1>5, <2>1, <2>2, <2>3 DEF CreateTemp, LeaveWith, EntryNeverPartial
<1>6. CASE WriteTemp(t)
  BY <1>1, <1>6
  DEF WriteTemp, Goto, TypeOK, FlightInv, TempInv, EntryNeverPartial, Inside, Contents, PCs, LoadSteps,
      StoreSteps, Ends
<1>7. CASE Replace(t)
  BY <1>1, <1>7
  DEF Replace, Goto, TypeOK, FlightInv, TempInv, EntryNeverPartial, Inside, Contents, PCs, LoadSteps,
      StoreSteps, Ends
<1>8. CASE UndoTemp(t) \/ Secure(t)
  <2>1. TypeOK'
    BY <1>1, <1>8 DEF UndoTemp, Secure, LeaveWith, Goto, TypeOK, Contents, PCs, Ends, StoreSteps
  <2>2. FlightInv'
    <3>1. PICK from \in Inside, end \in Ends : LeaveWith(t, from, end)
      BY <1>8 DEF UndoTemp, Secure, Inside, StoreSteps, Ends
    <3>. QED  BY <3>1, LeaveFreesFlight
  <2>3. TempInv'
    BY <1>1, <1>8 DEF UndoTemp, Secure, LeaveWith, Goto, TypeOK, TempInv, StoreSteps
  <2>. QED
    BY <1>8, <2>1, <2>2, <2>3 DEF UndoTemp, Secure, LeaveWith, EntryNeverPartial
<1>. QED  BY <1>2, <1>3, <1>4, <1>5, <1>6, <1>7, <1>8 DEF Step

\* At most one store of a process is under way: its thread is in the flight.
LEMMA OneStoring ==
  ASSUME SafeInv, NEW p \in Processes
  PROVE  Cardinality(Storing(p)) \in {0, 1}
<1>1. \A t, u \in Storing(p) : t = u
  BY ResultCacheEntryAssumption
  DEF SafeInv, Storing, FlightInv, TempInv, Inside, StoreSteps, Ends
<1>2. CASE Storing(p) = {}
  BY <1>2, FS_EmptySet
<1>3. CASE Storing(p) # {}
  <2>1. PICK t : Storing(p) = {t}
    BY <1>1, <1>3
  <2>. QED  BY <2>1, FS_Singleton
<1>. QED  BY <1>2, <1>3

LEMMA SafeCrash ==
  ASSUME SafeInv, NEW p \in Processes, Crash(p)
  PROVE  SafeInv'
<1>1. orphans' \in Nat /\ orphans' <= crashes'
  BY OneStoring, ResultCacheEntryAssumption DEF SafeInv, Crash, TypeOK
<1>. QED
  BY <1>1, ResultCacheEntryAssumption
  DEF SafeInv, Crash, TypeOK, FlightInv, TempInv, EntryNeverPartial, Inside, PCs, LoadSteps, StoreSteps, Ends

LEMMA SafeNext == SafeInv /\ [Next]_vars => SafeInv'
<1> SUFFICES ASSUME SafeInv, [Next]_vars PROVE SafeInv'
  OBVIOUS
<1>1. CASE UNCHANGED vars
  BY <1>1 DEF vars, SafeInv, TypeOK, FlightInv, TempInv, EntryNeverPartial
<1>. QED  BY <1>1, SafeStep, SafeCrash DEF Next, Finished

\* Whatever fails and whoever dies, no reader of the entry meets a prefix of a
\* record.
THEOREM NeverPartial == Spec => []EntryNeverPartial
<1>1. SafeInv => EntryNeverPartial
  BY DEF SafeInv
<1>. QED  BY <1>1, SafeInit, SafeNext, PTL DEF Spec

\* Only a crash or a removal that itself failed leaves a temporary file behind,
\* and a crash at most one.
THEOREM TempsRemoved == Spec => []NoStrayTemp
<1>1. SafeInv => NoStrayTemp
  BY DEF SafeInv, TempInv, NoStrayTemp, StoreSteps
<1>. QED  BY <1>1, SafeInit, SafeNext, PTL DEF Spec
-------------------------------------------------------------------------------
(* One process that can read what it wrote: single flight makes the cache   *)
(* exact, whatever else fails.                                              *)

Alone == "read" \notin Failing /\ \A t, u \in Threads : ProcessOf[t] = ProcessOf[u]

\* A thread that has not found the entry works while there is none; whoever
\* has stored one, or has returned after storing one, left it in place.
ExactInv ==
    /\ SafeInv
    /\ \A t \in Threads : pc[t] \in {"discarding", "calling", "creating", "writing", "replacing"} => entry # "whole"
    /\ \A t \in Threads : pc[t] \in {"securing", "computed"} => entry = "whole"
    /\ SingleComputation

LEMMA ExactInit == Init => ExactInv
  BY SafeInit DEF Init, ExactInv, SingleComputation, StoreSteps

LEMMA ExactStep ==
  ASSUME Alone, ExactInv, NEW t \in Threads, Step(t)
  PROVE  ExactInv' /\ (entry = "whole" => entry' = "whole")
<1> USE ResultCacheEntryAssumption DEF ExactInv
<1>1. SafeInv'
  BY SafeStep
<1>2. ASSUME NEW u \in Threads, pc[u] \in Inside, pc[t] \in Inside \/ flight[ProcessOf[t]] = NoThread
      PROVE u = t
  BY <1>2 DEF Alone, SafeInv, FlightInv
<1>3. CASE Enter(t)
  BY <1>1, <1>3 DEF Enter, Goto, SingleComputation, SafeInv, TypeOK, StoreSteps
<1>4. CASE Check(t) \/ ReadHistorical(t) \/ ReadInvalid(t) \/ Discard(t)
  BY <1>1, <1>2, <1>4
  DEF Check, ReadHistorical, ReadInvalid, Discard, Goto, SingleComputation, SafeInv, TypeOK, StoreSteps,
      Inside, Alone
<1>5. CASE ReadHit(t) \/ ProviderFails(t)
  BY <1>1, <1>5
  DEF ReadHit, ProviderFails, LeaveWith, Goto, SingleComputation, SafeInv, TypeOK, StoreSteps
<1>6. CASE ProviderReturns(t)
  BY <1>1, <1>2, <1>6
  DEF ProviderReturns, Goto, SingleComputation, SafeInv, TypeOK, StoreSteps, Inside
<1>7. CASE CreateTemp(t) \/ WriteTemp(t)
  BY <1>1, <1>7
  DEF CreateTemp, WriteTemp, LeaveWith, Goto, SingleComputation, SafeInv, TypeOK, StoreSteps, Alone
<1>8. CASE Replace(t)
  BY <1>1, <1>2, <1>8
  DEF Replace, Goto, SingleComputation, SafeInv, TypeOK, TempInv, StoreSteps, Inside, Alone
<1>9. CASE UndoTemp(t) \/ Secure(t)
  BY <1>1, <1>9
  DEF UndoTemp, Secure, LeaveWith, Goto, SingleComputation, SafeInv, TypeOK, StoreSteps, Alone
<1>. QED  BY <1>3, <1>4, <1>5, <1>6, <1>7, <1>8, <1>9 DEF Step

LEMMA ExactNext ==
  ASSUME Alone
  PROVE  ExactInv /\ [Next]_vars => ExactInv' /\ (entry = "whole" => entry' = "whole")
<1> SUFFICES ASSUME ExactInv, [Next]_vars PROVE ExactInv' /\ (entry = "whole" => entry' = "whole")
  OBVIOUS
<1>1. CASE UNCHANGED vars
  BY <1>1, SafeNext DEF vars, ExactInv, SingleComputation
<1>2. ASSUME NEW p \in Processes, Crash(p) PROVE ExactInv' /\ (entry = "whole" => entry' = "whole")
  <2>1. SafeInv'
    BY <1>2, SafeCrash DEF ExactInv
  <2>. QED  BY <1>2, <2>1 DEF Crash, ExactInv, SingleComputation, StoreSteps
<1>. QED  BY <1>1, <1>2, ExactStep DEF Next, Finished

\* In a process of its own, for any number of threads and crashes, at most one
\* thread computes and stores the result, and everybody else returns it.
THEOREM OneComputation == ASSUME Alone PROVE Spec => []SingleComputation
<1>1. ExactInv => SingleComputation
  BY DEF ExactInv
<1>. QED  BY <1>1, ExactInit, ExactNext, PTL DEF Spec

\* There the entry is in place when its mode is set: only a chmod that fails for
\* a reason of its own keeps a stored result from being returned.
THEOREM StoredIsReturned == ASSUME Alone PROVE Spec => []StoredResultIsReturned
<1>1. ExactInv => StoredResultIsReturned
  BY DEF ExactInv, StoredResultIsReturned
<1>. QED  BY <1>1, ExactInit, ExactNext, PTL DEF Spec

\* There a valid entry is never taken away.
THEOREM EntryStays == ASSUME Alone PROVE Spec => WholeEntryStays
  BY ExactInit, ExactNext, PTL DEF Spec, WholeEntryStays
===============================================================================
