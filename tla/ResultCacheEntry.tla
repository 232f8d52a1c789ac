--------------------------- MODULE ResultCacheEntry ---------------------------
(***************************************************************************)
(* The life of one entry file of the native result cache: ResultCache.load *)
(* and ResultCache.store (rdam/_result_cache.py) as Machine._analyse_one   *)
(* (rdam/machine.py) calls them inside single_flight.  Several processes   *)
(* may share the cache directory; single_flight excludes only threads of   *)
(* one process (SingleFlight.tla implements the mutex assumed here).       *)
(***************************************************************************)
EXTENDS Naturals, FiniteSets

CONSTANTS
    Threads,     \* threads that will analyse the request whose key names the entry
    Processes,
    ProcessOf,   \* the process each thread runs in
    NoThread,
    InitialEntries, \* what earlier runs may have left at the path
    Failing,     \* file operations that may fail for reasons of their own
    MaxCrashes   \* bound: process crashes in a behaviour

ASSUME ResultCacheEntryAssumption ==
    /\ ProcessOf \in [Threads -> Processes]
    /\ NoThread \notin Threads
    /\ InitialEntries \subseteq {"absent", "whole", "damaged", "historical"}
    /\ Failing \subseteq {"read", "unlink", "create", "write", "replace", "chmod"}
    /\ MaxCrashes \in Nat

VARIABLES
    entry,    \* what the path <directory>/<key>.json holds
    flight,   \* per process, the thread inside single_flight(key)
    pc,       \* where each thread is
    temp,     \* each thread's own temporary file
    orphans,  \* how many temporary files stores that a crash cut off have left
    crashes

vars == <<entry, flight, pc, temp, orphans, crashes>>

\* "whole" passes the loader and the contract validation; "damaged" fails one
\* of them; "historical" loads as a HistoricalNativeTechniqueResult; "partial"
\* is a prefix of a record, which no completed store can leave.
Contents == {"absent", "whole", "damaged", "historical", "partial"}

LoadSteps  == {"checking", "reading", "discarding"}
StoreSteps == {"creating", "writing", "replacing", "securing", "undoing"}
\* "hit", "computed", "failed" and "raised" end _analyse_one for this thread:
\* a cached result, a fresh result, a FailedOutcome, an escaping exception;
\* "littered" is the exception of a store that could not remove its own file.
Ends == {"hit", "computed", "failed", "raised", "littered"}
PCs == {"idle", "calling"} \cup LoadSteps \cup StoreSteps \cup Ends

Init ==
    /\ entry \in InitialEntries
    /\ flight = [p \in Processes |-> NoThread]
    /\ pc = [t \in Threads |-> "idle"]
    /\ temp = [t \in Threads |-> "absent"]
    /\ orphans = 0
    /\ crashes = 0

Goto(t, from, to) == pc[t] = from /\ pc' = [pc EXCEPT ![t] = to]

\* The body of single_flight is left with the given end.
LeaveWith(t, from, end) ==
    /\ Goto(t, from, end)
    /\ flight' = [flight EXCEPT ![ProcessOf[t]] = NoThread]

\* Mutant: the entry is looked up before the flight is entered, not after.
Enter_WithoutRecheck(t) ==
    /\ flight[ProcessOf[t]] = NoThread
    /\ flight' = [flight EXCEPT ![ProcessOf[t]] = t]
    /\ Goto(t, "idle", "calling")
    /\ UNCHANGED <<entry, temp, orphans, crashes>>

\* Mutant: the flights of one process do not exclude each other.
Enter_WithoutWaiting(t) ==
    /\ flight' = [flight EXCEPT ![ProcessOf[t]] = t]
    /\ Goto(t, "idle", "checking")
    /\ UNCHANGED <<entry, temp, orphans, crashes>>

\* with self._cache.single_flight(cache_key)
Enter(t) ==
    /\ flight[ProcessOf[t]] = NoThread
    /\ flight' = [flight EXCEPT ![ProcessOf[t]] = t]
    /\ Goto(t, "idle", "checking")
    /\ UNCHANGED <<entry, temp, orphans, crashes>>
-------------------------------------------------------------------------------
(* ResultCache.load *)

\* if not path.is_file(): return None
Check(t) ==
    /\ Goto(t, "checking", IF entry = "absent" THEN "calling" ELSE "reading")
    /\ UNCHANGED <<entry, flight, temp, orphans, crashes>>

\* A whole record is a hit: _analyse_one returns it.
ReadHit(t) ==
    /\ entry = "whole"
    /\ LeaveWith(t, "reading", "hit")
    /\ UNCHANGED <<entry, temp, orphans, crashes>>

\* A historical record is a miss and stays where it is.
ReadHistorical(t) ==
    /\ entry = "historical"
    /\ Goto(t, "reading", "calling")
    /\ UNCHANGED <<entry, flight, temp, orphans, crashes>>

\* Anything else the try block raises on, a vanished or unreadable file
\* included, goes to _discard.
ReadInvalid(t) ==
    /\ entry \in {"absent", "damaged", "partial"} \/ "read" \in Failing
    /\ Goto(t, "reading", "discarding")
    /\ UNCHANGED <<entry, flight, temp, orphans, crashes>>

\* path.unlink(missing_ok=True); a failing unlink is reported and ignored.
Discard(t) ==
    /\ Goto(t, "discarding", "calling")
    /\ entry' \in {"absent"} \cup (IF "unlink" \in Failing THEN {entry} ELSE {})
    /\ UNCHANGED <<flight, temp, orphans, crashes>>
-------------------------------------------------------------------------------
(* _call_provider *)

\* The provider returns a result of its contract.
ProviderReturns(t) ==
    /\ Goto(t, "calling", "creating")
    /\ UNCHANGED <<entry, flight, temp, orphans, crashes>>

\* Mutant: an exception leaves the key's lock held.
ProviderFails_KeepsFlight(t) ==
    /\ \E end \in {"failed", "raised"} : Goto(t, "calling", end)
    /\ UNCHANGED <<entry, flight, temp, orphans, crashes>>

\* A typed failure is an outcome but is never stored; any other exception is a
\* bug and leaves _analyse_one.
ProviderFails(t) ==
    /\ \E end \in {"failed", "raised"} : LeaveWith(t, "calling", end)
    /\ UNCHANGED <<entry, temp, orphans, crashes>>
-------------------------------------------------------------------------------
(* ResultCache.store *)

\* mkdir, chmod and mkstemp: nothing to undo when they fail.
CreateTemp(t) ==
    /\ \/ /\ Goto(t, "creating", "writing")
          /\ temp' = [temp EXCEPT ![t] = "partial"]
          /\ UNCHANGED flight
       \/ /\ "create" \in Failing
          /\ LeaveWith(t, "creating", "raised")
          /\ UNCHANGED temp
    /\ UNCHANGED <<entry, orphans, crashes>>

\* Mutant: the record is written to the entry's own path.
WriteTemp_InPlace(t) ==
    /\ \/ Goto(t, "writing", "replacing") /\ temp' = [temp EXCEPT ![t] = "whole"]
       \/ "write" \in Failing /\ Goto(t, "writing", "undoing") /\ UNCHANGED temp
    /\ entry' = "partial"
    /\ UNCHANGED <<flight, orphans, crashes>>

\* fchmod, write, flush, fsync
WriteTemp(t) ==
    /\ \/ Goto(t, "writing", "replacing") /\ temp' = [temp EXCEPT ![t] = "whole"]
       \/ "write" \in Failing /\ Goto(t, "writing", "undoing") /\ UNCHANGED temp
    /\ UNCHANGED <<entry, flight, orphans, crashes>>

\* os.replace(temporary, path)
Replace(t) ==
    /\ \/ /\ Goto(t, "replacing", "securing")
          /\ entry' = temp[t]
          /\ temp' = [temp EXCEPT ![t] = "absent"]
       \/ "replace" \in Failing /\ Goto(t, "replacing", "undoing") /\ UNCHANGED <<entry, temp>>
    /\ UNCHANGED <<flight, orphans, crashes>>

\* Mutant: a failed store leaves its temporary file.
UndoTemp_KeepsFile(t) ==
    /\ LeaveWith(t, "undoing", "raised")
    /\ UNCHANGED <<entry, temp, orphans, crashes>>

\* finally: if not replaced: temporary.unlink(missing_ok=True), which may raise
\* in place of the exception under way.
UndoTemp(t) ==
    /\ \/ LeaveWith(t, "undoing", "raised") /\ temp' = [temp EXCEPT ![t] = "absent"]
       \/ "unlink" \in Failing /\ LeaveWith(t, "undoing", "littered") /\ UNCHANGED temp
    /\ UNCHANGED <<entry, orphans, crashes>>

\* self._path(key).chmod(0o600): raises when the file is gone again.
Secure(t) ==
    /\ \/ entry # "absent" /\ LeaveWith(t, "securing", "computed")
       \/ (entry = "absent" \/ "chmod" \in Failing) /\ LeaveWith(t, "securing", "raised")
    /\ UNCHANGED <<entry, temp, orphans, crashes>>
-------------------------------------------------------------------------------
\* The stores of p that are under way with a temporary file.
Storing(p) == {t \in Threads : ProcessOf[t] = p /\ temp[t] # "absent" /\ pc[t] \notin Ends}

\* A process dies: its threads and locks are gone, its temporary files stay.
\* The same requests may be made again by the process that is started next.
Crash(p) ==
    /\ crashes < MaxCrashes
    /\ crashes' = crashes + 1
    /\ flight' = [flight EXCEPT ![p] = NoThread]
    /\ pc' = [t \in Threads |-> IF ProcessOf[t] = p THEN "idle" ELSE pc[t]]
    /\ orphans' = orphans + Cardinality(Storing(p))
    /\ temp' = [t \in Threads |-> IF ProcessOf[t] = p THEN "absent" ELSE temp[t]]
    /\ UNCHANGED entry

Step(t) ==
    \/ Enter(t)
    \/ Check(t) \/ ReadHit(t) \/ ReadHistorical(t) \/ ReadInvalid(t) \/ Discard(t)
    \/ ProviderReturns(t) \/ ProviderFails(t)
    \/ CreateTemp(t) \/ WriteTemp(t) \/ Replace(t) \/ UndoTemp(t) \/ Secure(t)

\* Every thread has its outcome.
Finished == (\A t \in Threads : pc[t] \in Ends) /\ UNCHANGED vars

Next == (\E t \in Threads : Step(t)) \/ (\E p \in Processes : Crash(p)) \/ Finished

Spec == Init /\ [][Next]_vars

\* A running thread is scheduled, file operations return, and a provider call
\* ends (model boundaries run under their own deadline, see StructuredAnalyst).
FairSpec == Spec /\ \A t \in Threads : WF_vars(Step(t))
-------------------------------------------------------------------------------
(* Properties *)

\* The type invariant.
TypeOK ==
    /\ entry \in Contents
    /\ flight \in [Processes -> Threads \cup {NoThread}]
    /\ pc \in [Threads -> PCs]
    /\ temp \in [Threads -> {"absent", "partial", "whole"}]
    /\ orphans \in Nat
    /\ crashes \in 0..MaxCrashes

\* Whatever fails and whoever dies in the middle of a store, the entry is
\* never a prefix of a record: other processes read a whole record or none.
EntryNeverPartial == entry # "partial"

\* No store that ends, well or badly, leaves its temporary file, unless the
\* removal itself failed; and a crash, however many threads are inside the
\* cache at that moment, leaves at most one.
NoStrayTemp ==
    /\ \A t \in Threads : temp[t] # "absent" => pc[t] \in {"writing", "replacing", "undoing", "littered"}
    /\ orphans <= crashes

\* The threads of one process compute a result for the key at most once:
\* whoever enters the flight after a successful store finds it.
SingleComputation ==
    \A t, u \in Threads :
        /\ ProcessOf[t] = ProcessOf[u]
        /\ pc[t] \in StoreSteps \cup {"computed"}
        /\ pc[u] \in StoreSteps \cup {"computed"}
        => t = u

\* A valid entry is never taken away again.
WholeEntryStays == [][entry = "whole" => entry' = "whole"]_vars

\* After os.replace the entry is still there when its mode is set: what was
\* computed and stored is not lost to the caller because it has vanished (only
\* a chmod that fails for a reason of its own keeps it from being returned).
StoredResultIsReturned == \A t \in Threads : pc[t] = "securing" => entry # "absent"

\* Every thread gets its outcome or its exception: the flight of a thread that
\* failed, raised or died is never left closed.
EveryThreadEnds == \A t \in Threads : <>(pc[t] \in Ends)
===============================================================================
