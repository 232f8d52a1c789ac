-------------------------------- MODULE Machine --------------------------------
(***************************************************************************)
(* Machine.analyse (rdam/machine.py): every requested technique is a job   *)
(* of a thread pool owned by the call; jobs of concurrent calls meet at    *)
(* the result cache (one single_flight per key) and at the locks of the    *)
(* providers that declare themselves "serialized".  The main thread        *)
(* collects outcomes as they complete; an exception that is not a typed    *)
(* provider failure cancels what has not started, waits for what has, and  *)
(* propagates.                                                             *)
(*                                                                         *)
(* The cache is used through what ResultCacheEntry.tla shows of it: within *)
(* a process load and store are atomic under the key's flight.             *)
(***************************************************************************)
EXTENDS Naturals, Sequences, FiniteSets

CONSTANTS
    Calls,        \* concurrent calls of analyse, on machines sharing providers
    Requested,    \* request.techniques of each call, in order
    Source,       \* the source each call is about
    MaxWorkers,   \* ExecutionPolicy.max_workers of each call's machine
    Unavailable,  \* techniques answered without calling a provider
    Serialized,   \* techniques whose provider declares parallel_safety "serialized"
    Cached,       \* techniques whose results may be cached
    NoJob

Techniques == UNION {{Requested[c][i] : i \in DOMAIN Requested[c]} : c \in Calls}

\* Job <<c, i>> is the future for the i-th technique of call c.
JobsOf(c) == {<<c, i>> : i \in DOMAIN Requested[c]}
Jobs == UNION {JobsOf(c) : c \in Calls}
Technique(j) == Requested[j[1]][j[2]]

\* _cache_key: the source and the technique stand for all that is hashed.
Key(j) == <<Source[j[1]], Technique(j)>>
Keys == {Key(j) : j \in Jobs}

ASSUME MachineAssumption ==
    /\ MaxWorkers \in [Calls -> Nat \ {0}]
    /\ \A c \in Calls : Len(Requested[c]) \in Nat \ {0} /\ DOMAIN Requested[c] = 1..Len(Requested[c])
    /\ \A c \in Calls : \A i, j \in DOMAIN Requested[c] : Requested[c][i] = Requested[c][j] => i = j
    /\ NoJob \notin Jobs

VARIABLES
    caller,     \* where the main thread of each call is
    job,        \* the state of each future and of the worker that runs it
    collected,  \* requested_outcomes of each call, by job
    cursor,     \* the cancelling loop's position
    flight,     \* the job inside single_flight, per cache key
    provider,   \* the job holding the lock of a serialized provider
    entry       \* keys with a valid cache entry

vars == <<caller, job, collected, cursor, flight, provider, entry>>

\* A worker is about to enter the flight, to load, to take the provider's
\* lock, is inside provider.analyse, or is about to store.
Running  == {"flight", "loading", "provider", "calling", "storing"}
Outcomes == {"result", "failed", "unavailable"}
\* An exception kept in the future: a provider's bug, or a cache I/O error.
Errors   == {"bug", "storeerror"}
Done     == Outcomes \cup Errors

Init ==
    /\ caller = [c \in Calls |-> "idle"]
    /\ job = [j \in Jobs |-> "new"]
    /\ collected = [c \in Calls |-> {}]
    /\ cursor = [c \in Calls |-> 1]
    /\ flight = [k \in Keys |-> NoJob]
    /\ provider = [x \in Techniques |-> NoJob]
    /\ entry \in SUBSET Keys
-------------------------------------------------------------------------------
(* The main thread of a call *)

\* _prepare succeeds and all futures are submitted.
Submit(c) ==
    /\ caller[c] = "idle"
    /\ caller' = [caller EXCEPT ![c] = "collecting"]
    /\ job' = [j \in Jobs |-> IF j \in JobsOf(c) THEN "pending" ELSE job[j]]
    /\ UNCHANGED <<collected, cursor, flight, provider, entry>>

\* _prepare raises a typed preparation error; no provider is involved.
Reject(c) ==
    /\ caller[c] = "idle"
    /\ caller' = [caller EXCEPT ![c] = "rejected"]
    /\ UNCHANGED <<job, collected, cursor, flight, provider, entry>>

\* for future in as_completed(futures): requested_outcomes[...] = future.result()
Collect(j) ==
    /\ caller[j[1]] = "collecting"
    /\ j \notin collected[j[1]]
    /\ job[j] \in Outcomes
    /\ collected' = [collected EXCEPT ![j[1]] = @ \cup {j}]
    /\ UNCHANGED <<caller, job, cursor, flight, provider, entry>>

\* future.result() raises: on to the finally clause.
CollectError(j) ==
    /\ caller[j[1]] = "collecting"
    /\ job[j] \in Errors
    /\ caller' = [caller EXCEPT ![j[1]] = "cancelling"]
    /\ UNCHANGED <<job, collected, cursor, flight, provider, entry>>

\* for future in futures: future.cancel() - refused by one that has started.
CancelNext(c) ==
    /\ caller[c] = "cancelling"
    /\ cursor[c] \in DOMAIN Requested[c]
    /\ cursor' = [cursor EXCEPT ![c] = @ + 1]
    /\ job' = [job EXCEPT ![<<c, cursor[c]>>] = IF @ = "pending" THEN "cancelled" ELSE @]
    /\ UNCHANGED <<caller, collected, flight, provider, entry>>

\* Mutant: the executor is shut down without waiting for its workers.
Raise_WithoutWaiting(c) ==
    /\ caller[c] = "cancelling"
    /\ cursor[c] \notin DOMAIN Requested[c]
    /\ caller' = [caller EXCEPT ![c] = "raised"]
    /\ UNCHANGED <<job, collected, cursor, flight, provider, entry>>

\* executor.shutdown(wait=True, cancel_futures=True) returns once no worker
\* of the call runs; the exception propagates.
Raise(c) ==
    /\ caller[c] = "cancelling"
    /\ cursor[c] \notin DOMAIN Requested[c]
    /\ \A j \in JobsOf(c) : job[j] \notin Running
    /\ caller' = [caller EXCEPT ![c] = "raised"]
    /\ UNCHANGED <<job, collected, cursor, flight, provider, entry>>

\* Mutant: the aggregate is assembled from whatever has completed.
Return_WhenIdle(c) ==
    /\ caller[c] = "collecting"
    /\ \A j \in JobsOf(c) : job[j] \in Done
    /\ caller' = [caller EXCEPT ![c] = "returned"]
    /\ UNCHANGED <<job, collected, cursor, flight, provider, entry>>

\* Every future gave an outcome: shut down and assemble the aggregate.
Return(c) ==
    /\ caller[c] = "collecting"
    /\ collected[c] = JobsOf(c)
    /\ caller' = [caller EXCEPT ![c] = "returned"]
    /\ UNCHANGED <<job, collected, cursor, flight, provider, entry>>
-------------------------------------------------------------------------------
(* The workers: _analyse_one and _call_provider *)

Goto(j, from, to) == job[j] = from /\ job' = [job EXCEPT ![j] = to]

\* A worker takes the oldest future not yet started (the pool's queue is FIFO)
\* and finds out whether a provider, and the cache, are to be asked at all.
Start(j) ==
    /\ \A i \in 1..(j[2] - 1) : job[<<j[1], i>>] # "pending"
    /\ Cardinality({k \in JobsOf(j[1]) : job[k] \in Running}) < MaxWorkers[j[1]]
    /\ Goto(j, "pending", CASE Technique(j) \in Unavailable -> "unavailable"
                            [] Technique(j) \in Cached \ Unavailable -> "flight"
                            [] OTHER -> "provider")
    /\ UNCHANGED <<caller, collected, cursor, flight, provider, entry>>

\* Mutant: the key's flight is entered although another job is inside it.
EnterFlight_WithoutWaiting(j) ==
    /\ Goto(j, "flight", "loading")
    /\ flight' = [flight EXCEPT ![Key(j)] = j]
    /\ UNCHANGED <<caller, collected, cursor, provider, entry>>

\* with self._cache.single_flight(cache_key)
EnterFlight(j) ==
    /\ Goto(j, "flight", "loading")
    /\ flight[Key(j)] = NoJob
    /\ flight' = [flight EXCEPT ![Key(j)] = j]
    /\ UNCHANGED <<caller, collected, cursor, provider, entry>>

\* The job is over; a job that is inside its key's flight leaves it.
Finish(j, from, end) ==
    /\ Goto(j, from, end)
    /\ flight' = [k \in Keys |-> IF flight[k] = j THEN NoJob ELSE flight[k]]

\* self._cache.load(cache_key): a hit is the outcome.
LoadHit(j) ==
    /\ Key(j) \in entry
    /\ Finish(j, "loading", "result")
    /\ UNCHANGED <<caller, collected, cursor, provider, entry>>

LoadMiss(j) ==
    /\ Key(j) \notin entry
    /\ Goto(j, "loading", "provider")
    /\ UNCHANGED <<caller, collected, cursor, flight, provider, entry>>

\* Mutant: every machine has a provider lock of its own.
CallProvider_OwnLock(j) ==
    /\ Goto(j, "provider", "calling")
    /\ \A k \in JobsOf(j[1]) : Technique(k) = Technique(j) => job[k] # "calling"
    /\ provider' = [provider EXCEPT ![Technique(j)] = j]
    /\ UNCHANGED <<caller, collected, cursor, flight, entry>>

\* with lock if lock is not None else nullcontext(): provider.analyse(...)
CallProvider(j) ==
    /\ Goto(j, "provider", "calling")
    /\ \/ /\ Technique(j) \in Serialized
          /\ provider[Technique(j)] = NoJob
          /\ provider' = [provider EXCEPT ![Technique(j)] = j]
       \/ /\ Technique(j) \notin Serialized
          /\ UNCHANGED provider
    /\ UNCHANGED <<caller, collected, cursor, flight, entry>>

FreeProvider(j) == [x \in Techniques |-> IF provider[x] = j THEN NoJob ELSE provider[x]]

\* The provider returns a result that keeps its declaration.
ProviderResult(j) ==
    /\ provider' = FreeProvider(j)
    /\ IF Technique(j) \in Cached
       THEN Goto(j, "calling", "storing") /\ UNCHANGED flight
       ELSE Finish(j, "calling", "result")
    /\ UNCHANGED <<caller, collected, cursor, entry>>

\* Mutant: an exception leaves the provider's lock held.
ProviderFailure_KeepsLock(j) ==
    /\ \E end \in {"failed", "bug"} : Finish(j, "calling", end)
    /\ UNCHANGED <<caller, collected, cursor, provider, entry>>

\* ProviderError, or a result outside the declaration, is a FailedOutcome; any
\* other exception is a bug and ends the future with it.
ProviderFailure(j) ==
    /\ provider' = FreeProvider(j)
    /\ \E end \in {"failed", "bug"} : Finish(j, "calling", end)
    /\ UNCHANGED <<caller, collected, cursor, entry>>

\* self._cache.store(cache_key, outcome.result)
Store(j) ==
    /\ Finish(j, "storing", "result")
    /\ entry' = entry \cup {Key(j)}
    /\ UNCHANGED <<caller, collected, cursor, provider>>

\* store raises OSError (full disk, unwritable directory).
StoreError(j) ==
    /\ Finish(j, "storing", "storeerror")
    /\ UNCHANGED <<caller, collected, cursor, provider, entry>>
-------------------------------------------------------------------------------
Main(c) ==
    \/ CancelNext(c) \/ Raise(c) \/ Return(c)
    \/ \E j \in JobsOf(c) : Collect(j) \/ CollectError(j)

Work(j) ==
    \/ Start(j) \/ EnterFlight(j) \/ LoadHit(j) \/ LoadMiss(j)
    \/ CallProvider(j) \/ ProviderResult(j) \/ ProviderFailure(j)
    \/ Store(j) \/ StoreError(j)

\* Every call has come to its end.
Ended == {"returned", "raised", "rejected"}
Finished == (\A c \in Calls : caller[c] \in Ended) /\ UNCHANGED vars

Next ==
    \/ \E c \in Calls : Submit(c) \/ Reject(c) \/ Main(c)
    \/ \E j \in Jobs : Work(j)
    \/ Finished

Spec == Init /\ [][Next]_vars

\* The threads run, and provider calls end (the model boundary has its own
\* deadline, the local ones compute): while a step can be made, one is made.
\* Every behaviour is finite, so no stronger fairness is needed.
Progress == (\E c \in Calls : Main(c)) \/ (\E j \in Jobs : Work(j))

FairSpec == Spec /\ WF_vars(Progress)
--------------------------------------------------------------------------------
(* Properties *)

\* The type invariant.
TypeOK ==
    /\ caller \in [Calls -> {"idle", "collecting", "cancelling"} \cup Ended]
    /\ job \in [Jobs -> {"new", "pending", "cancelled"} \cup Running \cup Done]
    /\ collected \in [Calls -> SUBSET Jobs]
    /\ cursor \in [Calls -> Nat \ {0}]
    /\ flight \in [Keys -> Jobs \cup {NoJob}]
    /\ provider \in [Techniques -> Jobs \cup {NoJob}]
    /\ entry \in SUBSET Keys

\* A call that has returned or raised left nothing behind: none of its jobs
\* works any more, holds a cache flight or a provider's lock.
EndedCallsHoldNothing ==
    \A c \in Calls : caller[c] \in Ended => \A j \in JobsOf(c) :
        /\ job[j] \notin Running \cup {"pending"}
        /\ \A k \in Keys : flight[k] # j
        /\ \A x \in Techniques : provider[x] # j

\* No provider is asked for a result the cache already has, and never twice at
\* a time for the same one, by whichever calls want it.
NoRepeatedCall ==
    \A j \in Jobs : Technique(j) \in Cached /\ job[j] \in {"provider", "calling", "storing"} =>
        /\ Key(j) \notin entry
        /\ \A k \in Jobs \ {j} : Key(k) = Key(j) => job[k] \notin {"provider", "calling", "storing"}

\* Calls of a provider that declares itself serialized never overlap, whatever
\* calls, machines and cache keys they come from.
SerializedProviders ==
    \A j, k \in Jobs :
        /\ job[j] = "calling" /\ job[k] = "calling"
        /\ Technique(j) = Technique(k) /\ Technique(j) \in Serialized
        => j = k

\* "A failure in one technique never hides a result in another" (README.md:59):
\* a call is given up only for a bug of a provider, never for a failure that
\* concerns one technique alone.
OnlyBugsHideResults ==
    \A c \in Calls : caller[c] = "raised" => \E j \in JobsOf(c) : job[j] = "bug"

\* The two kinds of lock a job may need at a time never leave calls waiting for
\* each other, nor does a failed, raising or cancelled job leave one locked:
\* every call that is made ends.
EveryCallEnds == \A c \in Calls : caller[c] = "collecting" ~> caller[c] \in {"returned", "raised"}

\* Outcomes are never revised, an aggregate is returned only when complete.
Contract == INSTANCE AggregateContract WITH
    Wanted <- [c \in Calls |-> JobsOf(c)],
    decided <- collected,
    ended <- [c \in Calls |-> IF caller[c] \in {"returned", "raised"} THEN caller[c] ELSE "open"]
ImplementsContract == Contract!Spec
================================================================================
