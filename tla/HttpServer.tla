------------------------------ MODULE HttpServer ------------------------------
(***************************************************************************)
(* The loopback HTTP adapter (create_app in rdam/http.py): one POST is     *)
(* admitted at a time, from before its body is read until the thread that  *)
(* performs it is over; GETs are answered next to it; shutting down drains *)
(* the jobs that were accepted.                                            *)
(*                                                                         *)
(* Everything except the operations themselves runs on one event loop, so  *)
(* an action is what happens between two awaits.  The ASGI server (uvicorn)*)
(* and asyncio are modelled from how this code uses them.                  *)
(***************************************************************************)
EXTENDS Naturals, FiniteSets

CONSTANTS
    Posts, Gets,     \* requests, by the method of their route
    WellFormed,      \* requests that pass the checks of host, route, query and headers
    Declared,        \* Content-Length of each POST, at most max_request_bytes
    MaxChunk,        \* bound: bytes per chunk of a body
    PoolSize         \* threads of the event loop's default executor

Requests == Posts \cup Gets

ASSUME HttpServerAssumption ==
    /\ Posts \cap Gets = {}
    /\ WellFormed \subseteq Requests
    /\ Declared \in [Posts -> Nat]
    /\ MaxChunk \in Nat \ {0}
    /\ PoolSize \in Nat \ {0}

VARIABLES
    busy,       \* the admission flag
    request,    \* where the endpoint coroutine of each request is
    received,   \* len(body) of each POST
    worker,     \* asyncio.to_thread of each request
    jobs,       \* accepted POST workers not yet finished
    server      \* "serving", "draining" (no new requests), "stopped"

vars == <<busy, request, received, worker, jobs, server>>

Init ==
    /\ busy = FALSE
    /\ request = [r \in Requests |-> "new"]
    /\ received = [p \in Posts |-> 0]
    /\ worker = [r \in Requests |-> "none"]
    /\ jobs = {}
    /\ server = "serving"

Goto(r, from, to) == request[r] = from /\ request' = [request EXCEPT ![r] = to]
-------------------------------------------------------------------------------
(* The endpoint coroutine *)

\* A request that fails a check of its headers is answered at once.
Refuse(r) ==
    /\ server = "serving"
    /\ r \notin WellFormed
    /\ Goto(r, "new", "answered")
    /\ UNCHANGED <<busy, received, worker, jobs, server>>

\* Mutant: GETs are refused admission like POSTs while the server is busy.
AcceptGet_UnlessBusy(r) ==
    /\ server = "serving" /\ ~busy
    /\ r \in Gets \cap WellFormed
    /\ Goto(r, "new", "awaiting")
    /\ worker' = [worker EXCEPT ![r] = "queued"]
    /\ UNCHANGED <<busy, received, jobs, server>>

\* return await asyncio.to_thread(...): a GET does not look at busy.
AcceptGet(r) ==
    /\ server = "serving"
    /\ r \in Gets \cap WellFormed
    /\ Goto(r, "new", "awaiting")
    /\ worker' = [worker EXCEPT ![r] = "queued"]
    /\ UNCHANGED <<busy, received, jobs, server>>

\* if busy: return _reject(operation, 503, "busy")
RejectBusy(r) ==
    /\ server = "serving"
    /\ r \in Posts \cap WellFormed
    /\ busy
    /\ Goto(r, "new", "answered")
    /\ UNCHANGED <<busy, received, worker, jobs, server>>

\* busy = True, before the body is read.
Admit(r) ==
    /\ server = "serving"
    /\ r \in Posts \cap WellFormed
    /\ ~busy
    /\ busy' = TRUE
    /\ Goto(r, "new", "reading")
    /\ UNCHANGED <<received, worker, jobs, server>>

\* async for chunk in request.stream(): body.extend(chunk)
ReadChunk(r, n) ==
    /\ request[r] = "reading"
    /\ received[r] + n <= Declared[r]
    /\ received' = [received EXCEPT ![r] = @ + n]
    /\ UNCHANGED <<busy, request, worker, jobs, server>>

\* Mutant: an answer from within the body loop leaves the flag set.
GiveUpBody_StaysBusy(r) ==
    /\ Goto(r, "reading", "answered")
    /\ UNCHANGED <<busy, received, worker, jobs, server>>

\* The body is longer or shorter than declared, the total deadline passes, or
\* the client disconnects: answered, and the finally clause clears the flag.
GiveUpBody(r) ==
    /\ Goto(r, "reading", "answered")
    /\ busy' = FALSE
    /\ UNCHANGED <<received, worker, jobs, server>>

\* The body is complete: worker = create_task(to_thread(...)), and the
\* coroutine awaits it behind a shield.
StartJob(r) ==
    /\ received[r] = Declared[r]
    /\ Goto(r, "reading", "awaiting")
    /\ worker' = [worker EXCEPT ![r] = "queued"]
    /\ jobs' = jobs \cup {r}
    /\ UNCHANGED <<busy, received, server>>

\* The awaited worker is over: its response is sent, or dropped when the
\* client has gone.
Answer(r) ==
    /\ worker[r] = "over"
    /\ Goto(r, "awaiting", "answered")
    /\ UNCHANGED <<busy, received, worker, jobs, server>>

\* Mutant: the worker is awaited without a shield; cancelling the coroutine
\* cancels the task, though not the thread that already runs.
Cancel_Unshielded(r) ==
    /\ request' = [request EXCEPT ![r] = "gone"]
    /\ request[r] \in {"reading", "awaiting"}
    /\ worker[r] # "over"
    /\ IF r \in Posts THEN busy' = FALSE /\ jobs' = jobs \ {r} ELSE UNCHANGED <<busy, jobs>>
    /\ worker' = [worker EXCEPT ![r] = IF @ = "queued" THEN "over" ELSE @]
    /\ UNCHANGED <<received, server>>

\* The ASGI server cancels the coroutine (its client left, or a shutdown has
\* taken too long).  A POST's job is shielded; the thread call of a GET is
\* cancelled with it unless a thread already runs it.
Cancel(r) ==
    /\ request[r] \in {"reading", "awaiting"}
    /\ worker[r] # "over"
    /\ request' = [request EXCEPT ![r] = "gone"]
    /\ busy' = (busy /\ request[r] # "reading")
    /\ worker' = [worker EXCEPT ![r] = IF r \in Gets /\ @ = "queued" THEN "over" ELSE @]
    /\ UNCHANGED <<received, jobs, server>>
-------------------------------------------------------------------------------
(* The threads, and what the loop does when one is over *)

Performing == {r \in Requests : worker[r] = "running"}

\* A thread of the executor takes the call: _safe_perform, _perform.
Perform(r) ==
    /\ worker[r] = "queued"
    /\ Cardinality(Performing) < PoolSize
    /\ worker' = [worker EXCEPT ![r] = "running"]
    /\ UNCHANGED <<busy, request, received, jobs, server>>

\* The call ends, with the operation's response or that of its failure; a
\* job's task still has to run its callbacks.
Complete(r) ==
    /\ worker[r] = "running"
    /\ worker' = [worker EXCEPT ![r] = IF r \in jobs THEN "done" ELSE "over"]
    /\ UNCHANGED <<busy, request, received, jobs, server>>

\* Mutant: the callback forgets the job but not the flag.
Finished_StaysBusy(r) ==
    /\ worker[r] = "done"
    /\ worker' = [worker EXCEPT ![r] = "over"]
    /\ jobs' = jobs \ {r}
    /\ UNCHANGED <<busy, request, received, server>>

\* finished(task): the first callback of the task, before the one that wakes
\* the shielded coroutine.
Finished(r) ==
    /\ worker[r] = "done"
    /\ worker' = [worker EXCEPT ![r] = "over"]
    /\ jobs' = jobs \ {r}
    /\ busy' = FALSE
    /\ UNCHANGED <<request, received, server>>
-------------------------------------------------------------------------------
(* Shutting down *)

\* An interrupt: uvicorn accepts nothing more.
Drain ==
    /\ server = "serving"
    /\ server' = "draining"
    /\ UNCHANGED <<busy, request, received, worker, jobs>>

NoCoroutines == \A r \in Requests : request[r] \notin {"reading", "awaiting"}

\* Mutant: the lifespan ends without gathering the jobs.
Stop_WithoutGather ==
    /\ server = "draining"
    /\ NoCoroutines
    /\ server' = "stopped"
    /\ UNCHANGED <<busy, request, received, worker, jobs>>

\* No coroutine is left, and the lifespan has gathered the jobs.
Stop ==
    /\ server = "draining"
    /\ NoCoroutines
    /\ jobs = {}
    /\ server' = "stopped"
    /\ UNCHANGED <<busy, request, received, worker, jobs>>
-------------------------------------------------------------------------------
Read(r) == \E n \in 1..MaxChunk : ReadChunk(r, n)

Next ==
    \/ \E r \in Requests :
          \/ Refuse(r) \/ AcceptGet(r) \/ RejectBusy(r) \/ Admit(r)
          \/ Answer(r) \/ Cancel(r) \/ Perform(r) \/ Complete(r) \/ Finished(r)
    \/ \E p \in Posts : Read(p) \/ GiveUpBody(p) \/ StartJob(p)
    \/ Drain \/ Stop
    \/ server = "stopped" /\ UNCHANGED vars

Spec == Init /\ [][Next]_vars

\* What has arrived is handled, a body ends or its deadline passes, the loop
\* runs its callbacks, and threads run; nothing is assumed of the operation of
\* a POST, nor of anybody cancelling or interrupting.
LoopFairness ==
    /\ \A r \in Requests : WF_vars(Refuse(r) \/ AcceptGet(r) \/ RejectBusy(r) \/ Admit(r))
    /\ \A r \in Requests : WF_vars(Answer(r)) /\ WF_vars(Finished(r))
    /\ \A p \in Posts : WF_vars(GiveUpBody(p) \/ StartJob(p))
    /\ \A r \in Requests : SF_vars(Perform(r))
    /\ \A g \in Gets : WF_vars(Complete(g))

FairSpec == Spec /\ LoopFairness
-------------------------------------------------------------------------------
(* Properties *)

\* The type invariant.
TypeOK ==
    /\ busy \in BOOLEAN
    /\ request \in [Requests -> {"new", "reading", "awaiting", "answered", "gone"}]
    /\ received \in [Posts -> Nat]
    /\ worker \in [Requests -> {"none", "queued", "running", "done", "over"}]
    /\ jobs \in SUBSET Posts
    /\ server \in {"serving", "draining", "stopped"}

\* The admitted POST: its body is being read, or its thread is not over, even
\* if nobody waits for the response any more.
Holds(p) == request[p] = "reading" \/ worker[p] \in {"queued", "running", "done"}

\* "One POST is admitted at a time" (docs/production-api-contract.md:215), and
\* "its slot remains held" when the client of a running one has gone.
OnePostAtATime == \A p, q \in Posts : Holds(p) /\ Holds(q) => p = q

\* The flag is set exactly while somebody holds the slot: no path of the
\* endpoint, its cancellation or the callback leaks or steals the admission.
BusyMeansHeld == busy <=> \E p \in Posts : Holds(p)

\* "shutdown drains accepted work": nothing of it runs once the server stopped.
StoppedIsQuiet == server = "stopped" => \A p \in Posts : ~Holds(p)

\* "discovery stays responsive": a GET that arrived is answered or cancelled,
\* or the server is shut down first, even if no POST ever ends.
GetsAnswered ==
    \A g \in Gets \cap WellFormed :
        request[g] = "new" ~> request[g] \in {"answered", "gone"} \/ server # "serving"

\* The slot never stays taken, except by an operation that runs without end.
SlotComesBack == busy ~> ~busy \/ \E p \in Posts : worker[p] = "running"
===============================================================================
