--------------------------- MODULE HttpServerProofs ---------------------------
(***************************************************************************)
(* Proofs about HttpServer for any POSTs, GETs, body lengths and pool.     *)
(***************************************************************************)
EXTENDS HttpServer, TLAPS

\* jobs holds the accepted workers whose callback has not run.
JobsInv == jobs = {p \in Posts : worker[p] \in {"queued", "running", "done"}}

\* A POST has a worker only after its body, and a coroutine awaits a worker.
PhaseInv ==
    \A r \in Requests :
        /\ request[r] \in {"new", "reading"} => worker[r] = "none"
        /\ request[r] = "reading" \/ worker[r] = "done" => r \in Posts

\* A stopped server has nothing left that could start or finish a job.
StoppedInv == server = "stopped" => NoCoroutines /\ jobs = {}

IInv == TypeOK /\ OnePostAtATime /\ BusyMeansHeld /\ JobsInv /\ PhaseInv /\ StoppedInv
-------------------------------------------------------------------------------
LEMMA InitIInv == Init => IInv
<1> SUFFICES ASSUME Init PROVE IInv
  OBVIOUS
<1>1. \A r \in Requests : request[r] = "new" /\ worker[r] = "none"
  BY DEF Init
<1>2. TypeOK
  BY DEF Init, TypeOK
<1>3. OnePostAtATime /\ BusyMeansHeld
  BY <1>1 DEF Init, OnePostAtATime, BusyMeansHeld, Holds, Requests
<1>4. JobsInv /\ PhaseInv /\ StoppedInv
  BY <1>1 DEF Init, JobsInv, PhaseInv, StoppedInv, Requests
<1>. QED  BY <1>2, <1>3, <1>4 DEF IInv

\* Steps that leave the slot, the jobs and every POST's worker as they are.
LEMMA OutsideIInv ==
  ASSUME IInv, NEW r \in Requests, Refuse(r) \/ AcceptGet(r) \/ RejectBusy(r) \/ Answer(r)
  PROVE  IInv'
<1> USE HttpServerAssumption DEF IInv, TypeOK, Goto, Requests
<1>1. busy' = busy /\ jobs' = jobs /\ received' = received /\ server' = server
  BY DEF Refuse, AcceptGet, RejectBusy, Answer
<1>2. PICK from \in {"new", "awaiting"}, to \in {"awaiting", "answered"} :
         request[r] = from /\ request' = [request EXCEPT ![r] = to]
  BY DEF Refuse, AcceptGet, RejectBusy, Answer
<1>3. worker' = worker \/ (r \in Gets /\ worker' = [worker EXCEPT ![r] = "queued"])
  BY DEF Refuse, AcceptGet, RejectBusy, Answer
<1>4. \A p \in Posts : worker'[p] = worker[p] /\ (request'[p] = "reading" <=> request[p] = "reading")
  BY <1>2, <1>3
<1>5. TypeOK'
  BY <1>1, <1>2, <1>3
<1>6. OnePostAtATime' /\ BusyMeansHeld' /\ JobsInv'
  BY <1>1, <1>4 DEF OnePostAtATime, BusyMeansHeld, JobsInv, Holds
<1>7. PhaseInv'
  BY <1>2, <1>3 DEF PhaseInv
<1>8. StoppedInv'
  BY <1>1, <1>2 DEF StoppedInv, NoCoroutines, Refuse, AcceptGet, RejectBusy, Answer
<1>. QED  BY <1>5, <1>6, <1>7, <1>8

\* The slot is taken by, moves on with, or is given back by one POST.
LEMMA SlotIInv ==
  ASSUME IInv, NEW p \in Posts,
         Admit(p) \/ Read(p) \/ GiveUpBody(p) \/ StartJob(p) \/ Finished(p)
  PROVE  IInv'
<1> USE HttpServerAssumption DEF IInv, TypeOK, Goto, Requests
<1>1. CASE Admit(p)
  BY <1>1 DEF Admit, OnePostAtATime, BusyMeansHeld, JobsInv, PhaseInv, StoppedInv, NoCoroutines, Holds
<1>2. CASE Read(p)
  BY <1>2 DEF Read, ReadChunk, OnePostAtATime, BusyMeansHeld, JobsInv, PhaseInv, StoppedInv, NoCoroutines, Holds
<1>3. CASE GiveUpBody(p)
  BY <1>3 DEF GiveUpBody, OnePostAtATime, BusyMeansHeld, JobsInv, PhaseInv, StoppedInv, NoCoroutines, Holds
<1>4. CASE StartJob(p)
  <2>1. Holds(p) /\ worker[p] = "none" /\ server # "stopped" /\ busy' = busy /\ server' = server
    BY <1>4 DEF StartJob, Holds, PhaseInv, StoppedInv, NoCoroutines
  <2>2. \A q \in Posts : /\ request'[q] = IF q = p THEN "awaiting" ELSE request[q]
                         /\ worker'[q] = IF q = p THEN "queued" ELSE worker[q]
    BY <1>4 DEF StartJob
  <2>3. \A q \in Posts : Holds(q)' <=> Holds(q)
    BY <2>1, <2>2 DEF Holds
  <2>4. TypeOK' /\ PhaseInv'
    BY <1>4 DEF StartJob, PhaseInv
  <2>5. JobsInv'
    BY <1>4, <2>2 DEF StartJob, JobsInv
  <2>. QED  BY <2>1, <2>3, <2>4, <2>5 DEF OnePostAtATime, BusyMeansHeld, StoppedInv
<1>5. CASE Finished(p)
  <2>1. Holds(p) /\ request[p] # "reading"
    BY <1>5 DEF Finished, Holds, PhaseInv
  <2>2. \A q \in Posts : worker'[q] = IF q = p THEN "over" ELSE worker[q]
    BY <1>5 DEF Finished
  <2>3. \A q \in Posts : ~Holds(q)'
    BY <1>5, <2>1, <2>2 DEF Finished, Holds, OnePostAtATime
  <2>4. TypeOK' /\ PhaseInv'
    BY <1>5 DEF Finished, PhaseInv
  <2>5. JobsInv'
    BY <1>5, <2>2 DEF Finished, JobsInv
  <2>6. StoppedInv'
    BY <1>5 DEF Finished, StoppedInv, NoCoroutines
  <2>. QED  BY <1>5, <2>3, <2>4, <2>5, <2>6 DEF Finished, OnePostAtATime, BusyMeansHeld
<1>. QED  BY <1>1, <1>2, <1>3, <1>4, <1>5

LEMMA WorkerIInv ==
  ASSUME IInv, NEW r \in Requests, Perform(r) \/ Complete(r)
  PROVE  IInv'
<1> USE HttpServerAssumption DEF IInv, TypeOK, Requests
<1>1. PICK to \in {"running", "done", "over"} : worker' = [worker EXCEPT ![r] = to]
  BY DEF Perform, Complete
<1>2. UNCHANGED <<busy, request, received, jobs, server>> /\ worker[r] \in {"queued", "running"}
  BY DEF Perform, Complete
<1>3. r \in Posts => to # "over"
  BY <1>1, <1>2 DEF Perform, Complete, JobsInv
<1>4. \A p \in Posts : worker[p] \in {"queued", "running", "done"}
                       <=> worker'[p] \in {"queued", "running", "done"}
  BY <1>1, <1>2, <1>3
<1>5. TypeOK' /\ StoppedInv'
  BY <1>1, <1>2 DEF StoppedInv, NoCoroutines
<1>6. PhaseInv'
  <2>1. to = "done" => r \in Posts
    BY <1>1, <1>2 DEF Perform, Complete
  <2>2. \A q \in Requests : worker'[q] = IF q = r THEN to ELSE worker[q]
    BY <1>1
  <2>. QED  BY <1>2, <2>1, <2>2 DEF PhaseInv
<1>7. OnePostAtATime' /\ BusyMeansHeld' /\ JobsInv'
  BY <1>2, <1>4 DEF OnePostAtATime, BusyMeansHeld, JobsInv, Holds
<1>. QED  BY <1>5, <1>6, <1>7

LEMMA CancelIInv ==
  ASSUME IInv, NEW r \in Requests, Cancel(r)
  PROVE  IInv'
<1> USE HttpServerAssumption DEF IInv, TypeOK, Requests, Cancel
<1>1. \A p \in Posts : worker'[p] = worker[p]
  BY DEF Cancel
<1>2. \A p \in Posts : Holds(p)' <=> Holds(p) /\ ~(p = r /\ request[r] = "reading")
  BY <1>1 DEF Holds, PhaseInv
<1>3. TypeOK' /\ PhaseInv' /\ JobsInv' /\ StoppedInv'
  BY <1>1 DEF PhaseInv, JobsInv, StoppedInv, NoCoroutines
<1>4. OnePostAtATime'
  BY <1>2 DEF OnePostAtATime
<1>5. BusyMeansHeld'
  <2>1. CASE request[r] = "reading"
    <3>1. r \in Posts /\ Holds(r)
      BY <2>1 DEF PhaseInv, Holds
    <3>. QED  BY <1>2, <2>1, <3>1 DEF OnePostAtATime, BusyMeansHeld
  <2>2. CASE request[r] # "reading"
    BY <1>2, <2>2 DEF BusyMeansHeld
  <2>. QED  BY <2>1, <2>2
<1>. QED  BY <1>3, <1>4, <1>5

LEMMA ServerIInv ==
  ASSUME IInv, Drain \/ Stop
  PROVE  IInv'
BY DEF IInv, TypeOK, OnePostAtATime, BusyMeansHeld, JobsInv, PhaseInv, StoppedInv, NoCoroutines, Holds, Drain, Stop

LEMMA NextIInv == IInv /\ [Next]_vars => IInv'
<1> SUFFICES ASSUME IInv, [Next]_vars PROVE IInv'
  OBVIOUS
<1>1. CASE UNCHANGED vars
  BY <1>1 DEF vars, IInv, TypeOK, OnePostAtATime, BusyMeansHeld, JobsInv, PhaseInv, StoppedInv, NoCoroutines, Holds
<1>2. ASSUME NEW r \in Requests,
             Refuse(r) \/ AcceptGet(r) \/ RejectBusy(r) \/ Answer(r)
             \/ Cancel(r) \/ Perform(r) \/ Complete(r)
      PROVE  IInv'
  BY <1>2, OutsideIInv, CancelIInv, WorkerIInv
<1>3. ASSUME NEW r \in Requests, Admit(r) \/ Finished(r) PROVE IInv'
  <2>1. r \in Posts
    BY <1>3 DEF Admit, Finished, IInv, PhaseInv
  <2>. QED  BY <1>3, <2>1, SlotIInv
<1>4. ASSUME NEW p \in Posts, Read(p) \/ GiveUpBody(p) \/ StartJob(p) PROVE IInv'
  BY <1>4, SlotIInv
<1>. QED  BY <1>1, <1>2, <1>3, <1>4, ServerIInv DEF Next
-------------------------------------------------------------------------------
THEOREM Invariance == Spec => []IInv
BY InitIInv, NextIInv, PTL DEF Spec

\* At most one POST holds the slot, the running job of a departed client
\* included.
THEOREM Admission == Spec => []OnePostAtATime
<1>1. IInv => OnePostAtATime
  BY DEF IInv
<1>. QED  BY <1>1, Invariance, PTL

\* The busy flag is neither leaked nor stolen.
THEOREM FlagExact == Spec => []BusyMeansHeld
<1>1. IInv => BusyMeansHeld
  BY DEF IInv
<1>. QED  BY <1>1, Invariance, PTL

\* Nothing that was accepted runs on after the server has stopped.
THEOREM Drained == Spec => []StoppedIsQuiet
<1>1. IInv => StoppedIsQuiet
  BY DEF IInv, StoppedInv, StoppedIsQuiet, NoCoroutines, JobsInv, Holds, Requests
<1>. QED  BY <1>1, Invariance, PTL
===============================================================================
