----------------------------- MODULE MachineProofs -----------------------------
(***************************************************************************)
(* Proofs about Machine for every set of calls, every request, every pool  *)
(* size and every assignment of techniques to the cache and to locks.      *)
(***************************************************************************)
EXTENDS Machine, TLAPS

InFlight == {"loading", "provider", "calling", "storing"}
AtProvider == {"provider", "calling", "storing"}

\* The flight of a key belongs to the one cached job that is past its lock.
FlightInv ==
    /\ \A j \in Jobs : Technique(j) \in Cached /\ job[j] \in InFlight => flight[Key(j)] = j
    /\ \A j \in Jobs, k \in Keys :
          flight[k] = j => k = Key(j) /\ Technique(j) \in Cached /\ job[j] \in InFlight
    /\ \A j \in Jobs : job[j] \in {"flight", "loading", "storing"} => Technique(j) \in Cached

\* The lock of a serialized provider belongs to the one job that is calling it.
ProviderInv ==
    /\ \A j \in Jobs : Technique(j) \in Serialized /\ job[j] = "calling" => provider[Technique(j)] = j
    /\ \A j \in Jobs, x \in Techniques : provider[x] = j => x = Technique(j) /\ job[j] = "calling"

\* A job that has missed the cache still misses it.
MissInv == \A j \in Jobs : Technique(j) \in Cached /\ job[j] \in AtProvider => Key(j) \notin entry

\* A call's jobs exist once it has submitted them; what the cancelling loop has
\* passed no longer waits to start; an ended call has no job left to run.
CallerInv ==
    \A j \in Jobs :
        /\ caller[j[1]] \in {"idle", "rejected"} <=> job[j] = "new"
        /\ j[2] < cursor[j[1]] => job[j] # "pending"
        /\ caller[j[1]] \in Ended => job[j] \notin Running \cup {"pending"}
        /\ j \in collected[j[1]] => job[j] \in Outcomes

\* Collected outcomes are the call's own; nothing is cancelled before a failure,
\* and what a call fails for stays in the future that raised it.
CollectedInv ==
    \A c \in Calls :
        /\ collected[c] \subseteq JobsOf(c)
        /\ caller[c] = "idle" => cursor[c] = 1
        /\ caller[c] \in {"cancelling", "raised"} => \E j \in JobsOf(c) : job[j] \in Errors

IInv == TypeOK /\ FlightInv /\ ProviderInv /\ MissInv /\ CallerInv /\ CollectedInv
--------------------------------------------------------------------------------
LEMMA JobFacts ==
  ASSUME NEW j \in Jobs
  PROVE  /\ j = <<j[1], j[2]>>
         /\ j[1] \in Calls
         /\ j[2] \in Nat \ {0}
         /\ j[2] \in DOMAIN Requested[j[1]]
         /\ j \in JobsOf(j[1])
         /\ Technique(j) \in Techniques
         /\ Key(j) \in Keys
         /\ j # NoJob
<1>1. PICK c \in Calls : j \in JobsOf(c)
  BY DEF Jobs
<1>2. PICK i \in DOMAIN Requested[c] : j = <<c, i>>
  BY <1>1 DEF JobsOf
<1>3. PICK n \in Nat \ {0} : DOMAIN Requested[c] = 1..n
  BY MachineAssumption
<1>4. j[1] = c /\ j[2] = i /\ i \in Nat \ {0}
  BY <1>2, <1>3
<1>5. Technique(j) \in Techniques
  BY <1>4 DEF Technique, Techniques
<1>. QED  BY <1>1, <1>2, <1>4, <1>5, MachineAssumption DEF Keys

LEMMA JobsOfFacts ==
  ASSUME NEW c \in Calls
  PROVE  /\ JobsOf(c) \subseteq Jobs
         /\ \A j \in JobsOf(c) : j[1] = c
  BY DEF Jobs, JobsOf

LEMMA InitIInv == Init => IInv
<1> SUFFICES ASSUME Init PROVE IInv
  OBVIOUS
<1>1. \A j \in Jobs : job[j] = "new" /\ caller[j[1]] = "idle" /\ j[1] \in Calls
  BY JobFacts DEF Init
<1>2. TypeOK
  BY DEF Init, TypeOK
<1>3. FlightInv /\ ProviderInv /\ MissInv
  BY <1>1, MachineAssumption DEF Init, FlightInv, ProviderInv, MissInv, InFlight, AtProvider
<1>4. CallerInv /\ CollectedInv
  BY <1>1 DEF Init, CallerInv, CollectedInv, Ended, Running
<1>. QED  BY <1>2, <1>3, <1>4 DEF IInv

\* Steps of a main thread that touch no job.
LEMMA MainIInv ==
  ASSUME IInv, NEW c \in Calls,
         \/ Reject(c) \/ Raise(c) \/ Return(c)
         \/ \E j \in JobsOf(c) : Collect(j) \/ CollectError(j)
  PROVE  IInv'
<1> USE DEF IInv
<1>1. job' = job /\ flight' = flight /\ provider' = provider /\ entry' = entry /\ cursor' = cursor
  BY DEF Reject, Raise, Return, Collect, CollectError
<1>2. FlightInv' /\ ProviderInv' /\ MissInv'
  BY <1>1 DEF FlightInv, ProviderInv, MissInv
<1>3. CASE Reject(c)
  BY <1>1, <1>2, <1>3, JobFacts DEF Reject, TypeOK, CallerInv, CollectedInv, Ended, Running
<1>4. CASE Raise(c)
  <2>1. \A j \in Jobs : j[1] = c => job[j] \notin Running \cup {"pending"}
    <3> SUFFICES ASSUME NEW j \in Jobs, j[1] = c PROVE job[j] \notin Running \cup {"pending"}
      OBVIOUS
    <3>1. j \in JobsOf(c) /\ j[2] \in DOMAIN Requested[c] /\ j[2] \in Nat \ {0}
      BY JobFacts
    <3>2. PICK n \in Nat \ {0} : DOMAIN Requested[c] = 1..n
      BY MachineAssumption
    <3>3. j[2] < cursor[c]
      BY <1>4, <3>1, <3>2 DEF Raise, TypeOK
    <3>. QED  BY <1>4, <3>1, <3>3 DEF Raise, CallerInv
  <2>. QED  BY <1>1, <1>2, <1>4, <2>1, JobFacts DEF Raise, TypeOK, CallerInv, CollectedInv, Ended
<1>5. CASE Return(c)
  <2>1. \A j \in Jobs : j[1] = c => job[j] \in Outcomes
    BY <1>5, JobFacts DEF Return, CallerInv
  <2>. QED
    BY <1>1, <1>2, <1>5, <2>1, JobFacts
    DEF Return, TypeOK, CallerInv, CollectedInv, Ended, Running, Outcomes
<1>6. ASSUME NEW j \in JobsOf(c), Collect(j) PROVE IInv'
  <2>1. j \in Jobs /\ j[1] = c
    BY JobsOfFacts
  <2>. QED
    BY <1>1, <1>2, <1>6, <2>1, JobFacts DEF Collect, TypeOK, CallerInv, CollectedInv
<1>7. ASSUME NEW j \in JobsOf(c), CollectError(j) PROVE IInv'
  <2>1. j \in Jobs /\ j[1] = c
    BY JobsOfFacts
  <2>2. \A k \in Jobs : k[1] = c => job[k] # "new"
    BY <1>7, <2>1 DEF CollectError, CallerInv
  <2>3. TypeOK' /\ CollectedInv'
    BY <1>1, <1>7, <2>1 DEF CollectError, TypeOK, CollectedInv
  <2>4. CallerInv'
    BY <1>1, <1>7, <2>1, <2>2, JobFacts DEF CollectError, TypeOK, CallerInv, Ended
  <2>. QED  BY <1>2, <2>3, <2>4
<1>. QED  BY <1>3, <1>4, <1>5, <1>6, <1>7

LEMMA SubmitIInv ==
  ASSUME IInv, NEW c \in Calls, Submit(c)
  PROVE  IInv'
<1> USE DEF IInv
<1>1. \A j \in Jobs : j[1] = c => job[j] = "new"
  BY DEF Submit, CallerInv
<1>2. \A j \in Jobs : job'[j] = IF j[1] = c THEN "pending" ELSE job[j]
  BY JobFacts, JobsOfFacts DEF Submit
<1>3. TypeOK'
  BY <1>2 DEF Submit, TypeOK
<1>4. FlightInv' /\ ProviderInv' /\ MissInv'
  BY <1>1, <1>2 DEF Submit, FlightInv, ProviderInv, MissInv, InFlight, AtProvider
<1>5. CollectedInv'
  <2> SUFFICES ASSUME NEW d \in Calls PROVE CollectedInv!(d)'
    BY DEF CollectedInv
  <2>1. caller'[d] = (IF d = c THEN "collecting" ELSE caller[d]) /\ UNCHANGED <<collected, cursor>>
    BY DEF Submit, TypeOK
  <2>2. d # c => \A k \in JobsOf(d) : job'[k] = job[k]
    BY <1>2, JobsOfFacts
  <2>. QED  BY <2>1, <2>2 DEF CollectedInv
<1>6. CallerInv'
  <2> SUFFICES ASSUME NEW j \in Jobs PROVE CallerInv!(j)'
    BY DEF CallerInv
  <2>1. CASE j[1] = c
    BY <1>1, <1>2, <2>1, JobFacts DEF Submit, TypeOK, CallerInv, CollectedInv, Ended, Outcomes
  <2>2. CASE j[1] # c
    BY <1>2, <2>2, JobFacts DEF Submit, TypeOK, CallerInv
  <2>. QED  BY <2>1, <2>2
<1>. QED  BY <1>3, <1>4, <1>5, <1>6

LEMMA CancelIInv ==
  ASSUME IInv, NEW c \in Calls, CancelNext(c)
  PROVE  IInv'
<1> USE DEF IInv
<1> DEFINE j == <<c, cursor[c]>>
<1>1. j \in Jobs
  BY JobsOfFacts DEF CancelNext, JobsOf
<1>2. \A k \in Jobs : job'[k] = IF k = j /\ job[k] = "pending" THEN "cancelled" ELSE job[k]
  BY <1>1 DEF CancelNext, TypeOK
<1>3. TypeOK'
  <2>1. job' \in [Jobs -> {"new", "pending", "cancelled"} \cup Running \cup Done]
    BY <1>1 DEF CancelNext, TypeOK
  <2>2. cursor' \in [Calls -> Nat \ {0}]
    BY DEF CancelNext, TypeOK
  <2>. QED  BY <2>1, <2>2 DEF CancelNext, TypeOK
<1>4. FlightInv' /\ ProviderInv' /\ MissInv'
  BY <1>2 DEF CancelNext, FlightInv, ProviderInv, MissInv, InFlight, AtProvider
<1>5. CollectedInv'
  <2> SUFFICES ASSUME NEW d \in Calls PROVE CollectedInv!(d)'
    BY DEF CollectedInv
  <2>1. UNCHANGED <<caller, collected>> /\ (caller[d] = "idle" => cursor'[d] = cursor[d])
    BY DEF CancelNext, TypeOK
  <2>2. \A k \in JobsOf(d) : job[k] \in Errors => job'[k] \in Errors
    BY <1>2, JobsOfFacts DEF Errors
  <2>. QED  BY <2>1, <2>2 DEF CollectedInv
<1>6. CallerInv'
  <2> SUFFICES ASSUME NEW k \in Jobs PROVE CallerInv!(k)'
    BY DEF CallerInv
  <2>1. CallerInv!(k) /\ k[1] \in Calls /\ k[2] \in Nat \ {0} /\ k = <<k[1], k[2]>>
    BY JobFacts DEF CallerInv
  <2>2. caller' = caller /\ collected' = collected /\ caller[c] = "cancelling"
    BY DEF CancelNext
  <2>3. cursor'[k[1]] = IF k[1] = c THEN cursor[c] + 1 ELSE cursor[k[1]]
    BY <2>1 DEF CancelNext, TypeOK
  <2>4. k[2] < cursor'[k[1]] => job'[k] # "pending"
    <3>1. CASE k = j
      BY <1>2, <3>1
    <3>2. CASE k # j
      <4>1. k[2] < cursor'[k[1]] => k[2] < cursor[k[1]]
        BY <2>1, <2>3, <3>2 DEF TypeOK
      <4>. QED  BY <1>2, <2>1, <3>2, <4>1
    <3>. QED  BY <3>1, <3>2
  <2>. QED
    BY <1>2, <2>1, <2>2, <2>4 DEF Ended, Running, Outcomes
<1>. QED  BY <1>3, <1>4, <1>5, <1>6

\* A worker's step moves one job that has not ended on, and leaves its call's
\* bookkeeping as it is.
LEMMA WorkerKeepsCallers ==
  ASSUME IInv, NEW j \in Jobs, NEW to \in Running \cup Done,
         job[j] \in {"pending"} \cup Running,
         job' = [job EXCEPT ![j] = to],
         UNCHANGED <<caller, collected, cursor>>
  PROVE  /\ CallerInv' /\ CollectedInv'
         /\ job' \in [Jobs -> {"new", "pending", "cancelled"} \cup Running \cup Done]
         /\ \A k \in Jobs : job'[k] = IF k = j THEN to ELSE job[k]
<1> USE DEF IInv
<1>1. \A k \in Jobs : job'[k] = IF k = j THEN to ELSE job[k]
  BY DEF TypeOK
<1>2. job' \in [Jobs -> {"new", "pending", "cancelled"} \cup Running \cup Done]
  BY DEF TypeOK
<1>3. CollectedInv'
  BY <1>1, JobsOfFacts DEF CollectedInv, Running, Errors
<1>4. /\ caller[j[1]] \notin {"idle", "rejected"} \cup Ended
      /\ j \notin collected[j[1]]
  BY DEF CallerInv, Running, Outcomes, Ended
<1>5. CallerInv'
  <2> SUFFICES ASSUME NEW k \in Jobs PROVE CallerInv!(k)'
    BY DEF CallerInv
  <2>1. CallerInv!(k)
    BY DEF CallerInv
  <2>2. CASE k = j
    BY <1>1, <1>4, <2>1, <2>2 DEF Running, Done, Outcomes, Errors
  <2>3. CASE k # j
    BY <1>1, <2>1, <2>3
  <2>. QED  BY <2>2, <2>3
<1>. QED  BY <1>1, <1>2, <1>3, <1>5

LEMMA StartIInv ==
  ASSUME IInv, NEW j \in Jobs, Start(j)
  PROVE  IInv'
<1> USE DEF IInv
<1>1. PICK to \in {"unavailable", "flight", "provider"} :
         /\ job' = [job EXCEPT ![j] = to]
         /\ to = "flight" => Technique(j) \in Cached
         /\ to = "provider" => Technique(j) \notin Cached
  BY DEF Start, Goto
<1>2. job[j] = "pending" /\ UNCHANGED <<caller, collected, cursor, flight, provider, entry>>
  BY DEF Start, Goto
<1>3. to \in Running \cup Done
  BY DEF Running, Done, Outcomes
<1>4. /\ CallerInv' /\ CollectedInv'
      /\ job' \in [Jobs -> {"new", "pending", "cancelled"} \cup Running \cup Done]
      /\ \A k \in Jobs : job'[k] = IF k = j THEN to ELSE job[k]
  BY <1>1, <1>2, <1>3, WorkerKeepsCallers
<1>5. TypeOK'
  BY <1>2, <1>4 DEF TypeOK
<1>6. FlightInv' /\ ProviderInv' /\ MissInv'
  BY <1>1, <1>2, <1>4 DEF FlightInv, ProviderInv, MissInv, InFlight, AtProvider
<1>. QED  BY <1>4, <1>5, <1>6

LEMMA EnterFlightIInv ==
  ASSUME IInv, NEW j \in Jobs, EnterFlight(j)
  PROVE  IInv'
<1> USE DEF IInv
<1>1. /\ job[j] = "flight" /\ job' = [job EXCEPT ![j] = "loading"]
      /\ flight[Key(j)] = NoJob /\ flight' = [flight EXCEPT ![Key(j)] = j]
      /\ UNCHANGED <<caller, collected, cursor, provider, entry>>
  BY DEF EnterFlight, Goto
<1>2. /\ CallerInv' /\ CollectedInv'
      /\ job' \in [Jobs -> {"new", "pending", "cancelled"} \cup Running \cup Done]
      /\ \A k \in Jobs : job'[k] = IF k = j THEN "loading" ELSE job[k]
  BY <1>1, WorkerKeepsCallers DEF Running
<1>3. \A k \in Keys : flight'[k] = IF k = Key(j) THEN j ELSE flight[k]
  BY <1>1 DEF TypeOK
<1>4. TypeOK'
  BY <1>1, <1>2 DEF TypeOK
<1>5. FlightInv'
  <2>1. \A k \in Jobs : k # NoJob /\ Key(k) \in Keys
    BY JobFacts
  <2>. QED  BY <1>1, <1>2, <1>3, <2>1 DEF FlightInv, InFlight
<1>6. ProviderInv' /\ MissInv'
  BY <1>1, <1>2 DEF ProviderInv, MissInv, AtProvider
<1>. QED  BY <1>2, <1>4, <1>5, <1>6

\* What leaving a flight does to the flights.
LEMMA FinishFacts ==
  ASSUME IInv, NEW j \in Jobs, NEW from \in Running, NEW end \in Done, Finish(j, from, end),
         UNCHANGED <<caller, collected, cursor>>
  PROVE  /\ CallerInv' /\ CollectedInv' /\ FlightInv'
         /\ job' \in [Jobs -> {"new", "pending", "cancelled"} \cup Running \cup Done]
         /\ flight' \in [Keys -> Jobs \cup {NoJob}]
         /\ job[j] = from
         /\ \A k \in Jobs : job'[k] = IF k = j THEN end ELSE job[k]
<1> USE DEF IInv
<1>1. job[j] = from /\ job' = [job EXCEPT ![j] = end]
  BY DEF Finish, Goto
<1>2. /\ CallerInv' /\ CollectedInv'
      /\ job' \in [Jobs -> {"new", "pending", "cancelled"} \cup Running \cup Done]
      /\ \A k \in Jobs : job'[k] = IF k = j THEN end ELSE job[k]
  BY <1>1, WorkerKeepsCallers
<1>3. /\ flight' \in [Keys -> Jobs \cup {NoJob}]
      /\ \A k \in Keys : flight'[k] = IF flight[k] = j THEN NoJob ELSE flight[k]
  BY DEF Finish, TypeOK
<1>4. \A k \in Jobs : k # NoJob /\ Key(k) \in Keys
  BY JobFacts
<1>5. end \notin InFlight \cup {"flight"}
  BY DEF InFlight, Done, Outcomes, Errors
<1>6. FlightInv'
  <2>1. \A k \in Jobs : Technique(k) \in Cached /\ job'[k] \in InFlight => flight'[Key(k)] = k
    BY <1>2, <1>3, <1>4, <1>5 DEF FlightInv
  <2>2. \A l \in Jobs, k \in Keys :
           flight'[k] = l => k = Key(l) /\ Technique(l) \in Cached /\ job'[l] \in InFlight
    BY <1>2, <1>3, <1>4 DEF FlightInv
  <2>3. \A k \in Jobs : job'[k] \in {"flight", "loading", "storing"} => Technique(k) \in Cached
    BY <1>2, <1>5 DEF FlightInv, InFlight
  <2>. QED  BY <2>1, <2>2, <2>3 DEF FlightInv
<1>. QED  BY <1>1, <1>2, <1>3, <1>6

LEMMA LoadIInv ==
  ASSUME IInv, NEW j \in Jobs, LoadHit(j) \/ LoadMiss(j)
  PROVE  IInv'
<1> USE DEF IInv
<1>1. CASE LoadHit(j)
  <2>1. "loading" \in Running /\ "result" \in Done /\ Finish(j, "loading", "result")
    BY <1>1 DEF LoadHit, Running, Done, Outcomes
  <2>2. UNCHANGED <<caller, collected, cursor, provider, entry>>
    BY <1>1 DEF LoadHit
  <2>3. /\ CallerInv' /\ CollectedInv' /\ FlightInv'
        /\ job' \in [Jobs -> {"new", "pending", "cancelled"} \cup Running \cup Done]
        /\ flight' \in [Keys -> Jobs \cup {NoJob}]
        /\ job[j] = "loading"
        /\ \A k \in Jobs : job'[k] = IF k = j THEN "result" ELSE job[k]
    BY <2>1, <2>2, FinishFacts
  <2>4. TypeOK'
    BY <2>2, <2>3 DEF TypeOK
  <2>5. ProviderInv' /\ MissInv'
    BY <2>2, <2>3 DEF ProviderInv, MissInv, AtProvider
  <2>. QED  BY <2>3, <2>4, <2>5
<1>2. CASE LoadMiss(j)
  <2>1. /\ Key(j) \notin entry /\ job[j] = "loading" /\ job' = [job EXCEPT ![j] = "provider"]
        /\ UNCHANGED <<caller, collected, cursor, flight, provider, entry>>
    BY <1>2 DEF LoadMiss, Goto
  <2>2. /\ CallerInv' /\ CollectedInv'
        /\ job' \in [Jobs -> {"new", "pending", "cancelled"} \cup Running \cup Done]
        /\ \A k \in Jobs : job'[k] = IF k = j THEN "provider" ELSE job[k]
    BY <2>1, WorkerKeepsCallers DEF Running
  <2>3. TypeOK'
    BY <2>1, <2>2 DEF TypeOK
  <2>4. FlightInv'
    BY <2>1, <2>2 DEF FlightInv, InFlight
  <2>5. ProviderInv' /\ MissInv'
    BY <2>1, <2>2 DEF ProviderInv, MissInv, AtProvider
  <2>. QED  BY <2>2, <2>3, <2>4, <2>5
<1>. QED  BY <1>1, <1>2

LEMMA CallProviderIInv ==
  ASSUME IInv, NEW j \in Jobs, CallProvider(j)
  PROVE  IInv'
<1> USE DEF IInv
<1>1. /\ job[j] = "provider" /\ job' = [job EXCEPT ![j] = "calling"]
      /\ UNCHANGED <<caller, collected, cursor, flight, entry>>
  BY DEF CallProvider, Goto
<1>2. /\ CallerInv' /\ CollectedInv'
      /\ job' \in [Jobs -> {"new", "pending", "cancelled"} \cup Running \cup Done]
      /\ \A k \in Jobs : job'[k] = IF k = j THEN "calling" ELSE job[k]
  BY <1>1, WorkerKeepsCallers DEF Running
<1>3. FlightInv' /\ MissInv'
  BY <1>1, <1>2 DEF FlightInv, MissInv, InFlight, AtProvider
<1>4. \A k \in Jobs : k # NoJob /\ Technique(k) \in Techniques
  BY JobFacts
<1>5. provider' \in [Techniques -> Jobs \cup {NoJob}] /\ ProviderInv'
  <2>1. CASE Technique(j) \in Serialized
    <3>1. provider[Technique(j)] = NoJob /\ provider' = [provider EXCEPT ![Technique(j)] = j]
      BY <2>1 DEF CallProvider
    <3>2. \A x \in Techniques : provider'[x] = IF x = Technique(j) THEN j ELSE provider[x]
      BY <3>1 DEF TypeOK
    <3>3. provider' \in [Techniques -> Jobs \cup {NoJob}]
      BY <3>1 DEF TypeOK
    <3>. QED  BY <1>1, <1>2, <1>4, <3>1, <3>2, <3>3 DEF ProviderInv
  <2>2. CASE Technique(j) \notin Serialized
    <3>1. provider' = provider
      BY <2>2 DEF CallProvider
    <3>. QED  BY <1>1, <1>2, <2>2, <3>1 DEF ProviderInv, TypeOK
  <2>. QED  BY <2>1, <2>2
<1>6. TypeOK'
  BY <1>1, <1>2, <1>5 DEF TypeOK
<1>. QED  BY <1>2, <1>3, <1>5, <1>6

\* A job that stops calling its provider gives the provider's lock back.
LEMMA FreeProviderFacts ==
  ASSUME IInv, NEW j \in Jobs, NEW to, to # "calling", provider' = FreeProvider(j),
         \A k \in Jobs : job'[k] = IF k = j THEN to ELSE job[k]
  PROVE  ProviderInv' /\ provider' \in [Techniques -> Jobs \cup {NoJob}]
<1>1. provider' \in [Techniques -> Jobs \cup {NoJob}]
  BY DEF FreeProvider, IInv, TypeOK
<1>2. \A x \in Techniques : provider'[x] = IF provider[x] = j THEN NoJob ELSE provider[x]
  BY DEF FreeProvider
<1>3. \A k \in Jobs : k # NoJob /\ Technique(k) \in Techniques
  BY JobFacts
<1>. QED  BY <1>1, <1>2, <1>3 DEF IInv, ProviderInv

LEMMA ProviderEndIInv ==
  ASSUME IInv, NEW j \in Jobs, ProviderResult(j) \/ ProviderFailure(j)
  PROVE  IInv'
<1> USE DEF IInv
<1>1. provider' = FreeProvider(j) /\ UNCHANGED <<caller, collected, cursor, entry>>
  BY DEF ProviderResult, ProviderFailure
<1>2. CASE \E end \in {"failed", "bug", "result"} : Finish(j, "calling", end)
  <2>1. PICK end \in {"failed", "bug", "result"} : Finish(j, "calling", end)
    BY <1>2
  <2>2. "calling" \in Running /\ end \in Done
    BY DEF Running, Done, Outcomes, Errors
  <2>3. /\ CallerInv' /\ CollectedInv' /\ FlightInv'
        /\ job' \in [Jobs -> {"new", "pending", "cancelled"} \cup Running \cup Done]
        /\ flight' \in [Keys -> Jobs \cup {NoJob}]
        /\ \A k \in Jobs : job'[k] = IF k = j THEN end ELSE job[k]
    BY <1>1, <2>1, <2>2, FinishFacts
  <2>4. ProviderInv' /\ provider' \in [Techniques -> Jobs \cup {NoJob}]
    BY <1>1, <2>3, FreeProviderFacts
  <2>5. TypeOK'
    BY <1>1, <2>3, <2>4 DEF TypeOK
  <2>6. MissInv'
    BY <1>1, <2>3 DEF MissInv, AtProvider
  <2>. QED  BY <2>3, <2>4, <2>5, <2>6
<1>3. CASE Technique(j) \in Cached /\ Goto(j, "calling", "storing") /\ UNCHANGED flight
  <2>1. job[j] = "calling" /\ job' = [job EXCEPT ![j] = "storing"]
    BY <1>3 DEF Goto
  <2>2. /\ CallerInv' /\ CollectedInv'
        /\ job' \in [Jobs -> {"new", "pending", "cancelled"} \cup Running \cup Done]
        /\ \A k \in Jobs : job'[k] = IF k = j THEN "storing" ELSE job[k]
    BY <1>1, <2>1, WorkerKeepsCallers DEF Running
  <2>3. ProviderInv' /\ provider' \in [Techniques -> Jobs \cup {NoJob}]
    BY <1>1, <2>2, FreeProviderFacts
  <2>4. TypeOK'
    BY <1>1, <1>3, <2>2, <2>3 DEF TypeOK
  <2>5. FlightInv' /\ MissInv'
    BY <1>1, <1>3, <2>1, <2>2 DEF FlightInv, MissInv, InFlight, AtProvider
  <2>. QED  BY <2>2, <2>3, <2>4, <2>5
<1>. QED  BY <1>2, <1>3 DEF ProviderResult, ProviderFailure

LEMMA StoreIInv ==
  ASSUME IInv, NEW j \in Jobs, Store(j) \/ StoreError(j)
  PROVE  IInv'
<1> USE DEF IInv
<1>1. PICK end \in {"result", "storeerror"} : Finish(j, "storing", end)
  BY DEF Store, StoreError
<1>2. /\ UNCHANGED <<caller, collected, cursor, provider>>
      /\ entry' \in {entry, entry \cup {Key(j)}}
  BY DEF Store, StoreError
<1>3. "storing" \in Running /\ end \in Done
  BY DEF Running, Done, Outcomes, Errors
<1>4. /\ CallerInv' /\ CollectedInv' /\ FlightInv'
      /\ job' \in [Jobs -> {"new", "pending", "cancelled"} \cup Running \cup Done]
      /\ flight' \in [Keys -> Jobs \cup {NoJob}]
      /\ job[j] = "storing"
      /\ \A k \in Jobs : job'[k] = IF k = j THEN end ELSE job[k]
  BY <1>1, <1>2, <1>3, FinishFacts
<1>5. TypeOK'
  BY <1>2, <1>4, JobFacts DEF TypeOK
<1>6. ProviderInv'
  BY <1>2, <1>4 DEF ProviderInv
<1>7. MissInv'
  <2> SUFFICES ASSUME NEW k \in Jobs, Technique(k) \in Cached, job'[k] \in AtProvider
               PROVE  Key(k) \notin entry'
    BY DEF MissInv
  <2>1. k # j /\ job[k] \in AtProvider
    BY <1>4 DEF AtProvider
  <2>2. flight[Key(k)] = k /\ flight[Key(j)] = j /\ Key(k) \notin entry
    BY <1>4, <2>1 DEF FlightInv, MissInv, InFlight, AtProvider
  <2>. QED  BY <1>2, <2>1, <2>2
<1>. QED  BY <1>4, <1>5, <1>6, <1>7

LEMMA NextIInv == IInv /\ [Next]_vars => IInv'
<1> SUFFICES ASSUME IInv, [Next]_vars PROVE IInv'
  OBVIOUS
<1>1. CASE UNCHANGED vars
  <2>1. TypeOK' /\ FlightInv'
    BY <1>1 DEF vars, IInv, TypeOK, FlightInv
  <2>2. ProviderInv' /\ MissInv' /\ CallerInv' /\ CollectedInv'
    BY <1>1 DEF vars, IInv, ProviderInv, MissInv, CallerInv, CollectedInv
  <2>. QED  BY <2>1, <2>2 DEF IInv
<1>2. ASSUME NEW c \in Calls, Submit(c) \/ Reject(c) \/ Main(c) PROVE IInv'
  BY <1>2, SubmitIInv, CancelIInv, MainIInv DEF Main
<1>3. ASSUME NEW j \in Jobs, Work(j) PROVE IInv'
  BY <1>3, StartIInv, EnterFlightIInv, LoadIInv, CallProviderIInv, ProviderEndIInv, StoreIInv DEF Work
<1>. QED  BY <1>1, <1>2, <1>3 DEF Next, Finished
--------------------------------------------------------------------------------
\* IInv holds in every state of every behaviour.
THEOREM Invariance == Spec => []IInv
BY InitIInv, NextIInv, PTL DEF Spec

\* A call that has returned, raised or been rejected has no job at work and no
\* job of it holds a cache flight or a provider's lock, for every number of
\* calls, requests and pool sizes.
THEOREM NothingHeld == Spec => []EndedCallsHoldNothing
<1>1. IInv => EndedCallsHoldNothing
  <2> SUFFICES ASSUME IInv, NEW c \in Calls, caller[c] \in Ended, NEW j \in JobsOf(c)
               PROVE  /\ job[j] \notin Running \cup {"pending"}
                      /\ \A k \in Keys : flight[k] # j
                      /\ \A x \in Techniques : provider[x] # j
    BY DEF EndedCallsHoldNothing
  <2>1. j \in Jobs /\ j[1] = c
    BY JobsOfFacts
  <2>2. job[j] \notin Running \cup {"pending"}
    BY <2>1 DEF IInv, CallerInv
  <2>. QED
    BY <2>1, <2>2 DEF IInv, FlightInv, ProviderInv, InFlight, Running
<1>. QED  BY <1>1, Invariance, PTL

\* No provider is asked again for a result that is in the cache, nor by two
\* jobs at a time for the same cache key.
THEOREM CallsNotRepeated == Spec => []NoRepeatedCall
<1>1. IInv => NoRepeatedCall
  <2> SUFFICES ASSUME IInv, NEW j \in Jobs, Technique(j) \in Cached,
                      job[j] \in {"provider", "calling", "storing"}
               PROVE  /\ Key(j) \notin entry
                      /\ \A k \in Jobs \ {j} : Key(k) = Key(j) =>
                            job[k] \notin {"provider", "calling", "storing"}
    BY DEF NoRepeatedCall
  <2>1. Key(j) \notin entry
    BY DEF IInv, MissInv, AtProvider
  <2>2. flight[Key(j)] = j
    BY DEF IInv, FlightInv, InFlight
  <2>3. ASSUME NEW k \in Jobs, Key(k) = Key(j), job[k] \in {"provider", "calling", "storing"}
        PROVE  k = j
    <3>1. Technique(k) = Technique(j)
      BY <2>3 DEF Key
    <3>2. flight[Key(k)] = k
      BY <2>3, <3>1 DEF IInv, FlightInv, InFlight
    <3>. QED  BY <2>2, <2>3, <3>2
  <2>. QED  BY <2>1, <2>3
<1>. QED  BY <1>1, Invariance, PTL

\* Calls of a serialized provider never overlap.
THEOREM ProvidersSerialized == Spec => []SerializedProviders
<1>1. IInv => SerializedProviders
  BY DEF IInv, ProviderInv, SerializedProviders
<1>. QED  BY <1>1, Invariance, PTL

\* analyse implements the contract its callers rely on: outcomes are decided
\* once and never revised, an aggregate is complete, an aborted call lacks an
\* outcome.
THEOREM Refinement == Spec => ImplementsContract
<1> DEFINE endedBar == [c \in Calls |->
                          IF caller[c] \in {"returned", "raised"} THEN caller[c] ELSE "open"]
<1>1. Init => Contract!Init
  BY DEF Init, Contract!Init
<1>2. IInv /\ [Next]_vars => [Contract!Next]_<<collected, endedBar>>
  <2> SUFFICES ASSUME IInv, [Next]_vars PROVE Contract!Next \/ UNCHANGED <<collected, endedBar>>
    OBVIOUS
  <2> USE DEF IInv
  <2>1. ASSUME NEW c \in Calls, NEW to, caller' = [caller EXCEPT ![c] = to],
               caller[c] \notin {"returned", "raised"}, to \in {"returned", "raised"}
        PROVE  endedBar' = [endedBar EXCEPT ![c] = to] /\ endedBar[c] = "open"
    BY <2>1 DEF TypeOK
  <2>2. ASSUME NEW c \in Calls, NEW to, caller' = [caller EXCEPT ![c] = to],
               caller[c] \notin {"returned", "raised"}, to \notin {"returned", "raised"}
        PROVE  UNCHANGED endedBar
    BY <2>2 DEF TypeOK
  <2>3. ASSUME UNCHANGED <<caller, collected>> PROVE UNCHANGED <<collected, endedBar>>
    BY <2>3
  <2>4. ASSUME NEW c \in Calls, Submit(c) \/ Reject(c) PROVE UNCHANGED <<collected, endedBar>>
    <3>1. collected' = collected /\ caller[c] = "idle"
          /\ \E to \in {"collecting", "rejected"} : caller' = [caller EXCEPT ![c] = to]
      BY <2>4 DEF Submit, Reject
    <3>. QED  BY <2>2, <3>1
  <2>5. ASSUME NEW c \in Calls, Raise(c) PROVE Contract!Abort(c)
    <3>1. caller[c] = "cancelling" /\ caller' = [caller EXCEPT ![c] = "raised"] /\ collected' = collected
      BY <2>5 DEF Raise
    <3>2. PICK j \in JobsOf(c) : job[j] \in Errors
      BY <3>1 DEF CollectedInv
    <3>3. j \in Jobs /\ j[1] = c
      BY JobsOfFacts
    <3>4. job[j] \notin Outcomes
      BY <3>2 DEF Errors, Outcomes
    <3>5. collected[c] # JobsOf(c)
      BY <3>3, <3>4 DEF CallerInv
    <3>. QED  BY <2>1, <3>1, <3>5 DEF Contract!Abort
  <2>6. ASSUME NEW c \in Calls, Return(c) PROVE Contract!Return(c)
    <3>1. caller[c] = "collecting" /\ caller' = [caller EXCEPT ![c] = "returned"] /\ collected' = collected
          /\ collected[c] = JobsOf(c)
      BY <2>6 DEF Return
    <3>. QED  BY <2>1, <3>1 DEF Contract!Return
  <2>7. ASSUME NEW c \in Calls, NEW j \in JobsOf(c), Collect(j) PROVE Contract!Decide(c, j)
    <3>1. j[1] = c
      BY JobsOfFacts
    <3>. QED  BY <2>7, <3>1 DEF Collect, Contract!Decide
  <2>8. ASSUME NEW c \in Calls, NEW j \in JobsOf(c), CollectError(j)
        PROVE  UNCHANGED <<collected, endedBar>>
    <3>1. j[1] = c
      BY JobsOfFacts
    <3>. QED  BY <2>2, <2>8, <3>1 DEF CollectError
  <2>9. ASSUME NEW j \in Jobs, Work(j) PROVE UNCHANGED <<caller, collected>>
    BY <2>9 DEF Work, Start, EnterFlight, LoadHit, LoadMiss, CallProvider, ProviderResult,
                ProviderFailure, Store, StoreError
  <2>10. ASSUME NEW c \in Calls, CancelNext(c) PROVE UNCHANGED <<caller, collected>>
    BY <2>10 DEF CancelNext
  <2>11. CASE UNCHANGED vars
    BY <2>3, <2>11 DEF vars
  <2>12. ASSUME NEW c \in Calls, Main(c) PROVE Contract!Next \/ UNCHANGED <<collected, endedBar>>
    BY <2>3, <2>5, <2>6, <2>7, <2>8, <2>10, <2>12 DEF Main, Contract!Next
  <2>. QED  BY <2>3, <2>4, <2>9, <2>11, <2>12 DEF Next, Finished
<1>. QED  BY <1>1, <1>2, Invariance, PTL DEF Spec, ImplementsContract, Contract!Spec
================================================================================
