-------------------------- MODULE IngestPipelineProofs --------------------------
(***************************************************************************)
(* IngestPipeline keeps its three promises for any calls, sources, plans,  *)
(* models and number of interferences.  The argument: an outcome is made   *)
(* only where the results of all units agree with the request, no later    *)
(* step changes the request of a call that has one, and what others do to  *)
(* the files can damage or exchange outcomes but not make a sound-looking  *)
(* one that is not sound.                                                  *)
(***************************************************************************)
EXTENDS IngestPipeline, TLAPS

PCs == {"acquired", "prepared", "load", "infer", "check", "write", "publish", "sync", "ended"}
Kinds == {"running", "raised", "failed", "crashed", "bypass", "hit", "written"}
Stages == {"none", "preparation", "cache_retrieval", "inference", "assembly", "validation", "persistence"}
Evidences == {"nothing", "acquisition", "preparation", "inference", "assembly"}
Results == [kind : Kinds, stage : Stages, completed : Evidences, answer : SUBSET Outcomes]

TypeOK ==
    /\ arguments \in [Calls -> [source : Sources, cached : BOOLEAN]]
    /\ parser \in {"absent", "opaque", "describing"} /\ model \in Models
    /\ entries \in [Requests -> SUBSET Outcomes]
    /\ tampered \subseteq Requests /\ meddling \in Nat
    /\ prepared \subseteq Calls /\ pc \in [Calls -> PCs]
    /\ declared \in [Calls -> Models \cup {NotUsed}]
    /\ done \in [Calls -> Seq(Models)]
    /\ outcome \in [Calls -> SUBSET Outcomes]
    /\ result \in [Calls -> Results]

\* An outcome in a file is sound or visibly damaged; under its own name if nobody else wrote it.
Stored ==
    \A r \in Requests : \A o \in entries[r] :
        /\ o.intact => Sound(o)
        /\ r \notin tampered => o.intact /\ o.request = r

\* What may be handed to the caller c.
Answer(c, o) == Sound(o) /\ o.request.source = Source(c) /\ (Cached(c) => o.request = Request(c))

\* What each phase of a call knows of its preparation and its request,
Preparing(c) ==
    /\ pc[c] = "acquired" => c \notin prepared
    /\ pc[c] \notin {"acquired", "ended"} => c \in prepared
    /\ pc[c] \in {"acquired", "prepared"} => declared[c] = NotUsed
    /\ pc[c] = "load" => Units(c) = 0 \/ declared[c] # NotUsed

\* of its results,
Inferring(c) ==
    /\ pc[c] \in {"acquired", "prepared", "load"} => done[c] = <<>>
    /\ pc[c] \in {"infer", "check"} => Units(c) > 0
    /\ pc[c] = "infer" => Len(done[c]) <= Units(c)
    /\ pc[c] = "check" => Len(done[c]) = Units(c) /\ \A u \in 1..Units(c) : done[c][u] = done[c][1]

\* of its outcome,
Assembled(c) ==
    /\ pc[c] \in {"acquired", "prepared", "infer", "check"} => outcome[c] = {}
    /\ pc[c] = "load" => (outcome[c] = {}) = (Units(c) > 0)
    /\ pc[c] \in {"write", "publish", "sync"} => outcome[c] # {}
    /\ pc[c] \in {"load", "write", "publish", "sync"} => Cached(c)
    /\ \A o \in outcome[c] : Answer(c, o)

\* and what it has reported.
Placed(r) == entries[r] # {} \/ r \in tampered

Reported(c) ==
    /\ pc[c] # "ended" => result[c] = Result("running", "none", "nothing", {})
    /\ \A o \in result[c].answer : Answer(c, o)
    /\ pc[c] = "sync" \/ result[c].kind = "written" => Placed(Request(c))

Evidence(c) ==
    result[c].kind = "failed" =>
        result[c].completed = IF RetrievalFailed(c) THEN "nothing" ELSE Strongest(c)

Mine(c) == Preparing(c) /\ Inferring(c) /\ Assembled(c) /\ Reported(c) /\ Evidence(c)

IInv == TypeOK /\ Stored /\ \A c \in Calls : Mine(c)

-----------------------------------------------------------------------------
LEMMA RequestType ==
    ASSUME TypeOK, NEW c \in Calls
    PROVE  Request(c) \in Requests /\ Units(c) \in Nat
BY IngestAssumption DEF TypeOK, Request, Requests, Source, Units

LEMMA Initially == Init => IInv
<1> SUFFICES ASSUME Init PROVE IInv
    OBVIOUS
<1>1. TypeOK
  BY IngestAssumption DEF Init, TypeOK, PCs, Kinds, Stages, Evidences, Results, Result, Requests
<1>2. Stored BY DEF Init, Stored
<1>3. ASSUME NEW c \in Calls PROVE Mine(c)
  BY DEF Init, Mine, Preparing, Inferring, Assembled, Reported, Evidence, Result
<1> QED BY <1>1, <1>2, <1>3 DEF IInv

LEMMA OutcomeType ==
    ASSUME NEW r \in Requests, NEW u \in Seq(Models)
    PROVE  /\ Outcome(r, u) \in Outcomes
           /\ Outcome(r, u).request = r /\ Outcome(r, u).units = u /\ Outcome(r, u).intact
BY DEF Outcome, Outcomes

-----------------------------------------------------------------------------
LEMMA EndType ==
    ASSUME TypeOK, NEW c \in Calls, NEW kind \in Kinds, NEW answer \in SUBSET Outcomes,
           End(c, kind, answer)
    PROVE  result' \in [Calls -> Results]
<1>1. "none" \in Stages /\ "nothing" \in Evidences BY DEF Stages, Evidences
<1>2. Result(kind, "none", "nothing", answer) \in Results BY <1>1 DEF Results, Result
<1> QED BY <1>2 DEF TypeOK, End, Finish

LEMMA FailType ==
    ASSUME TypeOK, NEW c \in Calls, NEW stage \in Stages, NEW completed \in Evidences,
           Fail(c, stage, completed)
    PROVE  TypeOK'
<1>1. Result("failed", stage, completed, {}) \in Results BY DEF Results, Result, Kinds
<1>2. result' \in [Calls -> Results] BY <1>1 DEF TypeOK, Fail, Finish
<1>3. pc' \in [Calls -> PCs] BY DEF TypeOK, Fail, Finish, Goto, PCs
<1> QED BY <1>2, <1>3 DEF TypeOK, Fail, Finish, environment, work

LEMMA TypeStep == IInv /\ [Next]_vars => TypeOK'
<1> SUFFICES ASSUME IInv, [Next]_vars PROVE TypeOK'
    OBVIOUS
<1> USE DEF TypeOK, PCs, Kinds, Stages, Evidences, Goto, End, Finish, environment, work
<1>0. TypeOK BY DEF IInv
<1>1. ASSUME NEW c \in Calls, NEW kind \in {"raised", "crashed"}, End(c, kind, {}),
             UNCHANGED <<environment, work>>
      PROVE  TypeOK'
  <2>1. result' \in [Calls -> Results]
    <3>1. kind \in Kinds /\ {} \in SUBSET Outcomes OBVIOUS
    <3> HIDE DEF TypeOK, Kinds, End
    <3> QED BY <1>0, <1>1, <3>1, EndType
  <2> QED BY <1>0, <1>1, <2>1
<1>2. ASSUME NEW c \in Calls, Step(c) PROVE TypeOK'
  <2>0. Request(c) \in Requests /\ Units(c) \in Nat BY <1>0, RequestType
  <2>1. CASE Prepare(c) \/ PreparationInvalid(c)
    <3>1. Result("failed", "validation", "preparation", {}) \in Results BY DEF Result, Results
    <3> QED BY <1>0, <2>1, <3>1 DEF Prepare, PreparationInvalid
  <2>2. ASSUME NEW stage \in Stages, NEW completed \in Evidences, Fail(c, stage, completed)
        PROVE  TypeOK'
    <3> HIDE DEF TypeOK, Stages, Evidences
    <3> QED BY <1>0, <2>2, FailType
  <2>3. CASE \/ PrepareFails(c) \/ NoParser(c) \/ Ineligible(c) \/ Unusable(c) \/ InferFails(c)
             \/ RecombineFails(c) \/ CheckFails(c) \/ StoreFails(c)
    <3> HIDE DEF TypeOK
    <3> QED BY <2>2, <2>3 DEF PrepareFails, NoParser, Ineligible, Unusable, InferFails, RecombineFails,
                              CheckFails, StoreFails
  <2>4. CASE EmptyText(c)
    <3>0. <<>> \in Seq(Models) OBVIOUS
    <3>1. Outcome(Request(c), <<>>) \in Outcomes BY <2>0, <3>0, OutcomeType
    <3>2. outcome' \in [Calls -> SUBSET Outcomes] BY <1>0, <2>4, <3>1 DEF EmptyText
    <3>3. pc' \in [Calls -> PCs]
      <4>1. CASE Cached(c) BY <1>0, <2>4, <4>1 DEF EmptyText
      <4>2. CASE ~Cached(c) BY <1>0, <2>4, <4>2 DEF EmptyText
      <4> QED BY <4>1, <4>2
    <3>4. result' \in [Calls -> Results]
      <4>1. outcome'[c] \in SUBSET Outcomes BY <3>2
      <4>2. CASE Cached(c) BY <1>0, <2>4, <4>2 DEF EmptyText
      <4>3. CASE ~Cached(c)
        <5>1. End(c, "bypass", outcome'[c]) BY <2>4, <4>3 DEF EmptyText
        <5>2. "bypass" \in Kinds OBVIOUS
        <5> HIDE DEF TypeOK, Kinds, End
        <5> QED BY <1>0, <4>1, <5>1, <5>2, EndType
      <4> QED BY <4>2, <4>3
    <3> QED BY <1>0, <2>4, <3>2, <3>3, <3>4 DEF EmptyText
  <2>5. CASE Declare(c) BY <1>0, <2>5 DEF Declare
  <2>6. CASE Bypass(c) BY <1>0, <2>6 DEF Bypass
  <2>7. CASE Miss(c) BY <1>0, <2>7 DEF Miss
  <2>8. CASE Hit(c)
    <3>1. PICK o \in entries[Request(c)] : End(c, "hit", {o}) BY <2>8 DEF Hit
    <3>2. o \in Outcomes BY <1>0, <2>0, <3>1
    <3>3. result' \in [Calls -> Results]
      <4>1. "hit" \in Kinds /\ {o} \in SUBSET Outcomes BY <3>2
      <4> HIDE DEF TypeOK, Kinds, End
      <4> QED BY <1>0, <3>1, <4>1, EndType
    <3> QED BY <1>0, <2>8, <3>1, <3>3 DEF Hit
  <2>9. CASE Infer(c) BY <1>0, <2>9 DEF Infer
  <2>10. CASE Recombine(c) BY <1>0, <2>10 DEF Recombine
  <2>11. CASE Assemble(c)
    <3>1. Len(done[c]) = Units(c) /\ Units(c) > 0 BY <2>11 DEF IInv, Mine, Inferring, Assemble
    <3>2. done[c][1] \in Models BY <1>0, <2>0, <3>1
    <3>3. [source |-> Source(c), model |-> done[c][1]] \in Requests
      BY <1>0, <3>2 DEF Requests, Source
    <3>4. Outcome([source |-> Source(c), model |-> done[c][1]], done[c]) \in Outcomes
      BY <1>0, <3>3, OutcomeType
    <3>5. outcome' \in [Calls -> SUBSET Outcomes] BY <1>0, <2>11, <3>4 DEF Assemble
    <3>6. pc' \in [Calls -> PCs]
      <4>1. CASE Cached(c) BY <1>0, <2>11, <4>1 DEF Assemble
      <4>2. CASE ~Cached(c) BY <1>0, <2>11, <4>2 DEF Assemble
      <4> QED BY <4>1, <4>2
    <3>7. result' \in [Calls -> Results]
      <4>1. outcome'[c] \in SUBSET Outcomes BY <3>5
      <4>2. CASE Cached(c) BY <1>0, <2>11, <4>2 DEF Assemble
      <4>3. CASE ~Cached(c)
        <5>1. End(c, "bypass", outcome'[c]) BY <2>11, <4>3 DEF Assemble
        <5>2. "bypass" \in Kinds OBVIOUS
        <5> HIDE DEF TypeOK, Kinds, End
        <5> QED BY <1>0, <4>1, <5>1, <5>2, EndType
      <4> QED BY <4>2, <4>3
    <3> QED BY <1>0, <2>11, <3>5, <3>6, <3>7 DEF Assemble
  <2>12. CASE Write(c) BY <1>0, <2>12 DEF Write
  <2>13. CASE Publish(c) BY <1>0, <2>0, <2>13 DEF Publish
  <2>14. CASE Sync(c)
    <3>1. result' \in [Calls -> Results]
      <4>1. "written" \in Kinds /\ outcome[c] \in SUBSET Outcomes BY <1>0
      <4>2. End(c, "written", outcome[c]) BY <2>14 DEF Sync
      <4> HIDE DEF TypeOK, Kinds, End
      <4> QED BY <1>0, <4>1, <4>2, EndType
    <3> QED BY <1>0, <2>14, <3>1 DEF Sync
  <2>15. CASE Raise(c) BY <1>0, <1>2, <2>15, <1>1 DEF Raise
  <2> QED BY <1>2, <2>1, <2>3, <2>4, <2>5, <2>6, <2>7, <2>8, <2>9, <2>10, <2>11, <2>12, <2>13, <2>14,
             <2>15 DEF Step
<1>3. ASSUME NEW c \in Calls, Crash(c) PROVE TypeOK' BY <1>0, <1>3, <1>1 DEF Crash
<1>4. CASE Retool BY <1>0, <1>4 DEF Retool
<1>5. ASSUME NEW r \in Requests, Tamper(r) PROVE TypeOK'
  <2>1. CASE entries' = [entries EXCEPT ![r] = {}] BY <1>0, <1>5, <2>1 DEF Tamper
  <2>2. CASE \E from \in Requests : \E o \in entries[from] :
               entries' = [entries EXCEPT ![r] = {IF from = r THEN [o EXCEPT !.intact = FALSE] ELSE o}]
    <3>0. PICK from \in Requests : \E o \in entries[from] :
               entries' = [entries EXCEPT ![r] = {IF from = r THEN [o EXCEPT !.intact = FALSE] ELSE o}]
      BY <2>2
    <3>1. PICK o \in entries[from] :
               entries' = [entries EXCEPT ![r] = {IF from = r THEN [o EXCEPT !.intact = FALSE] ELSE o}]
      BY <3>0
    <3>2. o \in Outcomes BY <1>0, <3>1
    <3>3. [o EXCEPT !.intact = FALSE] \in Outcomes BY <3>2 DEF Outcomes
    <3>4. entries' \in [Requests -> SUBSET Outcomes] BY <1>0, <3>1, <3>2, <3>3
    <3> QED BY <1>0, <1>5, <3>4 DEF Tamper
  <2> QED BY <1>5, <2>1, <2>2 DEF Tamper
<1>6. CASE UNCHANGED vars BY <1>0, <1>6 DEF vars
<1> QED BY <1>2, <1>3, <1>4, <1>5, <1>6 DEF Next

-----------------------------------------------------------------------------
\* Only Publish and Tamper change files, and only Tamper empties one.
LEMMA StoredStep == IInv /\ [Next]_vars =>
    Stored' /\ \A r \in Requests : Placed(r) => Placed(r)'
<1> SUFFICES ASSUME IInv, [Next]_vars
             PROVE  Stored' /\ \A r \in Requests : Placed(r) => Placed(r)'
    OBVIOUS
<1>0. TypeOK /\ Stored BY DEF IInv
<1>1. ASSUME UNCHANGED <<entries, tampered>>
      PROVE  Stored' /\ \A r \in Requests : Placed(r) => Placed(r)'
  BY <1>0, <1>1 DEF Stored, Sound, Placed
<1>2. ASSUME NEW c \in Calls, Step(c) \/ Crash(c), ~Publish(c) PROVE UNCHANGED <<entries, tampered>>
  BY <1>2 DEF Step, Crash, Prepare, PrepareFails, PreparationInvalid, Raise, EmptyText, NoParser,
              Ineligible, Declare, Bypass, Miss, Hit, Unusable, Infer, InferFails, Recombine,
              RecombineFails, CheckFails, Assemble, Write, Sync, StoreFails, Fail, environment
<1>3. ASSUME NEW c \in Calls, Publish(c)
      PROVE  Stored' /\ \A r \in Requests : Placed(r) => Placed(r)'
  <2>1. Request(c) \in Requests BY <1>0, RequestType
  <2>2. outcome[c] # {} /\ \A o \in outcome[c] : Sound(o) /\ o.request = Request(c)
    BY <1>3 DEF Publish, IInv, Mine, Assembled, Answer
  <2>3. entries' = [entries EXCEPT ![Request(c)] = outcome[c]] /\ tampered' = tampered \ {Request(c)}
    BY <1>3 DEF Publish
  <2>4. \A r \in Requests : entries'[r] = IF r = Request(c) THEN outcome[c] ELSE entries[r]
    BY <1>0, <2>1, <2>3 DEF TypeOK
  <2>5. Stored'
    BY <1>0, <2>2, <2>3, <2>4 DEF Stored, Sound
  <2> QED BY <2>2, <2>3, <2>4, <2>5 DEF Placed
<1>4. ASSUME NEW r \in Requests, Tamper(r)
      PROVE  Stored' /\ \A s \in Requests : Placed(s) => Placed(s)'
  <2>1. tampered' = tampered \cup {r} BY <1>4 DEF Tamper
  <2>2. \A s \in Requests \ {r} : entries'[s] = entries[s] BY <1>0, <1>4 DEF TypeOK, Tamper
  <2>3. ASSUME NEW p \in entries'[r] PROVE p.intact => Sound(p)
    <3>1. CASE entries' = [entries EXCEPT ![r] = {}] BY <1>0, <2>3, <3>1 DEF TypeOK
    <3>2. CASE \E from \in Requests : \E o \in entries[from] :
              entries' = [entries EXCEPT ![r] = {IF from = r THEN [o EXCEPT !.intact = FALSE] ELSE o}]
      <4>0. PICK from \in Requests : \E o \in entries[from] :
              entries' = [entries EXCEPT ![r] = {IF from = r THEN [o EXCEPT !.intact = FALSE] ELSE o}]
        BY <3>2
      <4>1. PICK o \in entries[from] :
              entries' = [entries EXCEPT ![r] = {IF from = r THEN [o EXCEPT !.intact = FALSE] ELSE o}]
        BY <4>0
      <4>2. p = IF from = r THEN [o EXCEPT !.intact = FALSE] ELSE o BY <1>0, <2>3, <4>1 DEF TypeOK
      <4>3. o \in Outcomes /\ (o.intact => Sound(o)) BY <1>0, <4>1 DEF TypeOK, Stored
      <4>4. ~[o EXCEPT !.intact = FALSE].intact BY <4>3 DEF Outcomes
      <4> QED BY <4>2, <4>3, <4>4
    <3> QED BY <1>4, <3>1, <3>2 DEF Tamper
  <2>4. ASSUME NEW s \in Requests, NEW p \in entries'[s]
        PROVE  (p.intact => Sound(p)) /\ (s \notin tampered' => p.intact /\ p.request = s)
    <3>1. CASE s = r BY <2>1, <2>3, <2>4, <3>1
    <3>2. CASE s # r BY <1>0, <2>1, <2>2, <2>4, <3>2 DEF Stored
    <3> QED BY <3>1, <3>2
  <2>5. Stored' BY <2>4 DEF Stored, Sound
  <2> QED BY <2>1, <2>2, <2>5 DEF Placed
<1>5. CASE Retool BY <1>1, <1>5 DEF Retool
<1>6. CASE UNCHANGED vars BY <1>1, <1>6 DEF vars
<1> QED BY <1>1, <1>2, <1>3, <1>4, <1>5, <1>6 DEF Next

-----------------------------------------------------------------------------
\* A step in which c keeps its arguments, what it has and what it has reported.
Keeps(c) ==
    /\ pc'[c] = pc[c] /\ (c \in prepared') = (c \in prepared) /\ declared'[c] = declared[c] /\ done'[c] = done[c]
    /\ outcome'[c] = outcome[c] /\ result'[c] = result[c]

LEMMA SameRequest ==
    ASSUME NEW c \in Calls, arguments' = arguments, declared'[c] = declared[c]
    PROVE  /\ Request(c)' = Request(c) /\ Units(c)' = Units(c) /\ Cached(c)' = Cached(c)
           /\ \A o : Answer(c, o)' = Answer(c, o)
BY DEF Request, Units, Cached, Source, Answer, Sound

LEMMA Kept ==
    ASSUME IInv, [Next]_vars, arguments' = arguments, NEW c \in Calls, Keeps(c)
    PROVE  Mine(c)'
<1>1. Mine(c) /\ Request(c) \in Requests BY RequestType DEF IInv
<1>2. /\ Request(c)' = Request(c) /\ Units(c)' = Units(c) /\ Cached(c)' = Cached(c)
      /\ \A o : Answer(c, o)' = Answer(c, o)
  BY SameRequest DEF Keeps
<1>3. Placed(Request(c)) => Placed(Request(c))' BY <1>1, <1>2, StoredStep DEF Placed
<1>4. Preparing(c)' /\ Inferring(c)' BY <1>1, <1>2 DEF Mine, Preparing, Inferring, Keeps
<1>5. Assembled(c)' BY <1>1, <1>2 DEF Mine, Assembled, Keeps
<1>6. Reported(c)' BY <1>1, <1>2, <1>3 DEF Mine, Reported, Keeps, Result
<1>7. Evidence(c)' BY <1>1, <1>2 DEF Mine, Evidence, RetrievalFailed, Strongest, Keeps, Sound
<1> QED BY <1>4, <1>5, <1>6, <1>7 DEF Mine

\* A step of one call is a step of no other.
LEMMA OthersStep ==
    ASSUME IInv, NEW c \in Calls, Step(c) \/ Crash(c), NEW d \in Calls, d # c
    PROVE  Mine(d)'
<1> USE DEF Goto, End, Finish, Fail, environment, work
<1>1. TypeOK BY DEF IInv
<1>2. [Next]_vars BY DEF Next
<1>3. arguments' = arguments /\ Keeps(d)
  <2> USE <1>1 DEF TypeOK, Keeps
  <2>1. CASE Crash(c) BY <2>1 DEF Crash
  <2>2. CASE Prepare(c) \/ PrepareFails(c) \/ PreparationInvalid(c) \/ Raise(c)
    BY <2>2 DEF Prepare, PrepareFails, PreparationInvalid, Raise
  <2>3. CASE EmptyText(c) BY <2>3 DEF EmptyText
  <2>4. CASE NoParser(c) \/ Ineligible(c) \/ Declare(c) \/ Bypass(c)
    BY <2>4 DEF NoParser, Ineligible, Declare, Bypass
  <2>5. CASE Miss(c) \/ Hit(c) \/ Unusable(c) BY <2>5 DEF Miss, Hit, Unusable
  <2>6. CASE Infer(c) \/ InferFails(c) \/ Recombine(c) \/ RecombineFails(c) \/ CheckFails(c)
    BY <2>6 DEF Infer, InferFails, Recombine, RecombineFails, CheckFails
  <2>7. CASE Assemble(c) BY <2>7 DEF Assemble
  <2>8. CASE Write(c) \/ Publish(c) \/ Sync(c) \/ StoreFails(c)
    BY <2>8 DEF Write, Publish, Sync, StoreFails
  <2> QED BY <2>1, <2>2, <2>3, <2>4, <2>5, <2>6, <2>7, <2>8 DEF Step
<1> QED BY <1>2, <1>3, Kept

\* A step that ends a call with evidence of what it had completed.
LEMMA FailingWith ==
    ASSUME IInv, NEW c \in Calls, NEW stage, NEW completed,
           Finish(c, Result("failed", stage, completed, {})),
           UNCHANGED <<environment, declared, done, outcome>>,
           completed = IF stage = "cache_retrieval" /\ (Units(c) = 0 \/ declared[c] # NotUsed)
                       THEN "nothing" ELSE Strongest(c)'
    PROVE  Mine(c)'
<1>1. TypeOK /\ Mine(c) BY DEF IInv
<1>2. pc'[c] = "ended" /\ result'[c] = Result("failed", stage, completed, {})
  BY <1>1 DEF Finish, Goto, TypeOK
<1>3. arguments' = arguments /\ declared' = declared /\ done' = done /\ outcome' = outcome
  BY DEF environment
<1>4. Units(c)' = Units(c) /\ \A o : Answer(c, o)' = Answer(c, o) BY <1>3, SameRequest
<1>5. Preparing(c)' /\ Inferring(c)' BY <1>2 DEF Preparing, Inferring
<1>6. Assembled(c)' BY <1>1, <1>2, <1>3, <1>4 DEF Mine, Assembled
<1>7. Reported(c)' BY <1>2 DEF Reported, Result
<1>8. Evidence(c)'
  <2>1. result'[c].completed = completed /\ result'[c].stage = stage BY <1>2 DEF Result
  <2>2. RetrievalFailed(c)' = (stage = "cache_retrieval" /\ (Units(c) = 0 \/ declared[c] # NotUsed))
    BY <1>3, <1>4, <2>1 DEF RetrievalFailed
  <2> QED BY <2>1, <2>2 DEF Evidence
<1> QED BY <1>5, <1>6, <1>7, <1>8 DEF Mine

LEMMA Failing ==
    ASSUME IInv, NEW c \in Calls, NEW stage, NEW completed, Fail(c, stage, completed),
           completed = IF stage = "cache_retrieval" /\ (Units(c) = 0 \/ declared[c] # NotUsed)
                       THEN "nothing" ELSE Strongest(c)
    PROVE  Mine(c)'
<1>1. Strongest(c)' = Strongest(c) BY DEF Fail, environment, work, Strongest, Sound, Units, Source
<1> QED BY <1>1, FailingWith DEF Fail, work

\* A step that ends a call in another way.
LEMMA Ending ==
    ASSUME IInv, [Next]_vars, NEW c \in Calls, NEW kind, NEW answer,
           End(c, kind, answer), kind # "failed",
           arguments' = arguments, declared' = declared,
           \A o \in answer : Answer(c, o), \A o \in outcome'[c] : Answer(c, o),
           kind = "written" => Placed(Request(c))
    PROVE  Mine(c)'
<1>1. TypeOK /\ Mine(c) /\ Request(c) \in Requests BY RequestType DEF IInv
<1>2. pc'[c] = "ended" /\ result'[c] = Result(kind, "none", "nothing", answer)
  BY <1>1 DEF End, Finish, Goto, TypeOK
<1>3. /\ Request(c)' = Request(c) /\ \A o : Answer(c, o)' = Answer(c, o) BY SameRequest
<1>4. Preparing(c)' /\ Inferring(c)' BY <1>2 DEF Preparing, Inferring
<1>5. Assembled(c)' BY <1>2, <1>3 DEF Assembled
<1>6. Placed(Request(c)) => Placed(Request(c))' BY <1>1, <1>3, StoredStep DEF Placed
<1>7. Reported(c)' BY <1>2, <1>3, <1>6 DEF Reported, Result
<1>8. Evidence(c)' BY <1>2 DEF Evidence, Result
<1> QED BY <1>4, <1>5, <1>7, <1>8 DEF Mine

\* A step after which a call goes on.
LEMMA Moving ==
    ASSUME IInv, NEW c \in Calls, pc[c] # "ended", pc'[c] # "ended", result' = result,
           pc'[c] = "sync" => Placed(Request(c))'
    PROVE  Reported(c)' /\ Evidence(c)'
<1>1. result[c] = Result("running", "none", "nothing", {}) BY DEF IInv, Mine, Reported
<1> QED BY <1>1 DEF Reported, Evidence, Result

LEMMA OwnStep ==
    ASSUME IInv, NEW c \in Calls, Step(c) \/ Crash(c)
    PROVE  Mine(c)'
<1>0. TypeOK /\ Stored /\ Request(c) \in Requests /\ Units(c) \in Nat
  BY RequestType DEF IInv
<1>1. Preparing(c) /\ Inferring(c) /\ Assembled(c) /\ Reported(c) BY DEF IInv, Mine
<1>2. [Next]_vars BY DEF Next
<1>3. ASSUME arguments' = arguments, declared' = declared
      PROVE  /\ Request(c)' = Request(c) /\ Units(c)' = Units(c) /\ Cached(c)' = Cached(c)
             /\ \A o : Answer(c, o)' = Answer(c, o)
  BY <1>3, SameRequest
<1>4. ASSUME NEW to, Goto(c, to) PROVE pc'[c] = to
  BY <1>0, <1>4 DEF TypeOK, Goto
<1>5. ASSUME NEW to, Goto(c, to), to \notin {"ended", "sync"}, pc[c] # "ended", result' = result,
             arguments' = arguments, declared' = declared, done' = done, outcome' = outcome,
             c \in prepared',
             to = "prepared" => done[c] = <<>> /\ outcome[c] = {} /\ declared[c] = NotUsed,
             to \in {"infer", "check"} => Units(c) > 0 /\ outcome[c] = {},
             to = "infer" => Len(done[c]) <= Units(c),
             to = "check" => /\ Len(done[c]) = Units(c)
                             /\ \A u \in 1..Units(c) : done[c][u] = done[c][1],
             to \in {"write", "publish"} => outcome[c] # {} /\ Cached(c),
             to \notin {"acquired", "load"}
      PROVE  Mine(c)'
  <2>1. pc'[c] = to BY <1>4, <1>5
  <2>2. Preparing(c)' /\ Inferring(c)' BY <1>3, <1>5, <2>1 DEF Preparing, Inferring
  <2>3. Assembled(c)' BY <1>1, <1>3, <1>5, <2>1 DEF Assembled
  <2>4. Reported(c)' /\ Evidence(c)' BY <1>5, <2>1, Moving
  <2> QED BY <2>2, <2>3, <2>4 DEF Mine
<1>6. CASE Prepare(c)
  BY <1>1, <1>5, <1>6 DEF Prepare, Preparing, Inferring, Assembled, environment
<1>7. CASE PrepareFails(c) \/ PreparationInvalid(c)
  <2>1. outcome[c] = {} /\ ~(Units(c) > 0 /\ Len(done[c]) = Units(c)) /\ c \notin prepared
    BY <1>0, <1>1, <1>7 DEF PrepareFails, PreparationInvalid, Preparing, Inferring, Assembled
  <2>2. CASE PrepareFails(c)
    <3>1. Strongest(c) = "acquisition" BY <2>1 DEF Strongest
    <3> QED BY <2>2, <3>1, Failing DEF PrepareFails
  <2>3. CASE PreparationInvalid(c)
    <3>1. Strongest(c)' = "preparation"
      BY <2>1, <2>3 DEF PreparationInvalid, Strongest, Units, Source, environment
    <3> QED BY <2>3, <3>1, FailingWith DEF PreparationInvalid
  <2> QED BY <1>7, <2>2, <2>3
<1>8. CASE Raise(c) BY <1>1, <1>2, <1>8, Ending DEF Raise, Assembled, environment, work
<1>9. CASE Crash(c) BY <1>1, <1>2, <1>9, Ending DEF Crash, Assembled, environment, work
<1>10. CASE EmptyText(c)
  <2>1. <<>> \in Seq(Models) OBVIOUS
  <2>2. PICK o : o = Outcome(Request(c), <<>>) OBVIOUS
  <2>3. outcome'[c] = {o} BY <1>0, <1>10, <2>2 DEF EmptyText, TypeOK
  <2>4. o.request = Request(c) /\ o.units = <<>> /\ o.intact BY <1>0, <2>1, <2>2, OutcomeType
  <2>5. Answer(c, o)
    BY <1>10, <2>4 DEF EmptyText, Answer, Sound, Request, Source, Units
  <2>6. /\ arguments' = arguments /\ declared' = declared /\ done' = done /\ prepared' = prepared
        /\ pc[c] = "prepared" /\ Units(c) = 0
    BY <1>10 DEF EmptyText, environment
  <2>7. CASE Cached(c)
    <3>1. pc'[c] = "load" /\ result' = result BY <1>4, <1>10, <2>7 DEF EmptyText
    <3>2. Preparing(c)' /\ Inferring(c)' BY <1>1, <1>3, <2>6, <3>1 DEF Preparing, Inferring
    <3>3. Assembled(c)' BY <1>0, <1>3, <2>3, <2>5, <2>6, <2>7, <3>1 DEF Assembled
    <3> QED BY <2>6, <3>1, <3>2, <3>3, Moving DEF Mine
  <2>8. CASE ~Cached(c)
    <3>1. End(c, "bypass", outcome'[c]) BY <1>10, <2>8 DEF EmptyText
    <3> QED BY <1>2, <2>3, <2>5, <2>6, <3>1, Ending
  <2> QED BY <2>7, <2>8
<1>11. CASE NoParser(c) \/ Ineligible(c)
  <2>1. pc[c] = "prepared" /\ Units(c) > 0 BY <1>11 DEF NoParser, Ineligible
  <2>2. Strongest(c) = "preparation" BY <1>0, <1>1, <2>1 DEF Strongest, Preparing, Inferring, Assembled
  <2>3. declared[c] = NotUsed /\ Units(c) # 0 BY <1>0, <1>1, <2>1 DEF Preparing
  <2>4. CASE NoParser(c) BY <2>2, <2>4, Failing DEF NoParser
  <2>5. CASE Ineligible(c) BY <2>2, <2>3, <2>5, Failing DEF Ineligible
  <2> QED BY <1>11, <2>4, <2>5
<1>12. CASE Declare(c)
  <2>1. /\ arguments' = arguments /\ done' = done /\ outcome' = outcome /\ result' = result
        /\ prepared' = prepared /\ declared'[c] = model
        /\ pc[c] = "prepared" /\ pc'[c] = "load" /\ Units(c) > 0 /\ Cached(c)
    BY <1>0, <1>4, <1>12 DEF Declare, environment, TypeOK
  <2>2. Units(c)' = Units(c) /\ Cached(c)' = Cached(c) BY <2>1 DEF Units, Source, Cached
  <2>3. Preparing(c)' /\ Inferring(c)'
    BY <1>0, <1>1, <2>1, IngestAssumption DEF Preparing, Inferring, TypeOK
  <2>4. Assembled(c)' BY <1>1, <2>1, <2>2 DEF Assembled
  <2> QED BY <2>1, <2>3, <2>4, Moving DEF Mine
<1>13. CASE Bypass(c) BY <1>0, <1>1, <1>5, <1>13 DEF Bypass, Preparing, Inferring, Assembled, environment, work
<1>14. CASE Miss(c)
  <2>1. CASE Units(c) = 0 BY <1>1, <1>5, <1>14, <2>1 DEF Miss, Preparing, Assembled, environment, work
  <2>2. CASE Units(c) # 0 BY <1>0, <1>1, <1>5, <1>14, <2>2 DEF Miss, Preparing, Inferring, Assembled, environment, work
  <2> QED BY <2>1, <2>2
<1>15. CASE Hit(c)
  <2>1. PICK o \in entries[Request(c)] : Accepts(c, o) /\ End(c, "hit", {o})
    BY <1>15 DEF Hit
  <2>2. Answer(c, o) BY <1>0, <2>1 DEF Accepts, Stored, Answer, Request
  <2>3. outcome' = outcome /\ arguments' = arguments /\ declared' = declared
    BY <1>15 DEF Hit, environment, work
  <2>4. \A p \in outcome[c] : Answer(c, p) BY <1>1 DEF Assembled
  <2> QED BY <1>2, <2>1, <2>2, <2>3, <2>4, Ending
<1>16. CASE Unusable(c) BY <1>1, <1>16, Failing DEF Unusable, Preparing
<1>17. CASE Infer(c)
  <2>1. /\ arguments' = arguments /\ declared' = declared /\ outcome' = outcome /\ result' = result
        /\ prepared' = prepared /\ pc' = pc /\ pc[c] = "infer" /\ Len(done[c]) < Units(c)
    BY <1>17 DEF Infer, environment
  <2>2. done'[c] = Append(done[c], model) BY <1>0, <1>17 DEF Infer, TypeOK
  <2>3. Len(done'[c]) = Len(done[c]) + 1 BY <1>0, <2>2 DEF TypeOK
  <2>4. Len(done[c]) \in Nat BY <1>0 DEF TypeOK
  <2>5. Preparing(c)' /\ Inferring(c)'
    BY <1>0, <1>1, <1>3, <2>1, <2>3, <2>4 DEF Preparing, Inferring
  <2>6. Assembled(c)' BY <1>1, <1>3, <2>1 DEF Assembled
  <2> QED BY <2>1, <2>5, <2>6, Moving DEF Mine
<1>18. CASE InferFails(c)
  <2>1. Len(done[c]) \in Nat BY <1>0 DEF TypeOK
  <2>2. Strongest(c) = "preparation"
    BY <1>0, <1>1, <1>18, <2>1 DEF InferFails, Strongest, Preparing, Assembled
  <2> QED BY <1>18, <2>2, Failing DEF InferFails
<1>19. CASE Recombine(c)
  BY <1>1, <1>5, <1>19 DEF Recombine, Inferred, Preparing, Inferring, Assembled, environment, work
<1>20. CASE RecombineFails(c) \/ CheckFails(c)
  <2>1. outcome[c] = {} /\ Units(c) > 0 /\ Len(done[c]) = Units(c)
    BY <1>1, <1>20 DEF RecombineFails, CheckFails, Inferred, Inferring, Assembled
  <2>2. Strongest(c) = "inference" BY <2>1 DEF Strongest
  <2>3. PICK stage \in {"assembly", "validation"} : Fail(c, stage, "inference")
    BY <1>20 DEF RecombineFails, CheckFails
  <2> QED BY <2>2, <2>3, Failing
<1>21. CASE Assemble(c)
  <2>1. /\ Len(done[c]) = Units(c) /\ Units(c) > 0 /\ \A u \in 1..Units(c) : done[c][u] = done[c][1]
        /\ pc[c] = "check"
    BY <1>1, <1>21 DEF Assemble, Inferring
  <2>2. done[c] \in Seq(Models) /\ done[c][1] \in Models BY <1>0, <2>1 DEF TypeOK
  <2>3. PICK r : r = [source |-> Source(c), model |-> done[c][1]] OBVIOUS
  <2>4. r \in Requests BY <1>0, <2>2, <2>3 DEF Requests, Source, TypeOK
  <2>5. PICK o : o = Outcome(r, done[c]) OBVIOUS
  <2>6. o.request = r /\ o.units = done[c] /\ o.intact BY <2>2, <2>4, <2>5, OutcomeType
  <2>7. Sound(o) /\ o.request.source = Source(c)
    BY <1>0, <2>1, <2>2, <2>3, <2>6 DEF Sound, Units
  <2>8. Cached(c) => o.request = Request(c) BY <1>0, <1>21, <2>1, <2>3, <2>6 DEF Assemble, Request
  <2>9. Answer(c, o) BY <2>7, <2>8 DEF Answer
  <2>10. outcome'[c] = {o} BY <1>0, <1>21, <2>3, <2>5 DEF Assemble, TypeOK
  <2>11. arguments' = arguments /\ declared' = declared /\ prepared' = prepared
    BY <1>21 DEF Assemble, environment
  <2>12. CASE Cached(c)
    <3>1. pc'[c] = "write" /\ result' = result BY <1>4, <1>21, <2>12 DEF Assemble
    <3>2. Preparing(c)' /\ Inferring(c)' BY <1>1, <2>1, <2>11, <3>1 DEF Preparing, Inferring
    <3>3. Assembled(c)' BY <1>3, <2>9, <2>10, <2>11, <2>12, <3>1 DEF Assembled
    <3> QED BY <2>1, <3>1, <3>2, <3>3, Moving DEF Mine
  <2>13. CASE ~Cached(c)
    <3>1. End(c, "bypass", outcome'[c]) BY <1>21, <2>13 DEF Assemble
    <3> QED BY <1>2, <2>9, <2>10, <2>11, <3>1, Ending
  <2> QED BY <2>12, <2>13
<1>22. CASE Write(c) BY <1>1, <1>5, <1>22 DEF Write, Preparing, Assembled, environment, work
<1>23. CASE Publish(c)
  <2>1. /\ arguments' = arguments /\ declared' = declared /\ outcome' = outcome /\ result' = result
        /\ prepared' = prepared /\ pc'[c] = "sync" /\ pc[c] = "publish"
    BY <1>4, <1>23 DEF Publish, work
  <2>2. entries'[Request(c)] = outcome[c] BY <1>0, <1>23 DEF Publish, TypeOK
  <2>3. Preparing(c)' /\ Inferring(c)' BY <1>1, <2>1 DEF Preparing, Inferring
  <2>4. Assembled(c)' BY <1>1, <1>3, <2>1 DEF Assembled
  <2>5. Placed(Request(c))' BY <1>1, <1>3, <2>1, <2>2 DEF Assembled, Placed
  <2> QED BY <2>1, <2>3, <2>4, <2>5, Moving DEF Mine
<1>24. CASE Sync(c)
  <2>1. Placed(Request(c)) /\ \A o \in outcome[c] : Answer(c, o)
    BY <1>1, <1>24 DEF Sync, Reported, Assembled
  <2>2. /\ End(c, "written", outcome[c])
        /\ outcome' = outcome /\ arguments' = arguments /\ declared' = declared
    BY <1>24 DEF Sync, environment, work
  <2> QED BY <1>2, <2>1, <2>2, Ending
<1>25. CASE StoreFails(c)
  <2>1. Strongest(c) = "assembly" BY <1>1, <1>25 DEF StoreFails, Strongest, Assembled, Answer
  <2> QED BY <1>25, <2>1, Failing DEF StoreFails
<1> QED BY <1>6, <1>7, <1>8, <1>9, <1>10, <1>11, <1>12, <1>13, <1>14, <1>15, <1>16, <1>17, <1>18, <1>19,
           <1>20, <1>21, <1>22, <1>23, <1>24, <1>25 DEF Step

LEMMA Inductive == IInv /\ [Next]_vars => IInv'
<1> SUFFICES ASSUME IInv, [Next]_vars PROVE IInv'
    OBVIOUS
<1>1. TypeOK' /\ Stored' BY TypeStep, StoredStep
<1>2. ASSUME NEW c \in Calls PROVE Mine(c)'
  <2>1. CASE \E d \in Calls : Step(d) \/ Crash(d) BY <1>2, <2>1, OwnStep, OthersStep
  <2>2. CASE Retool BY <1>2, <2>2, Kept DEF Retool, Keeps, work
  <2>3. CASE \E r \in Requests : Tamper(r) BY <1>2, <2>3, Kept DEF Tamper, Keeps, work
  <2>4. CASE UNCHANGED vars BY <1>2, <2>4, Kept DEF vars, Keeps, work
  <2> QED BY <2>1, <2>2, <2>3, <2>4 DEF Next
<1> QED BY <1>1, <1>2 DEF IInv

LEMMA Invariant == Spec => []IInv
BY Initially, Inductive, PTL DEF Spec

-----------------------------------------------------------------------------
\* Types, of service, files and calls, for any calls, sources and models.
THEOREM Typed == Spec => []TypeOK
<1>1. IInv => TypeOK BY DEF IInv
<1> QED BY Invariant, <1>1, PTL

(***************************************************************************)
(* ProductionIngestCache: a file that others have not touched holds        *)
(* nothing or a sound outcome for its own request, and what was reported   *)
(* as written is there unless others took it away.                         *)
(***************************************************************************)
THEOREM Entries == Spec => []EntriesSound
<1>1. IInv => EntriesSound BY DEF IInv, Stored, EntriesSound, Mine, Reported, Placed
<1> QED BY Invariant, <1>1, PTL

(***************************************************************************)
(* analyse: an answer is sound and about what was asked, with whatever     *)
(* changes of the parser and whatever damage to the files.                 *)
(***************************************************************************)
THEOREM Answers == Spec => []AnswersSound
<1>1. IInv => AnswersSound BY DEF IInv, AnswersSound, Mine, Reported, Answer
<1> QED BY Invariant, <1>1, PTL

(***************************************************************************)
(* ProductionFailure.completed: every failure carries exactly the last     *)
(* stage that its call had completed; only one that could not retrieve an  *)
(* entry of its request carries nothing.                                   *)
(***************************************************************************)
THEOREM Completed == Spec => []EvidenceExact
<1>1. IInv => EvidenceExact BY DEF IInv, EvidenceExact, Mine, Evidence
<1> QED BY Invariant, <1>1, PTL
=============================================================================
