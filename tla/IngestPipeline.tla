--------------------------- MODULE IngestPipeline ---------------------------
(***************************************************************************)
(* ProductionIngestor.analyse and analyse_prepared (rdam/ingest/service.py)*)
(* with the durable cache of production outcomes (rdam/ingest/cache.py).   *)
(* Calls run in any number of threads and processes over one directory and *)
(* no lock is held between them.  The request under which an outcome is    *)
(* kept is built from the identity that the parser declares before it is   *)
(* run; which model takes part is known from its results only, one result  *)
(* for each unit of the plan, and may have changed in the meantime.        *)
(*                                                                         *)
(* Source, preparation, policy, plan and capacity of a request are one     *)
(* value, its source; the composite identity of all components is a model. *)
(***************************************************************************)
EXTENDS Naturals, Sequences, FiniteSets

CONSTANTS
    Calls, Sources, Models,
    NotUsed,        \* the identity in a request about an empty text
    Immutable,      \* the models whose identity is durable_cache_eligible
    UnitsOf,        \* how many units the plan of each source has; 0 for an empty text
    MaxMeddling     \* bound on what the environment does

ASSUME IngestAssumption ==
    /\ NotUsed \notin Models /\ Immutable \subseteq Models
    /\ UnitsOf \in [Sources -> Nat] /\ MaxMeddling \in Nat

VARIABLES
    arguments,   \* of each call: its source and whether it has a cache_directory
    parser,      \* of the service: "absent", "opaque" or "describing" (AnalysisIdentityProvider)
    model,       \* what the parser would run at the moment
    entries,     \* what the file of each request holds: nothing or one outcome
    tampered,    \* the requests whose file was last changed by others
    meddling,    \* how often the environment has interfered
    prepared,    \* the calls that hold an assembled preparation
    pc, declared, done, outcome,    \* of each call: the model declared, those of its results
    result
work == <<prepared, declared, done, outcome>>
vars == <<arguments, parser, model, entries, tampered, meddling, pc, work, result>>
environment == <<arguments, parser, model, tampered, entries, meddling>>

Requests == [source : Sources, model : Models \cup {NotUsed}]
Outcomes == [request : Requests, units : Seq(Models), intact : BOOLEAN]
Result(kind, stage, completed, answer) ==
    [kind |-> kind, stage |-> stage, completed |-> completed, answer |-> answer]

Source(c) == arguments[c].source
Cached(c) == arguments[c].cached
Units(c) == UnitsOf[Source(c)]
Request(c) == [source |-> Source(c), model |-> IF Units(c) = 0 THEN NotUsed ELSE declared[c]]
Outcome(request, units) == [request |-> request, units |-> units, intact |-> TRUE]

Init ==
    /\ arguments \in [Calls -> [source : Sources, cached : BOOLEAN]]
    /\ parser \in {"absent", "opaque", "describing"} /\ model \in Models
    /\ entries = [r \in Requests |-> {}] /\ tampered = {} /\ meddling = 0
    /\ prepared = {} /\ pc = [c \in Calls |-> "acquired"]
    /\ declared = [c \in Calls |-> NotUsed]
    /\ done = [c \in Calls |-> <<>>]
    /\ outcome = [c \in Calls |-> {}]
    /\ result = [c \in Calls |-> Result("running", "none", "nothing", {})]

Goto(c, to) == pc' = [pc EXCEPT ![c] = to]
Finish(c, end) == Goto(c, "ended") /\ result' = [result EXCEPT ![c] = end]
End(c, kind, answer) == Finish(c, Result(kind, "none", "nothing", answer))
\* ProductionIngestError: the failed stage and the evidence of the stages completed before it.
Fail(c, stage, completed) ==
    Finish(c, Result("failed", stage, completed, {})) /\ UNCHANGED <<environment, work>>

-----------------------------------------------------------------------------
\* The source is classified, prepared, planned for the capacity that the parser declares, and
\* the preparation validated; or the caller supplies its preparation.
Prepare(c) ==
    /\ pc[c] = "acquired" /\ Goto(c, "prepared") /\ prepared' = prepared \cup {c}
    /\ UNCHANGED <<environment, declared, done, outcome, result>>

PrepareFails(c) == pc[c] = "acquired" /\ Fail(c, "preparation", "acquisition")

\* The assembled preparation is refused by its validation, which hands it over.
PreparationInvalid(c) ==
    /\ pc[c] = "acquired" /\ prepared' = prepared \cup {c}
    /\ Finish(c, Result("failed", "validation", "preparation", {}))
    /\ UNCHANGED <<environment, declared, done, outcome>>

\* An exception outside every try: a preparation of another source, a formalism other than
\* rst_tree, components that cannot be described, a unit without EDUs, a path that cannot be
\* looked up, a request or outcome that refuses its parts; or the removal of a temporary
\* file that fails while a failed store is cleaned up.
Raise(c) ==
    /\ pc[c] \in {"acquired", "prepared", "load", "infer", "check", "write", "publish"}
    /\ End(c, "raised", {})
    /\ UNCHANGED <<environment, work>>

EmptyText(c) ==
    /\ pc[c] = "prepared" /\ Units(c) = 0
    /\ outcome' = [outcome EXCEPT ![c] = {Outcome(Request(c), <<>>)}]
    /\ IF Cached(c) THEN Goto(c, "load") /\ result' = result
                       ELSE End(c, "bypass", outcome'[c])
    /\ UNCHANGED <<environment, prepared, declared, done>>

NoParser(c) ==
    /\ pc[c] = "prepared" /\ Units(c) > 0 /\ parser = "absent"
    /\ Fail(c, "inference", "preparation")

\* The parser describes no identity, or one that is not immutable.
Ineligible(c) ==
    /\ pc[c] = "prepared" /\ Units(c) > 0 /\ Cached(c)
    /\ parser = "opaque" \/ (parser = "describing" /\ model \notin Immutable)
    /\ Fail(c, "cache_retrieval", "preparation")

Declare(c) ==
    /\ pc[c] = "prepared" /\ Units(c) > 0 /\ Cached(c)
    /\ parser = "describing" /\ model \in Immutable
    /\ declared' = [declared EXCEPT ![c] = model]
    /\ Goto(c, "load")
    /\ UNCHANGED <<environment, prepared, done, outcome, result>>

Bypass(c) ==
    /\ pc[c] = "prepared" /\ Units(c) > 0 /\ ~Cached(c) /\ parser # "absent"
    /\ Goto(c, "infer")
    /\ UNCHANGED <<environment, work, result>>

-----------------------------------------------------------------------------
\* ProductionIngestCache.load
Miss(c) ==
    /\ pc[c] = "load" /\ entries[Request(c)] = {}
    /\ Goto(c, IF Units(c) = 0 THEN "write" ELSE "infer")
    /\ UNCHANGED <<environment, work, result>>

\* Mutant: the request inside the record is not compared with the key.
Accepts_AnyRequest(c, o) == o.intact
Accepts(c, o) == o.intact /\ o.request = Request(c)

Hit(c) ==
    /\ pc[c] = "load"
    /\ \E o \in entries[Request(c)] : Accepts(c, o) /\ End(c, "hit", {o})
    /\ UNCHANGED <<environment, work>>

\* It cannot be read, or is refused; either way it stays where it is.  The cache knows the
\* request only: the failure carries nothing of what its caller holds.
Unusable(c) ==
    pc[c] = "load" /\ entries[Request(c)] # {} /\ Fail(c, "cache_retrieval", "nothing")

-----------------------------------------------------------------------------
\* _analyse_parser_unit, for one unit after the other.
Infer(c) ==
    /\ pc[c] = "infer" /\ Len(done[c]) < Units(c)
    /\ done' = [done EXCEPT ![c] = Append(@, model)]
    /\ UNCHANGED <<environment, pc, prepared, declared, outcome, result>>

InferFails(c) ==
    pc[c] = "infer" /\ Len(done[c]) < Units(c) /\ Fail(c, "inference", "preparation")

Inferred(c) == pc[c] = "infer" /\ Len(done[c]) = Units(c)

\* recombine_parser_results refuses results of different models, and may fail otherwise;
\* the single result of an undivided document is not recombined.
\* Mutant: the results' identities are not compared.
Recombine_Mixed(c) ==
    /\ Inferred(c) /\ Goto(c, "check")
    /\ UNCHANGED <<environment, work, result>>
Recombine(c) ==
    /\ Inferred(c) /\ \A u \in 1..Units(c) : done[c][u] = done[c][1]
    /\ Goto(c, "check")
    /\ UNCHANGED <<environment, work, result>>

RecombineFails(c) == Inferred(c) /\ Units(c) > 1 /\ Fail(c, "assembly", "inference")

\* Enrichment or the validation receipt fails, or another model took part than was declared.
CheckFails(c) ==
    /\ pc[c] = "check"
    /\ \E stage \in {"assembly", "validation"} : Fail(c, stage, "inference")

\* Mutant: the declared identity is trusted.
Assemble_Trusting(c) ==
    /\ pc[c] = "check"
    /\ outcome' = [outcome EXCEPT ![c] =
           {Outcome(IF Cached(c) THEN Request(c) ELSE [source |-> Source(c), model |-> done[c][1]], done[c])}]
    /\ IF Cached(c) THEN Goto(c, "write") /\ result' = result
                       ELSE End(c, "bypass", outcome'[c])
    /\ UNCHANGED <<environment, prepared, declared, done>>
Assemble(c) ==
    /\ pc[c] = "check" /\ (Cached(c) => declared[c] = done[c][1])
    /\ outcome' = [outcome EXCEPT ![c] = {Outcome([source |-> Source(c), model |-> done[c][1]], done[c])}]
    /\ IF Cached(c) THEN Goto(c, "write") /\ result' = result
                       ELSE End(c, "bypass", outcome'[c])
    /\ UNCHANGED <<environment, prepared, declared, done>>

-----------------------------------------------------------------------------
(***************************************************************************)
(* ProductionIngestCache.store: a temporary file, complete on disk before  *)
(* it takes the entry's name.  An error may come after the entry is        *)
(* visible, when the directory is synchronized.  Before that the temporary *)
(* file is removed, and if it cannot be, the failure of the removal hides  *)
(* that of the store (Raise).                                              *)
(***************************************************************************)
Write(c) ==
    /\ pc[c] = "write" /\ Goto(c, "publish")
    /\ UNCHANGED <<environment, work, result>>

Publish(c) ==
    /\ pc[c] = "publish"
    /\ entries' = [entries EXCEPT ![Request(c)] = outcome[c]]
    /\ tampered' = tampered \ {Request(c)}
    /\ Goto(c, "sync")
    /\ UNCHANGED <<arguments, parser, model, meddling, work, result>>

Sync(c) ==
    /\ pc[c] = "sync" /\ End(c, "written", outcome[c])
    /\ UNCHANGED <<environment, work>>

\* Mutant: the failure does not hand over the outcome that could not be stored.
StoreFails_DropsOutcome(c) ==
    pc[c] \in {"write", "publish", "sync"} /\ Fail(c, "persistence", "nothing")
StoreFails(c) == pc[c] \in {"write", "publish", "sync"} /\ Fail(c, "persistence", "assembly")

-----------------------------------------------------------------------------
Crash(c) ==
    /\ pc[c] # "ended" /\ End(c, "crashed", {})
    /\ UNCHANGED <<environment, work>>

\* A component of the parser is replaced.
Retool ==
    /\ meddling < MaxMeddling /\ meddling' = meddling + 1
    /\ model' \in Models \ {model}
    /\ UNCHANGED <<arguments, parser, entries, tampered, pc, work, result>>

\* Another program deletes an entry, damages it, or copies one over another.
Tamper(r) ==
    /\ meddling < MaxMeddling /\ meddling' = meddling + 1
    /\ \/ entries[r] # {} /\ entries' = [entries EXCEPT ![r] = {}]
       \/ \E from \in Requests : \E o \in entries[from] :
              entries' = [entries EXCEPT ![r] = {IF from = r THEN [o EXCEPT !.intact = FALSE] ELSE o}]
    /\ tampered' = tampered \cup {r}
    /\ UNCHANGED <<arguments, parser, model, pc, work, result>>

Step(c) ==
    \/ Prepare(c) \/ PrepareFails(c) \/ PreparationInvalid(c) \/ Raise(c)
    \/ EmptyText(c) \/ NoParser(c) \/ Ineligible(c) \/ Declare(c) \/ Bypass(c)
    \/ Miss(c) \/ Hit(c) \/ Unusable(c)
    \/ Infer(c) \/ InferFails(c) \/ Recombine(c) \/ RecombineFails(c) \/ CheckFails(c) \/ Assemble(c)
    \/ Write(c) \/ Publish(c) \/ Sync(c) \/ StoreFails(c)
Next == (\E c \in Calls : Step(c) \/ Crash(c)) \/ Retool \/ (\E r \in Requests : Tamper(r))
Spec == Init /\ [][Next]_vars

-----------------------------------------------------------------------------
\* Every unit of the source was analysed, and by the model that the request names.
Sound(o) ==
    /\ o.intact /\ Len(o.units) = UnitsOf[o.request.source]
    /\ \A u \in DOMAIN o.units : o.units[u] = o.request.model

(***************************************************************************)
(* Whatever calls and crashes overlap and whenever the parser changes, a   *)
(* file that others have not touched holds nothing or a complete outcome   *)
(* for its own request, made by the model the request names ("Only a fully *)
(* validated canonical outcome is stored"), and what was reported as       *)
(* written is there unless others took it away.                            *)
(***************************************************************************)
EntriesSound ==
    /\ \A r \in Requests \ tampered : \A o \in entries[r] : Sound(o) /\ o.request = r
    /\ \A c \in Calls : result[c].kind = "written" =>
           entries[Request(c)] # {} \/ Request(c) \in tampered

(***************************************************************************)
(* An answer, computed or found, is about the caller's source, complete    *)
(* and by one model, with a cache the one the parser declared; a damaged   *)
(* or exchanged entry never becomes one ("Retrieval verifies ...").        *)
(***************************************************************************)
AnswersSound ==
    \A c \in Calls : \A o \in result[c].answer :
        /\ Sound(o) /\ o.request.source = Source(c)
        /\ Cached(c) => o.request = Request(c)

\* The last stage that the call has completed.
Strongest(c) ==
    IF \E o \in outcome[c] : Sound(o) THEN "assembly"
    ELSE IF Units(c) > 0 /\ Len(done[c]) = Units(c) THEN "inference"
    ELSE IF c \in prepared THEN "preparation" ELSE "acquisition"

\* The retrieval failed of a call that had built its request.
RetrievalFailed(c) ==
    result[c].stage = "cache_retrieval" /\ (Units(c) = 0 \/ declared[c] # NotUsed)

(***************************************************************************)
(* A failure hands over what the call had really completed, no more and    *)
(* no less: the source, the preparation, the results of all units, or the  *)
(* sound outcome that could not be stored ("Completed evidence is          *)
(* monotonic").  Only the failed retrieval of an entry hands over nothing. *)
(***************************************************************************)
EvidenceExact ==
    \A c \in Calls : result[c].kind = "failed" =>
        result[c].completed = IF RetrievalFailed(c) THEN "nothing" ELSE Strongest(c)
=============================================================================
