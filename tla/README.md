# Verification of the Rhetorical Discourse Analysis Machine (rdam)

rdam analyses a text with up to seven discourse techniques (RST, SDRT, PDTB, Toulmin, Walton, IBIS,
Dung) and returns one aggregate with one outcome per technique. This directory holds TLA+ modules
of its shared runtime, TLC configurations that check them on small instances, and TLAPS proofs for
every value of their constants. Source references are relative to the repository root; `rdam/` is
the package. `PROJECT.json` maps every definition to the lines it models and lists the hazards
with the properties that cover them.

## 1. Inventory

How a request flows: the command line (`cli.py`) or the loopback HTTP adapter (`http.py`) builds a
request and calls `Machine.analyse` (`machine.py`). The machine prepares the source once (ingest),
hands every technique to a thread of its own pool, and each of these threads goes through the result
cache (`_result_cache.py`), a provider's lock and the provider. SDRT, PDTB, Toulmin and Walton
providers call a language model through `StructuredAnalyst` (`_llm.py`); RST runs neural parsers;
IBIS and Dung compute on structures the caller supplies. The command line publishes the serialized
aggregate with `OutputDestination` (`_output.py`).

| Component | State it keeps | Operations | What is hard | What makes it correct |
|---|---|---|---|---|
| Result cache, single flight (`_result_cache.py:48-64`) | process-wide registry key -> (lock, users), one guard | enter and leave the flight of a key | entries dropped and recreated while threads wait | one thread per key inside; entries count their users; no growth |
| Result cache, entries (`_result_cache.py:66-132`) | one file per key, temporary files | load, discard, store | crashes, I/O errors at every call, other processes | never a partial entry; nothing left behind but by a crash or a failing removal; a stored result is in place when it is returned |
| Machine (`machine.py:152-342`) | per call: pool, futures, outcomes | prepare, submit, collect, cancel, assemble | three kinds of waiting (pool, flight, provider lock), failures and bugs in any order | complete aggregate or an exception; no repeated or overlapping provider calls; every call ends |
| Registry of provider locks (`machine.py:69-70, 433-452`) | id(provider) -> weak reference to a lock | share or create, remove by callback | garbage collection in any thread, reuse of ids, late callbacks | one lock per live provider; dead entries go |
| HTTP adapter (`http.py:132-244`) | `busy`, set of jobs | refuse, admit, read body, run, answer, drain | coroutine cancelled while its thread runs, every exit of the body loop, shutdown | one POST at a time; the slot comes back; GETs stay responsive |
| LLM boundary (`_llm.py`) | one agent, built on first use; evidence per extraction | extract, retry, deadline | lazily built object shared by threads, nested retry budgets | a validated proposal or a typed error; bounded attempts |
| Output publication (`_output.py`) | target file, temporary, `published` and `owned` flags | validate, publish | interrupts between two calls, other publishers | no clobbering, whole or nothing, a truthful report |
| Ingest service and cache (`ingest/service.py`, `ingest/cache.py`) | cache files | prepare, plan, infer per unit, recombine, enrich, validate, store | each stage's failure reports what was completed; declared against actual identity | only validated outcomes are stored, under the identity that took part |
| Planning and recombination (`ingest/subdivision.py`, `ingest/recombination.py`) | none | group segments into units; renumber and join unit trees | boundary arithmetic, offsets | units partition the segments within capacity; one tree over all units |
| RST decoders and tree construction (`rst/*_parser`, `rst/utils/du_converter.py`) | decoder stacks | decode, convert, remap to source | order of relations, forced steps | one binary tree with one leaf per unit |
| Hierarchical stitching (`rst/hierarchical/stitcher.py`) | none | detect sections, stitch | indices by position, empty analyses | each section's tree hangs where the macro tree says |
| SDRT, Dung, IBIS structures (`sdrt/graph.py`, `dung/semantics.py`, `ibis/grammar.py`) | none | validate, evaluate | fixed points, cycles, capacity | right frontier; least fixed point; grammar of links |
| Model store (`workbench/promotion/promote.py`, `compatibility.py`, `rst/model_loading/release.py`, `rst/provider.py`) | directories of releases, re-declarations beside them, temporary ones; per provider what it inspected and loaded | promote a candidate, re-declare compatibility, inspect, load | no lock between programs, candidates that change, kills between two calls | a release is whole, verified and immutable; what runs is what was declared |
| Contracts, identities, serialization, interpretation, ontology, viewer | immutable data | validate, project, render | wording and formats, not control | canonical identities |
| Neural networks, workbench, tools, scripts | weights, corpora | train, infer, evaluate | outside a model checker's reach | - |

Interactions that matter: the flight of a cache key is held while a provider's lock is awaited
(`machine.py:297-305`, `318`); the registry of provider locks and that of flights are shared by
all machines of a process; the cache directory is shared by processes, which nothing excludes from
each other, and so are the ingest cache's directory and the model store; one plan decides which units the
parser sees and how their trees are renumbered; the HTTP adapter calls the machine from a thread that outlives its coroutine.

## 2. Modules

One specification per component; abstract specifications state what it promises.

| Module | Models | Implements |
|---|---|---|
| `SingleFlight` | `ResultCache.single_flight` | `KeyMutex`: a mutex per cache identity |
| `ResultCacheEntry` | `ResultCache.load`, `store`, `_discard` inside the flight | - |
| `Machine` | `Machine.analyse`, `_analyse_one`, `_call_provider` | `AggregateContract`: outcomes are decided once, an aggregate is complete |
| `ProviderLocks` | `_provider_lock`, `_remove_provider_lock` | - |
| `HttpServer` | `create_app`: endpoint, callback, lifespan | - |
| `StructuredAnalyst` | `extract`, `_built`, retries, deadline | - |
| `OutputPublish` | `OutputDestination` as `cli.main` uses it | - |
| `ModelStore` | `promote_model_release`, `redeclare_compatibility`, `validate_model_release`, the loading half of `RstProvider` | - |
| `IngestPipeline` | `ProductionIngestor.analyse` and `analyse_prepared`, `ProductionIngestCache` | - |
| `AnalysisPlanning` | `build_analysis_plan` | - |
| `RstDecoder` | both decoders, `DUConverter`, the check of the leaves, `du_to_analysis` | - |
| `RstDocument` | planning, decoding and joining of a document: recombination and stitching; composes the two above | - |
| `SdrtGraph` | the validators of `SdrtAnalysis` | a declarative well-formedness (`VerdictExact`) |
| `DungSemantics` | `evaluate` | the definitions of the semantics |

`MC<Module>` modules give the constants that a .cfg cannot express; `<Module>Proofs` hold the
theorems. `MCStructures` and `MCPublications` are one TLC instance each for modules that share
nothing: their initial state picks the part that a behaviour takes (`part`, `published_by`), the others
stay idle. `PublicationProofs` holds the theorems of `OutputPublish` and of `ModelStore`, `ProviderProofs` those
of `ProviderLocks` and of `StructuredAnalyst`, `StructureProofs` those of `DungSemantics`,
`AnalysisPlanning`, `RstDecoder` with `RstDocument`, and `SdrtGraph`. Operators named `<Action>_<Bug>` are mutants: each is the action with one plausible bug,
and the property listed with it in `PROJECT.json` fails when it replaces the action.

**SingleFlight.** `guard`, `regLock`, `regRefs` are `_LOCK_REGISTRY_GUARD` and the two halves of
`_LOCK_REGISTRY`'s values; `pc`, `want`, `lock`, `readLock`, `readRefs` are the locals of each
thread in `single_flight`. Each guarded section is two steps (read, write back) so that the guard
has something to protect. `KeyMutex` sees only who is inside the body.

**ResultCacheEntry.** One key. `entry` is what the path holds: nothing, a whole, a damaged or a
historical record, or a prefix of one; `temp` and `orphans` are temporary files. Every file
operation is a step; those named in `Failing` may fail, the removal of a temporary file in the finally
clause included (`UndoTemp`, which then leaves the file and ends the thread as "littered"), and `Crash`
may end a process at any step, after which its threads try again. Records are not modelled beyond these kinds. The mutex assumed
of each process is the one `SingleFlight` implements.

**Machine.** A job `<<c, i>>` is the future of the i-th technique of call `c`; its state says where
`_analyse_one` is (queued, waiting for the flight, loading, waiting for the provider, calling,
storing, done). `caller` is the main thread: submitting, collecting in completion order, or
cancelling after an exception that is not a provider's typed failure, then waiting for the pool.
`MaxWorkers` gives each call its pool's size, which may be less than the techniques it asks for.
Preparation is one step that succeeds or fails; lineage and the reading guide are functions of the
outcomes and are left out. Load and store are single steps, as `ResultCacheEntry` shows for one
process; what other processes do to the directory is studied there.

**ProviderLocks.** A lock is named by the machine whose construction created it. `Deallocate` is
CPython's immediate destruction of a last reference, `Collect` the cycle collector in any thread,
`callback` the pending call of `_remove_provider_lock` in that thread, which can do nothing else
until it returns. Two providers may have one id if they do not live at the same time.

**HttpServer.** An action is what the event loop does between two awaits, or a step of an executor
thread. `jobs` and `busy` are the closure's variables; `worker` is the task of
`asyncio.to_thread`; `Finished` is the task's own callback, which runs before the shielded
coroutine wakes. uvicorn (stops accepting, cancels coroutines, then runs the lifespan's end) is
modelled from how the code uses it.

**StructuredAnalyst.** `agent` is `self._agent`: absent, built but without output validator, or
complete. The agent run is pydantic-ai's: `turns` and `refused` count its model requests and the
proposals handed back. `runs`, `outputs`, `requests` are `transport_runs` and the evidence counters.
`output_retries` is a budget of each agent run, so a transport retry renews it
(`tests/llm/test_llm_boundary.py` expects that many attempts).

**OutputPublish.** Each call inside `publish` is a step; an `OSError` leaves the body with what the
flag `published` says at that moment (`Fail`), a `KeyboardInterrupt` leaves it anywhere (`Interrupt`),
and both go through `Clean`, the finally clause, which may fail or be interrupted itself ("littered"). `target` is what the name is in each directory,
`parent` the directory the path leads to and `directory` the one a publisher has opened, so that the
comparison of the two (`Compare`) has something to find. Each `validate` is one step.

**ModelStore.** One release id. A directory is its manifest, which inventories one version of the
weights, and its weights; `Valid` is `validate_model_release` with the re-declaration beside the
directory. `candidate`, `copy`, `release` are the directory a promoter is given, its `.promotion-`
directory and the one that has the release's name; `beside` and `draft` are
`<release_id>.compatibility.json` and its temporary file, which all redeclarers share. `activity` says
where a promoter or redeclarer is, `seen` what it holds in a local (the candidate's manifest, its own
re-declaration), `result` what it ended with. `write_bytes` is two steps: `OpenDraft` makes or empties
the file of that name, `WriteDraft` writes into the file that was opened (`opened`), wherever it is by
then; `text` is what each file holds, which two writers of one file may leave mixed. A redeclarer whose
draft has been moved away by another one fails in its own rename and is "overtaken". `Train` changes a candidate while it is promoted,
`Abort` is any exception or interrupt of the promoter's body, `StopWorker` a kill or an error that no
handler of the program catches; some workers never come. A provider's inspection and its load are
one step each because it does them under its own lock; that lock excludes nobody else.

**IngestPipeline.** `prepared` are the calls that hold an assembled preparation, a valid one or one
that its validation refused. The `source` of a call stands for everything that its request digest is made of but
the model: text, preparation, policy, plan, capacity; `model` is the composite identity of all
components that take part. `UnitsOf` gives the length of the plan. The results of the units arrive one
by one (`Infer`), each with the model that ran at that moment, which `Retool` may change; within one
unit the model is fixed. `entries` are the cache's files, one per request; others may delete, damage
or copy them (`Tamper`), processes may die (`Crash`). A result names the kind of the answer, for a
failure its stage (classification and planning count as preparation) and the evidence of what was
completed, and the outcome handed over. Exceptions that no handler turns into such a failure
end a call as "raised" (`Raise`), at every place where the code is outside a try.

**AnalysisPlanning.** One step makes one group: the longest prefix that fits, cut back to the last
preferred boundary. A segment is its estimated demand and the rank of the boundary it opens; separators
alternate with source segments, as `prepare.py` makes them. An empty text is never planned.

**RstDecoder, RstDocument.** Scores are choices: every split the top-down decoder's pointer may choose,
every shift or reduction the bottom-up one may make unless it is forced. `DUConverter` takes the first
relation for the root and looks the others up by their spans; the predictor refuses a tree whose leaves
are not the unit's EDUs. `RstDocument` plans a document, parses its units one after another and joins
their trees under a root (`recombine_parser_results`), or parses sections and a text of their
summaries and hangs the sections at the leaves of that tree (`stitch_trees`). Numbers of nodes, spans
and splits are kept; labels, offsets of text, signals, tokens and secondary edges are not. The counters
that the code carries from unit to unit are running totals (`Totals`), and a node's number leads back to
its unit and its number there (`UnitOf`, `LocalOf`), so that both joins are functions of the number
(`Recombined`, `Stitched`).

**SdrtGraph.** The depth-first searches run with an explicit stack in any order of the adjacency; the
right frontier grows by one unit at a time in any order. Verdicts are compared with a definition that
knows no order.

**DungSemantics.** The grounded extension is a loop, one round per step; complete extensions are
enumerated in one step, unless the framework exceeds the provider's capacity; preferred and stable
ones are selected from them as `evaluate` does.

## 3. Checked runs

| Run | Instance | Shows |
|---|---|---|
| `single_flight` | 3 threads, 2 identities, 3 lock objects | exact user counts, the mutex refinement (hence one body per identity), and that a body that never ends delays only its own identity |
| `cache_entry` | 3 threads of one process, every initial entry, 2 crashes, all file operations except reading may fail, the removal of a temporary file included | never partial, stray files only from removals that fail and one from each crash, one computation, whole entries stay, a stored result is in place when its mode is set, every thread ends |
| `machine` | either 3 calls for a cached and serialized `rst`, two of them about one source, of which one asks for a second technique as well and has 1 worker for both; or 2 calls for 2 techniques each, with 2 workers and with 1 | no repeated or overlapping calls of a provider, nothing left behind by a call that returned or raised, every call ends, the aggregate contract, with a pool smaller than its request too |
| `http_admission` | 3 POSTs (2, 1, 0 bytes), 2 GETs (one malformed), pool of 2 | one POST at a time, exact flag, quiet after stop, the slot comes back, GETs are answered |
| `analyst` | 2 threads, 1 output retry, 1 transport retry, 3 requests per run | both retry budgets hold together, every extraction ends |
| `provider_locks` | 4 machines on 3 providers, 2 sharing an id in turn, cycles allowed | one lock per provider, entries go, only a self-wait blocks |
| `publications` | either 2 publishers of one path, one with force, 2 directories, any initial targets, 2 changes by other programs; or 2 promoters, 2 redeclarers (three of the four at work), 1 provider, 3 versions of which 2 are compatible, any initial release, 1 change of a candidate | whole records only, no clobbering without force, true reports, no litter after a cleanup but the empty file of an interrupt before `owned`; the release is whole and verified, named by the receipt and by what runs, immutable, and loadable under what is beside it unless a redeclarer was killed or overtaken |
| `ingest` | 2 calls with or without a cache directory, texts of 2, 1 and 0 units, 3 models of which 2 are immutable, 2 interferences | only sound outcomes are kept under their own request, no call gets another one's answer, every failure hands over exactly what was completed, and nothing only when an entry cannot be retrieved |
| `structures` | all frameworks of up to 3 arguments, capacities 2 and 3; discourse graphs of up to 3 EDUs and 2 complex units of at least 2 members; documents of up to 3 segments with 2 demands and 2 ranks, 5 capacities, 2 margins, up to 3 EDUs per unit, up to 3 sections, both decoders | least grounded extension, extensions as defined, exact verdicts, lossless plans within capacity, trees over all EDUs, one whole joined tree |

The bounds are the smallest at which each conflict occurs: a third thread is needed to meet an entry
that is dropped while another waits; a third call to queue at the provider's lock behind a job that
holds a flight a second call awaits; a second POST to be refused and a third to be admitted
afterwards; two retries of different kinds to multiply; a fourth machine to make the collector run a
callback for a foreign lock inside the guarded section; two changes by other programs to pass a check
and undo it; two promoters of different versions to race for one id and two redeclarers to take each
other's draft or write into one that is placed; one worker for two techniques to queue within a call; two units to be answered by different models and two interferences to exchange a model
and damage an entry; three EDUs for a decoder to have a choice and three sections for a wrong offset to
differ from a right one. Two crashes let a process die again while it
recovers. `MaxCrashes`, `MaxMeddling`, `MaxEdits`, `MaxEdus`, `MaxSections`, `RequestLimit` and `MaxChunk` are bounds of the models or parameters of
the code (the request limit is pydantic-ai's); nothing else is cut off. The answer "unavailable" of
`Machine` is not taken in the run (`Unavailable` is empty); the proofs cover it.

`machine` starts with the calls outside its group rejected (`GroupsInit`), a state that `Reject` reaches.

`CHECK_DEADLOCK FALSE` appears for `provider_locks`, where a thread may wait for itself (see below), and
for `ingest` and `structures`, whose computations end. Symmetry is used in `ingest` and `publications`
only, which check no liveness.

### Disagreements between code and documents

Three runs check a sentence of the documentation and find it violated.

* `cache_damage_race` - "Invalid cache entries are reported and recomputed" (README.md:268-269). Two
  processes find the same damaged entry; the discard of the slower one removes what the faster one
  has stored, and its `chmod` (`_result_cache.py:106`) raises, so the recomputed result is lost.
* `machine_hiding` - "A failure in one technique never hides a result in another" (README.md:59).
  A store that fails with an `OSError` (`machine.py:305`) is not a typed failure: `analyse` raises and
  every other outcome of the call is lost.
* `analyst_validator_race` - the validator accepts every output (`_llm.py:5-6`). The agent is
  published (`_llm.py:372`) before its validator is registered (`_llm.py:378`), and read without the
  lock (`_llm.py:368`). This can happen to Toulmin and Walton, whose agent is built by the first
  extraction; SDRT and PDTB build theirs under a lock of their own.

Other things that the models show and no run isolates:

* The callback of a provider's lock takes a guard that is not reentrant (`machine.py:449`) and can run
  in the thread that holds it, when the collector is triggered inside `_provider_lock` and frees a
  machine that was part of a cycle. That thread waits for itself: the exception in `OnlySelfWaitBlocks`
  and `EntriesGo`.
* The converter takes the first relation for the root (`du_converter.py:48`), the bottom-up decoder
  lists the root last (`parsing_net_bottom_up.py:307-308`). A bottom-up model's trees of three and more
  EDUs are refused by the predictor's check of the leaves, never shortened (`TreesCoverEdus`).
* `service.py:265` promises one typed failure per stage; what lies outside every try can raise an
  untyped `ValueError` or `OSError` (`service.py:269`, `308`, `388`, `424`; `cache.py:53`), the kind "raised"
  of `IngestPipeline`. So can the removal of the temporary file while a failed store is cleaned up
  (`cache.py:150`), which hides the typed failure and the outcome it would hand over.
* An ingest outcome whose directory sync fails after the rename is reported as not persisted although
  the entry is there (`cache.py:123-147`), while the evidence of the outcome handed over says it was
  written (`service.py:528`). A damaged entry of this cache is never removed (`cache.py:66-97`): every
  later call of its request fails until somebody deletes it.
* A promotion that fails after the rename finds its temporary directory gone: `rmtree`
  (`promote.py:149`) raises `FileNotFoundError` in place of the error, and the release stays.
* `compatibility.py:5-7` says that a re-declaration "proves the release now loads before returning". Two
  redeclarers share a temporary name and test before they replace (`compatibility.py:58-62`): one may
  place the other's draft, replace a re-declaration that has been proved and reported, and unlink it. When
  both have opened the name, one may write, replace, prove and return while the other then writes into
  the file that is already placed; its own `replace` raises outside the try that would withdraw it. What
  was proved is overwritten, the release may not load although nobody is at work, and no later
  re-declaration is accepted. This is the redeclarer "overtaken" of `ModelStore`, the exception of
  `RedeclarationsAreProven` beside one that was killed at work; otherwise what stays is never worse than none.
* An entry that is refused or cannot be read fails without evidence (`cache.py:216-224`), although the caller
  holds the preparation and its other failures of the same stage carry it (`service.py:340`, `361`);
  "every failure contains ... the strongest completed-evidence variant permitted by the failed stage"
  (`specs/004-production-api-contract/contracts/production-api-v2.md:366-373`). `EvidenceExact` states the one
  case apart (`RetrievalFailed`).
* A provider keeps the outcome of its first inspection for its lifetime (`rst/provider.py:154-166`): a
  release that is promoted or re-declared later is not seen.

### Fairness

* `SingleFlight`: a thread inside the registry's code proceeds; nothing is assumed of the body.
* `ResultCacheEntry`: a thread proceeds whatever it does; a provider call ends. For the model
  boundary that is `StructuredAnalyst`'s `EveryExtractionEnds`; the other providers compute.
* `Machine`: while some step of a main thread or worker is possible one is taken. All behaviours
  are finite, so this is enough and no lock needs to be fair. A caller need not call.
* `HttpServer`: what has arrived is handled, the loop runs its callbacks, the total deadline ends a
  body, an executor with a free thread takes a queued call (strong: others may take it first), and
  the operation of a GET ends. Nothing is assumed of a POST's operation, of clients or of interrupts.
* `StructuredAnalyst`: threads run and the deadline passes. Nothing is assumed of the model, the
  network or a server's `retry-after`.
* `ProviderLocks`: the guard, held for a few instructions, does not starve a thread (strong fairness
  of `Construct` and `RemoveLock`), and garbage is collected some time.
* `OutputPublish`, `ModelStore`, `IngestPipeline`, `RstDocument`, `SdrtGraph`, `DungSemantics`: none; all
  their properties are safety.

## 4. Proofs

All theorems are for arbitrary constants under the module's named assumption. Each invariant comes
from an inductive one, such as `IInv`: `Init => IInv`, `IInv /\ [Next]_vars => IInv'` (a lemma per action or
group of actions), and `IInv` implies the property.

| Module | Theorems | Why the invariant needs strengthening |
|---|---|---|
| `SingleFlightProofs` | `Typing`, `MutualExclusion`, `ExactCounts`, `Refinement` | two bodies exclude each other only because every thread counted for a key works with the lock of its entry (`SharedLockInv`), entries have different locks (`DistinctLocksInv`), and what was read under the guard is still true (`GuardInv`, `ReadInv`); the counts need cardinalities of sets that gain or lose one element |
| `ResultCacheEntryProofs` | `NeverPartial`, `TempsRemoved`; `OneComputation`, `StoredIsReturned`, `EntryStays` | a renamed file is whole and owned by its thread, and a file that is left belongs to a thread whose removal failed or is counted by a crash (`TempInv`); the flight is exactly the thread inside (`FlightInv`). The last three hold under `Alone`: one process uses the directory and reading does not fail, which is what the two hypotheses of the run are. Without it `cache_damage_race` refutes them |
| `MachineProofs` | `NothingHeld`, `CallsNotRepeated`, `ProvidersSerialized`, `Refinement` | who is where must agree with who holds what (`FlightInv`, `ProviderInv`); a job that missed the cache still misses it because it holds the flight (`MissInv`); the cancelling loop leaves no queued job behind its cursor (`CallerInv`), and an exception stays in a future, so an aborted call is incomplete (`CollectedInv`) |
| `HttpServerProofs` | `Admission`, `FlagExact`, `Drained` | exclusion and the exactness of the flag are inductive only together, with the set of jobs being exactly the unfinished workers of POSTs (`JobsInv`) and the order of a request's phases (`PhaseInv`) |
| `ProviderProofs`, locks | `OneLock`, `Registered` | ids are unique among providers in use (`IdsInv`), a lock belongs to machines on one provider (`LocksInv`), and what the registry would give out is held by somebody (`RegistryInv`) |
| `ProviderProofs`, analyst | `Bounded` | what earlier runs may have spent is paid by their number, what the current one has spent by its turns and refused proposals, with one output more where a run ends in one (`BudgetOf`); products of constants need the two facts of `BudgetFacts` |
| `PublicationProofs`, output | `Typing`, `Atomic`, `TrueReport`, `CleanedUp`, `NothingClobbered` | each phase of `publish` fixes what the temporary file is (`Written`), whether the record has appeared and the flag says so (`Publication`), that nothing has been reported (`Reported`) and who removes the file, after an interrupt too (`Accounted`) |
| `PublicationProofs`, store | `StoreTyping`, `Verified`, `Immutable`, `Proven` | a copy that was verified is one whole version, the one whose manifest was seen, and stays so until it is renamed (`Promotion`); what a provider declared is the release, which never changes (`Provider`); re-declarations come after the release (`Redeclared`), so a new release never meets one. Re-declarations are in one of three situations (`Handled`): a redeclarer was overtaken or killed (`Spoiled`, for good); several share the temporary file, one of which will be (`Crowded`); or each writes a file of its own, nobody writes into one that is placed, and whoever placed it is still to prove or withdraw it or has done so (`Orderly`) |
| `IngestPipelineProofs` | `Typed`, `Entries`, `Answers`, `Completed` | an outcome is sound from its assembly on (`Assembled`), results of the units are counted while they arrive (`Inferring`), files hold sound or visibly damaged outcomes (`Stored`), what a call has declared and prepared follows from its phase (`Preparing`), which with the counts and outcomes gives the last completed stage at every place where a call can fail (`Evidence`); what is reported is what was there (`Reported`) |
| `StructureProofs`, Dung | `Grounded`, `LeastFixedPoint`, `Growing`, `Extensions` | every round supports itself, is free of conflicts and lies below every complete extension, because the characteristic function is monotone (`GroundedInv`); every admissible set lies in a maximal one, by finiteness, and a maximal admissible set is complete |
| `StructureProofs`, planning | `PlansKept`, `LosslessPlans`, `LosslessDocuments` | that the next group is not empty and starts with source text holds because segments alternate (`Prepared`), the groups so far are contiguous and end at `start` (`GroupsWhole`), and a plan that was not refused has no segment beyond capacity (`Feasible`). `PlanInv` is these and what each status says of the groups (`Settled`) |
| `StructureProofs`, decoding and joining | `DocumentsKept`, `TreesCovered`, `JoinedWhole` | a tree is whole only because of what was emitted before it: relations nest and none has the span of another (`ValidRelations`); a span of the top-down decoder is emitted, on the stack or one EDU, so an empty stack leaves nothing open (`TopDown`); the bottom-up stack is adjacent trees up to the next EDU (`BottomUp`). `DecoderInv` is these and what the stage says of the tree. `DocumentInv` adds that parsing waits for the plan, that each tree collected is binary over as many EDUs as its unit may have, and so will be the one in the decoder (`PartsParsed`): without it the macro tree need not have one leaf for each section, nor a unit the EDUs that the plan gave it |
| `StructureProofs`, SDRT | `Verdicts`, `ExactVerdicts` | the stack search finds a cycle exactly if there is one because the expanded visits are a path (`EnteredIsPath`), what they lead to awaits above them (`TargetsAwait`) and what has been left lies on no cycle (`DoneIsAcyclic`); `Frontier` says that what has been added belongs to every closed set and `Passed` what earlier validators have established |

`StructureProofs` reasons about loops and recursive functions. The library's induction theorems cannot be used
(their predicate is a parameter), so its first section derives what is needed from `WFMin`, that a set of naturals
that is not empty has a least element: `Induct` (a set with zero and all successors is all of `Nat`),
`Iteration` (steps can be repeated, which gives each recursive function of the models its value), `Saturation`
(an ascending chain in a finite set stops) and, for the recursion over spans and over nodes, `FixedPoint`: a
definition that looks only at arguments of a smaller measure has a solution. About trees, `PostOrder` is the shape
that `Constituents` produces for a span; `Joined` shows that two such lists and their span make another one, and
`ConstituentsInOrder`, `WalkNumbers` and `TreeOfConstituents` carry it through the converter and
`du_to_analysis` to `IsTreeOver`. About joined trees, `EntryFacts` shows that running totals give each
number to exactly one unit; a tree that keeps the units' nodes (`Carries`) has below each of them what was below it
in the unit (`PartChildren`, `PartDivided`), so that only the nodes above the units' roots are left:
the one of `RecombinedIsWhole`, or the macro tree's inner nodes of `StitchedIsWhole`, whose numbers are
distinct from each other and from the sections' (`MacroNumbers`). Each inductive invariant was an invariant of TLC on the instance of the run
`structures` before it was proved.

The assumptions say what the arguments are: segments have a demand that is not zero and texts are not empty
(`PlanningAssumption`; `prepare.py` and `max(1, ...)` in `subdivision.py:122`), bounds are naturals
(`DecoderAssumption`, `DocumentAssumption`), and members and relations of a proposed discourse graph are units
of it, no complex unit being its own member (`ProposalsAssumption`; the contracts of `graph.py`).

Only model-checked: all liveness (`SomebodyGetsIn`, `EveryThreadEnds`, `EveryCallEnds`, `SlotComesBack`,
`GetsAnswered`, `EveryExtractionEnds`, `EntriesGo`, `OnlySelfWaitBlocks`), since the prover handles
neither fairness nor ENABLED. Every safety property of the passing runs has its theorem;
`MutualExclusion` (implied by the refinement that is checked) and `Registered` (what `OneLock` rests on) are proved without a property of a run.

## 5. Not modelled

`PROJECT.json` lists every component with its reason. In short: data without steps (contracts,
validators, canonical JSON, interpretation, ontology, viewers), format conversions of ingest, neural
networks (their answers are nondeterministic choices), and everything outside the package
(workbench, tools, scripts). Within modelled parts: timings, lineage and messages;
identities are equal or different, nothing more; what a power failure does to files that were not
synced; `_execution` policies only as the number of workers. Of ingest: what enrichment adds, the
experiment ledger, the temporary files of crashed stores, which nobody reads. Of RST
documents: sections whose analysis is empty, which the stitcher leaves out (`stitcher.py:265-269`); tokens, signals, secondary edges, scores, and where sections begin; `detect_sections`
drops EDUs and tokens that straddle a boundary (`stitcher.py:98-124`), which is an input here. Of SDRT
and IBIS: checks of single records. Of the store: other ids than one, symbolic links, the fields of a
manifest, tensors. `PDTB`, Toulmin, Walton and IBIS appear as techniques of `Machine` only.

## 6. Plan

What is left, in the order in which it adds most.

1. The experiment ledger of the workbench (`workbench/research/erst/runner.py`, `run_comparison.py`,
   `run_final_evaluation.py`), with crashes between the run directory, the receipt and the index. The
   directory is made first and its existence refuses a second attempt, so each test partition is evaluated
   at most once; but an interrupted run never reaches the index, in which it should remain
   (`specs/001-forensic-remediation/experiment-protocol.md:139`).
2. `ResultCacheEntry` in one process implements an atomic cache, the one `Machine` assumes, as a
   refinement; the same for the ingest cache.
3. `detect_sections` with EDUs that straddle a boundary, in front of `RstDocument`, against the property
   that every EDU belongs to one section.
4. The IBIS grammar and the validators of Toulmin and Walton arguments next to `SdrtGraph`, each against
   a declarative definition.
