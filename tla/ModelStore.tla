------------------------------ MODULE ModelStore ------------------------------
(***************************************************************************)
(* The store of model releases, as three programs use it: promotion copies *)
(* a candidate into it (workbench/promotion/promote.py), re-declaration    *)
(* records beside a release that other package versions may load it        *)
(* (workbench/promotion/compatibility.py), and the RST provider validates  *)
(* and loads it (rdam/rst/provider.py, rdam/rst/model_loading/release.py). *)
(* No lock is shared.  One release id; a directory is its manifest, which  *)
(* inventories the version of the weights, and its weights.                *)
(***************************************************************************)
EXTENDS Naturals

CONSTANTS
    Promoters, Redeclarers, Providers,
    Versions,
    Compatible,     \* the versions whose manifest admits the installed package
    Missing,        \* a member that is not (yet) there
    MaxEdits        \* bound on changes to candidates by those who train them

ASSUME StoreAssumption ==
    /\ Promoters \cap Redeclarers = {}
    /\ Missing \notin Versions /\ Compatible \subseteq Versions /\ MaxEdits \in Nat

VARIABLES
    candidate,      \* the directory that each promoter is given
    copy,           \* its temporary directory in the store, if any
    release,        \* the directory with the release's name, if any
    beside, draft,  \* the file beside it and the file with the temporary name, if any
    text,           \* what each file holds, named by the redeclarer who created it
    opened,         \* the file that each redeclarer has opened to write, if any
    activity,       \* of each promoter and redeclarer
    seen,           \* the manifest it validated; the re-declaration it writes
    result,         \* "none", "receipt" or "error"
    inspected,      \* the providers whose _local_release_checked is set
    declared,       \* the manifest of their _validated_local_release, if any
    parser,         \* the directory they have loaded, if any
    edits
files_beside == <<beside, draft, text, opened>>
store == <<release, files_beside>>
workers == <<activity, seen, result>>
providers == <<inspected, declared, parser>>
training == <<candidate, edits>>
storeVars == <<store, copy, workers, providers, training>>

Members == {"manifest", "weights"}
Contents == [Members -> Versions \cup {Missing}]
Redeclarations == [manifest : Versions \cup {Missing}, admits : BOOLEAN, by : Redeclarers]
Workers == Promoters \cup Redeclarers
\* "overtaken": another redeclarer has moved the temporary file away.
Ended == {"ended", "stopped", "overtaken"}

\* Two texts that load as no re-declaration: none yet, and two over each other.
Empty(f) == [manifest |-> Missing, admits |-> FALSE, by |-> f]
Mixed(f) == [manifest |-> Missing, admits |-> TRUE, by |-> f]

\* What is read beside the release.
Beside == {text[f] : f \in beside}

Whole(v) == [m \in Members |-> v]

\* validate_model_release of a directory with the re-declarations beside it.
Valid(d, redeclarations) ==
    /\ d.manifest \in Versions /\ d = Whole(d.manifest)
    /\ redeclarations = {} => d.manifest \in Compatible
    /\ \A r \in redeclarations : r.manifest = d.manifest /\ r.admits

StoreInit ==
    /\ candidate \in [Promoters -> [Members -> Versions]]
    /\ copy = [p \in Promoters |-> {}]
    /\ release \in {{}} \cup {{Whole(v)} : v \in Versions}
    /\ beside = {} /\ draft = {}
    /\ text = [r \in Redeclarers |-> Empty(r)] /\ opened = [r \in Redeclarers |-> {}]
    /\ activity \in [Workers -> {"starting", "ended"}]     \* some never come
    /\ seen = [w \in Workers |-> {}]
    /\ result = [w \in Workers |-> "none"]
    /\ inspected = {} /\ edits = 0
    /\ declared = [v \in Providers |-> {}] /\ parser = [v \in Providers |-> {}]

Move(w, from, to) == activity[w] = from /\ activity' = [activity EXCEPT ![w] = to]
Report(w, kind) == result' = [result EXCEPT ![w] = kind]
Forget(w) == seen' = [seen EXCEPT ![w] = {}]
Refuse(w, from) == Move(w, from, "ended") /\ Report(w, "error") /\ Forget(w)

-----------------------------------------------------------------------------
(***************************************************************************)
(* promote_model_release                                                   *)
(***************************************************************************)
\* The candidate must be valid; it is not locked.
Inventory(p) ==
    /\ IF Valid(candidate[p], {})
           THEN /\ Move(p, "starting", "reserving")
                /\ seen' = [seen EXCEPT ![p] = {candidate[p].manifest}]
                /\ UNCHANGED result
           ELSE Refuse(p, "starting")
    /\ UNCHANGED <<store, copy, providers, training>>

\* Refused if the destination exists; then mkdtemp.
Reserve(p) ==
    /\ IF release = {}
           THEN /\ Move(p, "reserving", "copying")
                /\ copy' = [copy EXCEPT ![p] = {Whole(Missing)}]
                /\ UNCHANGED <<seen, result>>
           ELSE Refuse(p, "reserving") /\ UNCHANGED copy
    /\ UNCHANGED <<store, providers, training>>

\* In whatever order rglob lists them.
Copied(p, d, m) == [d EXCEPT ![m] = candidate[p][m]]
Complete(d) == \A m \in Members : d[m] # Missing
CopyMember(p) ==
    /\ \E d \in copy[p], m \in Members :
           /\ d[m] = Missing
           /\ copy' = [copy EXCEPT ![p] = {Copied(p, d, m)}]
           /\ Move(p, "copying", IF Complete(Copied(p, d, m)) THEN "verifying" ELSE "copying")
    /\ UNCHANGED <<store, seen, result, providers, training>>

\* Mutant: the copy counts as verified if its manifest is the candidate's.
Verify_ManifestOnly(p) ==
    /\ \A d \in copy[p] : d.manifest \in seen[p]
    /\ Move(p, "verifying", "renaming")
    /\ UNCHANGED <<store, copy, seen, result, providers, training>>
\* The copy must be valid and its manifest the candidate's.
Verify(p) ==
    /\ \A d \in copy[p] : Valid(d, {}) /\ d.manifest \in seen[p]
    /\ Move(p, "verifying", "renaming")
    /\ UNCHANGED <<store, copy, seen, result, providers, training>>

\* Mutant: an existing release is replaced.
Promote_Replaces(p) ==
    /\ Move(p, "renaming", "confirming")
    /\ release' = copy[p] /\ copy' = [copy EXCEPT ![p] = {}]
    /\ UNCHANGED <<files_beside, seen, result, providers, training>>
\* Path.rename: a directory does not take the place of one that has members.
Promote(p) ==
    /\ release = {} /\ Move(p, "renaming", "confirming")
    /\ release' = copy[p] /\ copy' = [copy EXCEPT ![p] = {}]
    /\ UNCHANGED <<files_beside, seen, result, providers, training>>

\* The published release is validated again, with what is beside it by now.
Confirm(p) ==
    /\ \A d \in release : Valid(d, Beside)
    /\ Move(p, "confirming", "ended") /\ Report(p, "receipt")
    /\ UNCHANGED <<store, copy, seen, providers, training>>

\* Any step of the body may fail, or be interrupted; verification and renaming do
\* whenever they must not succeed.
Abort(p) ==
    /\ activity[p] \in {"copying", "verifying", "renaming", "confirming"}
    /\ Move(p, activity[p], "discarding")
    /\ UNCHANGED <<store, copy, seen, result, providers, training>>

\* rmtree of the temporary directory, which fails if it has been renamed.
Discard(p) ==
    /\ Refuse(p, "discarding")
    /\ copy' = [copy EXCEPT ![p] = {}]
    /\ UNCHANGED <<store, providers, training>>

-----------------------------------------------------------------------------
(***************************************************************************)
(* redeclare_compatibility                                                 *)
(***************************************************************************)
\* There must be a release and no other re-declaration.
Declare(r) ==
    /\ IF release # {} /\ beside = {}
           THEN /\ \E d \in release, admits \in BOOLEAN :
                       seen' = [seen EXCEPT ![r] = {[manifest |-> d.manifest, admits |-> admits, by |-> r]}]
                /\ Move(r, "starting", "drafting")
                /\ UNCHANGED result
           ELSE Refuse(r, "starting")
    /\ UNCHANGED <<store, copy, providers, training>>

\* write_bytes opens the temporary name, which all redeclarers share, and truncates
\* the file that it finds there.
OpenDraft(r) ==
    LET file == IF draft = {} THEN {r} ELSE draft
    IN  /\ Move(r, "drafting", "writing")
        /\ draft' = file /\ opened' = [opened EXCEPT ![r] = file]
        /\ text' = [f \in Redeclarers |-> IF f \in file THEN Empty(f) ELSE text[f]]
        /\ UNCHANGED <<release, beside, copy, seen, result, providers, training>>

\* It then writes from the start of that file, wherever the file is by now, and
\* leaves the rest of a longer text that another has written meanwhile.
WriteDraft(r) ==
    /\ Move(r, "writing", "placing")
    /\ \E f \in opened[r] :
          \E t \in seen[r] \cup (IF text[f] = Empty(f) THEN {} ELSE {Mixed(f)}) :
              text' = [text EXCEPT ![f] = t]
    /\ UNCHANGED <<release, beside, draft, opened, copy, seen, result, providers, training>>

\* Path.replace: FileNotFoundError, and nothing is withdrawn, if the file is gone.
Place(r) ==
    /\ \/ /\ draft # {} /\ Move(r, "placing", "proving")
          /\ beside' = draft /\ draft' = {}
          /\ UNCHANGED <<seen, result>>
       \/ /\ draft = {} /\ Move(r, "placing", "overtaken")
          /\ Report(r, "error") /\ Forget(r)
          /\ UNCHANGED <<beside, draft>>
    /\ UNCHANGED <<release, text, opened, copy, providers, training>>

\* Mutant: the re-declaration is in force, whatever it does to the release.
Prove_InForce(r) ==
    /\ IF Beside = seen[r]
           THEN Move(r, "proving", "ended") /\ Report(r, "receipt") /\ Forget(r)
           ELSE Move(r, "proving", "withdrawing") /\ UNCHANGED <<seen, result>>
    /\ UNCHANGED <<store, copy, providers, training>>
\* The release must load under it.
Prove(r) ==
    /\ IF Beside = seen[r] /\ \A d \in release : Valid(d, Beside)
           THEN Move(r, "proving", "ended") /\ Report(r, "receipt") /\ Forget(r)
           ELSE Move(r, "proving", "withdrawing") /\ UNCHANGED <<seen, result>>
    /\ UNCHANGED <<store, copy, providers, training>>

\* path.unlink(), of whatever is there.
Withdraw(r) ==
    /\ Refuse(r, "withdrawing")
    /\ beside' = {}
    /\ UNCHANGED <<release, draft, text, opened, copy, providers, training>>

-----------------------------------------------------------------------------
(***************************************************************************)
(* RstProvider, whose lock makes a step of each of these.                  *)
(***************************************************************************)
\* _inspect_local_release_locked, for every declaration: once, whatever comes of it.
InspectRelease(v) ==
    /\ v \notin inspected /\ inspected' = inspected \cup {v}
    /\ declared' = [declared EXCEPT ![v] = {d.manifest : d \in {e \in release : Valid(e, Beside)}}]
    /\ UNCHANGED <<store, copy, workers, parser, training>>

\* _load_parser_locked: Parser.from_model_release validates again.
LoadParser(v) ==
    /\ v \in inspected /\ declared[v] # {} /\ parser[v] = {}
    /\ parser' = [parser EXCEPT ![v] = {d \in release : Valid(d, Beside)}]
    /\ UNCHANGED <<store, copy, workers, inspected, declared, training>>

-----------------------------------------------------------------------------
\* A worker is killed, or fails where no code of its own helps.
StopWorker(w) ==
    /\ activity[w] \notin Ended
    /\ Move(w, activity[w], "stopped") /\ Forget(w)
    /\ UNCHANGED <<store, copy, result, providers, training>>

\* Training goes on in the candidate's directory.
Train(p) ==
    /\ edits < MaxEdits /\ edits' = edits + 1
    /\ \E m \in Members, v \in Versions : candidate' = [candidate EXCEPT ![p][m] = v]
    /\ UNCHANGED <<store, copy, workers, providers>>

WorkDone == (\A w \in Workers : activity[w] \in Ended) /\ UNCHANGED storeVars

StoreNext ==
    \/ \E p \in Promoters : \/ Inventory(p) \/ Reserve(p) \/ CopyMember(p) \/ Verify(p)
                            \/ Promote(p) \/ Confirm(p) \/ Abort(p) \/ Discard(p) \/ Train(p)
    \/ \E r \in Redeclarers : Declare(r) \/ OpenDraft(r) \/ WriteDraft(r) \/ Place(r)
                              \/ Prove(r) \/ Withdraw(r)
    \/ \E v \in Providers : InspectRelease(v) \/ LoadParser(v)
    \/ \E w \in Workers : StopWorker(w)
    \/ WorkDone

StoreSpec == StoreInit /\ [][StoreNext]_storeVars

-----------------------------------------------------------------------------
Activities == Ended \cup {"starting", "reserving", "copying", "verifying", "renaming", "confirming",
                          "discarding", "drafting", "writing", "placing", "proving", "withdrawing"}

StoreTypeOK ==
    /\ candidate \in [Promoters -> [Members -> Versions]]
    /\ copy \in [Promoters -> SUBSET Contents]
    /\ release \in SUBSET Contents
    /\ beside \in SUBSET Redeclarers /\ draft \in SUBSET Redeclarers
    /\ text \in [Redeclarers -> Redeclarations] /\ opened \in [Redeclarers -> SUBSET Redeclarers]
    /\ activity \in [Workers -> Activities]
    /\ seen \in [Workers -> SUBSET (Versions \cup Redeclarations)]
    /\ result \in [Workers -> {"none", "receipt", "error"}]
    /\ inspected \in SUBSET Providers
    /\ declared \in [Providers -> SUBSET Versions]
    /\ parser \in [Providers -> SUBSET Contents]
    /\ edits \in Nat

(***************************************************************************)
(* "Production loads only a directory whose manifest and full file         *)
(* inventory validate": although candidates change under the promoter and  *)
(* promoters of one id race, the release is one whole version, a receipt   *)
(* names that version for good, and a provider runs the version under      *)
(* whose identity it has declared itself and its results are cached.       *)
(***************************************************************************)
PublishedIsVerified ==
    /\ \A d \in release : d.manifest \in Versions /\ d = Whole(d.manifest)
    /\ \A p \in Promoters : result[p] = "receipt" => release = {Whole(v) : v \in seen[p]}
    /\ \A v \in Providers : parser[v] # {} => parser[v] = {Whole(m) : m \in declared[v]}

(***************************************************************************)
(* "Existing destinations are immutable": no step changes or removes a     *)
(* release, the loser of a race included.                                  *)
(***************************************************************************)
ReleaseStays == release # {} => release' = release
ReleasesAreImmutable == [][ReleaseStays]_storeVars

\* What redeclarers at work, and those who were cut off there, may leave behind.
AtWork(r) == activity[r] \in {"writing", "placing", "proving", "withdrawing"}
CutOff(r) == activity[r] = "stopped" /\ opened[r] # {}
LoadsAsDeclared == beside # {} => \A d \in release : Valid(d, Beside)

(***************************************************************************)
(* A re-declaration never makes a release unloadable for good: when nobody *)
(* is at work on one, or was killed or overtaken there, what lies beside   *)
(* the release names it and admits the installed package, whatever several *)
(* redeclarers opened, wrote, replaced and withdrew in each other's way.   *)
(***************************************************************************)
RedeclarationsAreProven ==
    (\A r \in Redeclarers : ~AtWork(r) /\ ~CutOff(r) /\ activity[r] # "overtaken") =>
        LoadsAsDeclared
=============================================================================
