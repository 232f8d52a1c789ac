--------------------------- MODULE PublicationProofs ---------------------------
(***************************************************************************)
(* The two programs that publish by renaming keep their promises, for any  *)
(* constants.  OutputPublish: each phase of publish knows what the         *)
(* temporary file, the two flags and the target are.  ModelStore: each     *)
(* phase of a promotion knows its copy and the release, what a provider    *)
(* has declared and loaded is the release, and re-declarations come after  *)
(* it.                                                                     *)
(***************************************************************************)
EXTENDS OutputPublish, ModelStore, TLAPS

\* Before the publisher has a temporary file, and before it has published.
Early == {"validating", "publishing", "opening", "creating"}
Unpublished ==
    Early \cup {"owning", "writing", "rechecking", "comparing", "inspecting", "renaming", "linking"}

\* What comes to the target has been written out.
Written(p) ==
    pc[p] \in {"rechecking", "comparing", "inspecting", "renaming", "linking"} => temp[p] = "whole"

\* The flag published follows the publication.
Publication(p) ==
    /\ published[p] => p \in made
    /\ pc[p] \in Unpublished => p \notin made
    /\ pc[p] \in {"recording", "removing", "syncing"} => p \in made
    /\ pc[p] = "disowning" => p \in made /\ temp[p] = "absent"
    /\ pc[p] \in {"removing", "syncing"} => published[p]
    /\ pc[p] \in {"inspecting", "renaming"} => p \in Forcing

\* A state is reported only on the way out.
Reported(p) ==
    report[p] # "none" => pc[p] \in {"cleaning"} \cup Ends

\* Interrupted between the creation of the temporary file and "owned = True".
Unnoted(p) == report[p] = "interrupted" /\ temp[p] = "partial" /\ ~owned[p] /\ p \notin made

\* The flag owned, or an interrupt before it, accounts for the temporary file.
Accounted(p) ==
    /\ pc[p] \in Early \cup {"syncing"} => temp[p] = "absent"
    /\ pc[p] \in Early \cup {"owning"} => ~owned[p]
    /\ pc[p] = "owning" => temp[p] = "partial"
    /\ pc[p] \in {"writing", "rechecking", "comparing", "inspecting", "renaming", "linking", "removing"}
          => owned[p]
    /\ pc[p] \in {"recording", "cleaning"} /\ temp[p] # "absent" => owned[p] \/ Unnoted(p)

Phases == \A p \in Publishers : Written(p) /\ Publication(p) /\ Reported(p) /\ Accounted(p)

IInv == TypeOK /\ Phases /\ WholeOrNothing /\ ReportIsTrue /\ NoLeftover

LEMMA Initially == Init => IInv
BY OutputPublishAssumption
DEF Init, IInv, TypeOK, Phases, Written, Publication, Reported, Accounted, WholeOrNothing,
    ReportIsTrue, NoLeftover, Foreign, PCs, Body, Ends, Early, Unpublished

\* Types alone.
LEMMA TypeStep == TypeOK /\ [Next]_vars => TypeOK'
<1> SUFFICES ASSUME TypeOK, [Next]_vars PROVE TypeOK'
    OBVIOUS
<1> USE DEF TypeOK, PCs, Body, Ends, Goto, Set, files, world, flags
<1>1. ASSUME NEW p \in Publishers, Step(p) PROVE TypeOK'
  <2>1. CASE Validate(p) BY <2>1 DEF Validate
  <2>2. CASE Open(p) BY <2>2 DEF Open, Fail
  <2>3. CASE Create(p) BY <2>3 DEF Create, Fail
  <2>4. CASE Own(p) BY <2>4 DEF Own
  <2>5. CASE Write(p) BY <2>5 DEF Write, Fail
  <2>6. CASE Recheck(p) BY <2>6 DEF Recheck, Fail
  <2>7. CASE Compare(p) BY <2>7 DEF Compare, Fail
  <2>8. CASE Inspect(p) BY <2>8 DEF Inspect, Fail
  <2>9. CASE Rename(p) BY <2>9 DEF Rename, Appear, Fail
  <2>10. CASE Link(p) BY <2>10 DEF Link, Appear, Fail
  <2>11. CASE Disown(p) BY <2>11 DEF Disown
  <2>12. CASE Record(p) BY <2>12 DEF Record
  <2>13. CASE Remove(p) BY <2>13 DEF Remove, Fail
  <2>14. CASE Sync(p) BY <2>14 DEF Sync, Fail
  <2>15. CASE Clean(p) BY <2>15 DEF Clean
  <2> QED BY <1>1, <2>1, <2>2, <2>3, <2>4, <2>5, <2>6, <2>7, <2>8, <2>9, <2>10, <2>11, <2>12,
             <2>13, <2>14, <2>15 DEF Step
<1>2. ASSUME NEW p \in Publishers, Interrupt(p) \/ Kill(p) PROVE TypeOK'
  BY <1>2 DEF Interrupt, Kill
<1>3. CASE Meddle BY <1>3 DEF Meddle
<1>4. CASE UNCHANGED vars BY <1>4 DEF vars
<1> QED BY <1>1, <1>2, <1>3, <1>4 DEF Next, Finished

\* What the invariant says of one publisher.
Mine(p) ==
    /\ Written(p) /\ Publication(p) /\ Reported(p) /\ Accounted(p)
    /\ report[p] = "published" => p \in made
    /\ report[p] = "not_published" => p \notin made
    /\ pc[p] = "ended" /\ temp[p] # "absent" => Unnoted(p)

\* A publisher's own step keeps what the invariant says of it.
LEMMA OwnStep ==
    ASSUME TypeOK, NEW p \in Publishers, Mine(p), Step(p) \/ Interrupt(p) \/ Kill(p)
    PROVE Mine(p)'
<1> USE DEF TypeOK, Mine, Written, Publication, Reported, Accounted, Unnoted, Early, Unpublished, Body,
            Ends, Goto, Set, files, world, flags
<1>1. CASE Validate(p) BY <1>1 DEF Validate
<1>2. CASE Open(p) BY <1>2 DEF Open, Fail
<1>3. CASE Create(p) BY <1>3 DEF Create, Fail
<1>4. CASE Own(p) BY <1>4 DEF Own
<1>5. CASE Write(p) BY <1>5 DEF Write, Fail
<1>6. CASE Recheck(p) BY <1>6 DEF Recheck, Fail
<1>7. CASE Compare(p) BY <1>7 DEF Compare, Fail
<1>8. CASE Inspect(p) BY <1>8 DEF Inspect, Fail
<1>9. CASE Rename(p) BY <1>9 DEF Rename, Appear, Fail
<1>10. CASE Link(p) BY <1>10 DEF Link, Appear, Fail
<1>11. CASE Disown(p) BY <1>11 DEF Disown
<1>12. CASE Record(p)
  <2>1. pc[p] = "recording" /\ pc'[p] \in {"removing", "syncing"} /\ published'[p]
    BY <1>12 DEF Record
  <2>2. (pc'[p] = "removing" => owned[p]) /\ (pc'[p] = "syncing" => ~owned[p])
    BY <1>12 DEF Record
  <2>3. temp'[p] = temp[p] /\ owned'[p] = owned[p] /\ report'[p] = report[p] /\ made' = made
    BY <1>12 DEF Record
  <2> QED BY <2>1, <2>2, <2>3
<1>13. CASE Remove(p) BY <1>13 DEF Remove, Fail
<1>14. CASE Sync(p) BY <1>14 DEF Sync, Fail
<1>15. CASE Clean(p) BY <1>15 DEF Clean
<1>16. CASE Interrupt(p) BY <1>16 DEF Interrupt
<1>17. CASE Kill(p) BY <1>17 DEF Kill
<1> QED BY <1>1, <1>2, <1>3, <1>4, <1>5, <1>6, <1>7, <1>8, <1>9, <1>10, <1>11, <1>12, <1>13,
           <1>14, <1>15, <1>16, <1>17 DEF Step

\* It leaves everybody else's files, flags and report alone.
LEMMA OthersStep ==
    ASSUME TypeOK, NEW p \in Publishers, Step(p) \/ Interrupt(p) \/ Kill(p),
           NEW q \in Publishers, q # p
    PROVE /\ temp'[q] = temp[q] /\ owned'[q] = owned[q] /\ published'[q] = published[q]
          /\ report'[q] = report[q] /\ pc'[q] = pc[q] /\ (q \in made' <=> q \in made)
BY DEF TypeOK, Goto, Set, files, world, flags, Step, Interrupt, Kill, Fail, Appear, Validate,
       Open, Create, Own, Write, Recheck, Compare, Inspect, Rename, Link, Disown, Record,
       Remove, Sync, Clean

\* The target is a publisher's concern only in Rename and Link.
LEMMA TargetStep ==
    ASSUME TypeOK, WholeOrNothing, NEW p \in Publishers, Written(p),
           Step(p) \/ Interrupt(p) \/ Kill(p)
    PROVE WholeOrNothing'
<1> USE DEF WholeOrNothing, files
<1>1. CASE Rename(p) \/ Link(p)
  <2>1. p # "partial" BY OutputPublishAssumption
  <2>2. CASE UNCHANGED target BY <2>2
  <2>3. CASE temp[p] = "whole" /\ Appear(p)
    BY <2>1, <2>3 DEF Appear, Set, TypeOK
  <2> QED BY <1>1, <2>2, <2>3 DEF Rename, Link, Fail, Goto, Written
<1>2. CASE UNCHANGED target BY <1>2
<1> QED BY <1>1, <1>2 DEF Step, Interrupt, Kill, Fail, Validate, Open, Create, Own, Write,
           Recheck, Compare, Inspect, Disown, Record, Remove, Sync, Clean

LEMMA Step_Preserves == IInv /\ [Next]_vars => IInv'
<1> SUFFICES ASSUME IInv, [Next]_vars PROVE IInv'
    OBVIOUS
<1>1. TypeOK /\ TypeOK' BY TypeStep DEF IInv
<1>2. WholeOrNothing /\ \A q \in Publishers : Mine(q)
  BY DEF IInv, Phases, Mine, Unnoted, ReportIsTrue, NoLeftover
<1>3. WholeOrNothing' /\ \A q \in Publishers : Mine(q)'
  <2>1. ASSUME NEW p \in Publishers, Step(p) \/ Interrupt(p) \/ Kill(p)
        PROVE WholeOrNothing' /\ \A q \in Publishers : Mine(q)'
    <3>1. WholeOrNothing' BY <1>1, <1>2, <2>1, TargetStep DEF Mine
    <3>2. Mine(p)' BY <1>1, <1>2, <2>1, OwnStep
    <3>3. ASSUME NEW q \in Publishers, q # p PROVE Mine(q)'
      <4>1. Mine(q) BY <1>2
      <4> QED BY <1>1, <2>1, <3>3, <4>1, OthersStep
              DEF Mine, Written, Publication, Reported, Accounted, Unnoted
    <3> QED BY <3>1, <3>2, <3>3
  <2>2. CASE Meddle \/ UNCHANGED vars
    <3>1. UNCHANGED <<temp, made, flags, report, pc>>
      BY <2>2 DEF Meddle, vars, files
    <3>2. \A q \in Publishers : Mine(q)'
      BY <1>2, <3>1 DEF Mine, Written, Publication, Reported, Accounted, Unnoted, flags
    <3>3. WholeOrNothing'
      BY <1>1, <1>2, <2>2
      DEF WholeOrNothing, Meddle, vars, files, Set, Foreign, TypeOK
    <3> QED BY <3>2, <3>3
  <2> QED BY <2>1, <2>2 DEF Next, Finished
<1> QED BY <1>1, <1>3 DEF IInv, Phases, Mine, Unnoted, ReportIsTrue, NoLeftover

LEMMA Invariant == Spec => []IInv
BY Initially, Step_Preserves, PTL DEF Spec

\* The variables keep their types.
THEOREM Typing == Spec => []TypeOK
BY Invariant, PTL DEF IInv

\* Whoever reads the target finds a whole record, whatever fails, is interrupted
\* or is killed (os.replace and os.link only ever publish a finished file).
THEOREM Atomic == Spec => []WholeOrNothing
BY Invariant, PTL DEF IInv

\* The state that an error of publish reports is the actual one.
THEOREM TrueReport == Spec => []ReportIsTrue
BY Invariant, PTL DEF IInv

\* Once the cleanup has run there is no temporary file, except the empty one of a
\* command interrupted before it could note that it owns the file.
THEOREM CleanedUp == Spec => []NoLeftover
BY Invariant, PTL DEF IInv

\* Without force a record takes the place of nothing, whenever the target comes
\* into being.
THEOREM NothingClobbered == Spec => NoClobber
<1>1. IInv /\ [Next]_vars => TakesNoPlace
  <2> SUFFICES ASSUME IInv, [Next]_vars,
                      NEW p \in Publishers \ Forcing, p \in made' \ made
               PROVE Here(p) = "absent"
      BY DEF TakesNoPlace
  <2>1. TypeOK BY DEF IInv
  <2>2. ASSUME NEW q \in Publishers, Step(q) \/ Interrupt(q) \/ Kill(q)
        PROVE Here(p) = "absent"
    <3>1. p = q BY <2>1, <2>2, OthersStep
    <3>2. CASE Link(q) BY <3>1, <3>2 DEF Link, Fail, files
    <3>3. CASE Rename(q)
      BY <2>1, <3>1, <3>3
      DEF Rename, Fail, Goto, files, IInv, Phases, Publication
    <3> QED BY <2>2, <3>2, <3>3
            DEF Step, Interrupt, Kill, Fail, files, Validate, Open, Create, Own, Write, Recheck,
                Compare, Inspect, Disown, Record, Remove, Sync, Clean
  <2> QED BY <2>2 DEF Next, Finished, Meddle, vars, files
<1> QED BY <1>1, Invariant, PTL DEF Spec, NoClobber

-----------------------------------------------------------------------------
(***************************************************************************)
(* ModelStore                                                              *)
(***************************************************************************)
\* A release and its version, or nothing.
Is(d, v) == d = {Whole(v)}
Published == release = {} \/ \E v \in Versions : Is(release, v)

\* What each phase of a promotion knows of its copy and of the release.
Promotion(p) ==
    /\ activity[p] \in {"reserving", "copying", "verifying"} => \E v \in Versions : seen[p] = {v}
    /\ activity[p] \in {"copying", "verifying"} => copy[p] # {}
    /\ activity[p] = "renaming" => \E v \in Versions : seen[p] = {v} /\ Is(copy[p], v)
    /\ activity[p] = "confirming" \/ result[p] = "receipt" =>
          \E v \in Versions : seen[p] = {v} /\ Is(release, v)
    /\ result[p] = "receipt" => activity[p] = "ended"
    /\ \A d, e \in copy[p] : d = e

\* What a provider has declared and loaded is the release.
Provider(v) ==
    /\ declared[v] # {} => v \in inspected /\ \E m \in Versions : declared[v] = {m} /\ Is(release, m)
    /\ parser[v] # {} => declared[v] # {} /\ parser[v] = release

\* There is something to re-declare, and what is about to be written re-declares it.
Redeclared ==
    /\ beside \cup draft # {} => release # {}
    /\ \A r \in Redeclarers :
          /\ activity[r] \in {"drafting", "writing"} => seen[r] \in SUBSET Redeclarations
          /\ activity[r] \in {"drafting", "writing", "placing"} => release # {}

(***************************************************************************)
(* Two redeclarers that are between opening the temporary name and moving  *)
(* it stay in each other's way until one of them is overtaken or killed,   *)
(* for one file has the name.  Otherwise each writes a file of its own,    *)
(* nobody touches one that has been placed, and whoever placed it proves   *)
(* or withdraws it.                                                        *)
(***************************************************************************)
Writers == {r \in Redeclarers : activity[r] \in {"writing", "placing"}}
Spoiled == \E r \in Redeclarers : activity[r] = "overtaken" \/ CutOff(r)
Crowded == \E r \in Writers : draft = {} \/ \E q \in Writers : q # r
Orderly ==
    /\ Writers = draft
    /\ \A r \in Redeclarers : opened[r] \subseteq {r}
    /\ \A r \in beside : activity[r] \in {"proving", "withdrawing", "ended"}
    /\ (\A r \in Redeclarers : activity[r] \notin {"proving", "withdrawing"}) => LoadsAsDeclared
Handled ==
    /\ \A r \in Redeclarers : AtWork(r) => opened[r] # {}
    /\ Spoiled \/ Crowded \/ Orderly

StoreInv ==
    /\ StoreTypeOK /\ Published /\ Redeclared /\ Handled
    /\ \A p \in Promoters : Promotion(p)
    /\ \A v \in Providers : Provider(v)

LEMMA WholeContent == \A v \in Versions : Whole(v) \in Contents /\ Whole(v).manifest = v
BY DEF Whole, Contents, Members

LEMMA StoreInitially == StoreInit => StoreInv
<1> SUFFICES ASSUME StoreInit PROVE StoreInv
    OBVIOUS
<1>1. StoreTypeOK
  BY StoreAssumption, WholeContent
  DEF StoreInit, StoreTypeOK, Activities, Ended, Empty, Redeclarations
<1>2. Published /\ Redeclared
  BY DEF StoreInit, Published, Is, Redeclared, Workers
<1>5. Handled
  BY DEF StoreInit, Handled, AtWork, Orderly, Writers, LoadsAsDeclared, Workers
<1>3. ASSUME NEW p \in Promoters PROVE Promotion(p)
  BY <1>3 DEF StoreInit, Promotion, Workers
<1>4. ASSUME NEW v \in Providers PROVE Provider(v)
  BY <1>4 DEF StoreInit, Provider
<1> QED
  BY <1>1, <1>2, <1>3, <1>4, <1>5 DEF StoreInv

LEMMA MoveTypes ==
    ASSUME StoreTypeOK, NEW w \in Workers, NEW from, NEW to \in Activities, Move(w, from, to)
    PROVE  activity' \in [Workers -> Activities]
BY DEF StoreTypeOK, Move

LEMMA ForgetTypes ==
    ASSUME StoreTypeOK, NEW w \in Workers
    PROVE  /\ Forget(w) => seen' \in [Workers -> SUBSET (Versions \cup Redeclarations)]
           /\ \A kind \in {"receipt", "error"} :
                 Report(w, kind) => result' \in [Workers -> {"none", "receipt", "error"}]
BY DEF StoreTypeOK, Forget, Report

LEMMA ContentTypes ==
    ASSUME StoreTypeOK, NEW p \in Promoters
    PROVE  /\ Whole(Missing) \in Contents
           /\ \A d \in copy[p], m \in Members : Copied(p, d, m) \in Contents
           /\ Valid(candidate[p], {}) => candidate[p].manifest \in Versions
BY DEF StoreTypeOK, Contents, Whole, Copied, Valid

LEMMA StoreTypeStep == StoreTypeOK /\ Published /\ Redeclared /\ [StoreNext]_storeVars => StoreTypeOK'
<1> SUFFICES ASSUME StoreTypeOK, Published, Redeclared, [StoreNext]_storeVars PROVE StoreTypeOK'
    OBVIOUS
<1> DEFINE Moved == /\ activity' \in [Workers -> Activities]
                    /\ seen' \in [Workers -> SUBSET (Versions \cup Redeclarations)]
                    /\ result' \in [Workers -> {"none", "receipt", "error"}]
<1>0. /\ Promoters \subseteq Workers /\ Redeclarers \subseteq Workers
      /\ {"starting", "reserving", "copying", "verifying", "renaming", "confirming",
          "discarding", "drafting", "writing", "placing", "proving", "withdrawing", "ended", "stopped",
          "overtaken"} \subseteq Activities
  BY DEF Workers, Activities, Ended
<1>1. ASSUME NEW w \in Workers, NEW from, Refuse(w, from) PROVE Moved
  BY <1>0, <1>1, MoveTypes, ForgetTypes DEF Refuse
<1>2. ASSUME NEW p \in Promoters, Inventory(p) PROVE StoreTypeOK'
  <2>1. Moved
    <3>1. CASE Valid(candidate[p], {})
      BY <1>0, <1>2, <3>1, MoveTypes, ContentTypes DEF Inventory, StoreTypeOK
    <3> QED BY <1>0, <1>1, <1>2, <3>1 DEF Inventory
  <2> QED BY <1>2, <2>1 DEF StoreTypeOK, Inventory, store, files_beside, providers, training
<1>3. ASSUME NEW p \in Promoters, Reserve(p) PROVE StoreTypeOK'
  <2>1. CASE release = {}
    <3>1. Moved BY <1>0, <1>3, <2>1, MoveTypes DEF Reserve, StoreTypeOK
    <3>2. copy' \in [Promoters -> SUBSET Contents]
      BY <1>3, <2>1, ContentTypes DEF Reserve, StoreTypeOK
    <3> QED BY <1>3, <3>1, <3>2 DEF StoreTypeOK, Reserve, store, files_beside, providers, training
  <2>2. CASE release # {}
    <3>1. Moved BY <1>0, <1>1, <1>3, <2>2 DEF Reserve
    <3> QED BY <1>3, <2>2, <3>1 DEF StoreTypeOK, Reserve, store, files_beside, providers, training
  <2> QED BY <2>1, <2>2
<1>4. ASSUME NEW p \in Promoters, CopyMember(p) PROVE StoreTypeOK'
  <2>1. PICK d \in copy[p], m \in Members :
           /\ copy' = [copy EXCEPT ![p] = {Copied(p, d, m)}]
           /\ Move(p, "copying", IF Complete(Copied(p, d, m)) THEN "verifying" ELSE "copying")
    BY <1>4 DEF CopyMember
  <2>2. copy' \in [Promoters -> SUBSET Contents]
    BY <2>1, ContentTypes DEF StoreTypeOK
  <2>3. activity' \in [Workers -> Activities]
    BY <1>0, <2>1, MoveTypes
  <2> QED BY <1>4, <2>2, <2>3 DEF StoreTypeOK, CopyMember, store, files_beside, providers, training
<1>5. ASSUME NEW p \in Promoters, Verify(p) \/ Abort(p) PROVE StoreTypeOK'
  <2>1. activity' \in [Workers -> Activities]
    BY <1>0, <1>5, MoveTypes DEF Verify, Abort
  <2> QED BY <1>5, <2>1 DEF StoreTypeOK, Verify, Abort, store, files_beside, providers, training
<1>6. ASSUME NEW p \in Promoters, Promote(p) PROVE StoreTypeOK'
  <2>1. activity' \in [Workers -> Activities]
    BY <1>0, <1>6, MoveTypes DEF Promote
  <2> QED BY <1>6, <2>1 DEF StoreTypeOK, Promote, files_beside, providers, training
<1>7. ASSUME NEW p \in Promoters, Confirm(p) PROVE StoreTypeOK'
  <2>1. Moved
    BY <1>0, <1>7, MoveTypes, ForgetTypes DEF Confirm, StoreTypeOK
  <2> QED BY <1>7, <2>1 DEF StoreTypeOK, Confirm, store, files_beside, providers, training
<1>8. ASSUME NEW p \in Promoters, Discard(p) PROVE StoreTypeOK'
  <2>1. Moved BY <1>0, <1>1, <1>8 DEF Discard
  <2> QED BY <1>8, <2>1 DEF StoreTypeOK, Discard, store, files_beside, providers, training
<1>9. ASSUME NEW p \in Promoters, Train(p) PROVE StoreTypeOK'
  <2>1. candidate' \in [Promoters -> [Members -> Versions]] /\ edits' \in Nat
    BY <1>9 DEF StoreTypeOK, Train
  <2> QED BY <1>9, <2>1 DEF StoreTypeOK, Train, store, files_beside, workers, providers
<1>10. ASSUME NEW r \in Redeclarers, Declare(r) PROVE StoreTypeOK'
  <2>1. CASE release # {} /\ beside = {}
    <3>1. PICK d \in release, admits \in BOOLEAN :
              seen' = [seen EXCEPT ![r] = {[manifest |-> d.manifest, admits |-> admits, by |-> r]}]
      BY <1>10, <2>1 DEF Declare
    <3>2. d.manifest \in Versions
      BY <2>1, WholeContent DEF Published, Is
    <3>3. Moved
      BY <1>0, <1>10, <2>1, <3>1, <3>2, MoveTypes DEF Declare, StoreTypeOK, Redeclarations
    <3> QED BY <1>10, <3>3 DEF StoreTypeOK, Declare, store, files_beside, providers, training
  <2>2. CASE ~(release # {} /\ beside = {})
    <3>1. Moved BY <1>0, <1>1, <1>10, <2>2 DEF Declare
    <3> QED BY <1>10, <3>1 DEF StoreTypeOK, Declare, store, files_beside, providers, training
  <2> QED BY <2>1, <2>2
<1>18. ASSUME NEW r \in Redeclarers, OpenDraft(r) PROVE StoreTypeOK'
  <2>1. activity' \in [Workers -> Activities]
    BY <1>0, <1>18, MoveTypes DEF OpenDraft
  <2>2. draft' \in SUBSET Redeclarers /\ opened' \in [Redeclarers -> SUBSET Redeclarers]
    BY <1>18 DEF OpenDraft, StoreTypeOK
  <2>3. text' \in [Redeclarers -> Redeclarations]
    BY <1>18 DEF OpenDraft, StoreTypeOK, Empty, Redeclarations
  <2> QED BY <1>18, <2>1, <2>2, <2>3 DEF StoreTypeOK, OpenDraft, providers, training
<1>19. ASSUME NEW r \in Redeclarers, WriteDraft(r) PROVE StoreTypeOK'
  <2>1. activity' \in [Workers -> Activities]
    BY <1>0, <1>19, MoveTypes DEF WriteDraft
  <2>2. text' \in [Redeclarers -> Redeclarations]
    <3>1. seen[r] \in SUBSET Redeclarations /\ opened[r] \in SUBSET Redeclarers
      BY <1>19 DEF WriteDraft, Move, Redeclared, StoreTypeOK
    <3>2. PICK f \in opened[r] : \E t \in seen[r] \cup {Mixed(f)} : text' = [text EXCEPT ![f] = t]
      BY <1>19 DEF WriteDraft
    <3>4. PICK t \in seen[r] \cup {Mixed(f)} : text' = [text EXCEPT ![f] = t]
      BY <3>2
    <3>5. Mixed(f) \in Redeclarations
      BY <3>1 DEF Mixed, Redeclarations
    <3>3. t \in Redeclarations
      BY <3>1, <3>4, <3>5
    <3> QED BY <3>1, <3>3, <3>4 DEF StoreTypeOK
  <2> QED BY <1>19, <2>1, <2>2 DEF StoreTypeOK, WriteDraft, providers, training
<1>11. ASSUME NEW r \in Redeclarers, Place(r) PROVE StoreTypeOK'
  <2>1. Moved
    BY <1>0, <1>11, MoveTypes, ForgetTypes DEF Place, StoreTypeOK
  <2> QED BY <1>11, <2>1 DEF StoreTypeOK, Place, providers, training
<1>12. ASSUME NEW r \in Redeclarers, Prove(r) PROVE StoreTypeOK'
  <2>1. Moved
    BY <1>0, <1>12, MoveTypes, ForgetTypes DEF Prove, StoreTypeOK
  <2> QED BY <1>12, <2>1 DEF StoreTypeOK, Prove, store, files_beside, providers, training
<1>13. ASSUME NEW r \in Redeclarers, Withdraw(r) PROVE StoreTypeOK'
  <2>1. Moved BY <1>0, <1>1, <1>13 DEF Withdraw
  <2> QED BY <1>13, <2>1 DEF StoreTypeOK, Withdraw, providers, training
<1>14. ASSUME NEW v \in Providers, InspectRelease(v) PROVE StoreTypeOK'
  <2>1. {d.manifest : d \in {e \in release : Valid(e, Beside)}} \in SUBSET Versions
    BY DEF Valid
  <2> QED BY <1>14, <2>1 DEF StoreTypeOK, InspectRelease, store, files_beside, workers, training
<1>15. ASSUME NEW v \in Providers, LoadParser(v) PROVE StoreTypeOK'
  BY <1>15 DEF StoreTypeOK, LoadParser, store, files_beside, workers, training
<1>16. ASSUME NEW w \in Workers, StopWorker(w) PROVE StoreTypeOK'
  <2>1. Moved
    BY <1>0, <1>16, MoveTypes, ForgetTypes DEF StopWorker, StoreTypeOK
  <2> QED BY <1>16, <2>1 DEF StoreTypeOK, StopWorker, store, files_beside, providers, training
<1>17. CASE UNCHANGED storeVars
  BY <1>17 DEF StoreTypeOK, storeVars, store, files_beside, workers, providers, training
<1> QED
  BY <1>2, <1>3, <1>4, <1>5, <1>6, <1>7, <1>8, <1>9, <1>10, <1>11, <1>12, <1>13, <1>14, <1>15,
     <1>16, <1>17, <1>18, <1>19 DEF StoreNext, WorkDone

LEMMA ReleaseStep == StoreInv /\ [StoreNext]_storeVars => Published' /\ ReleaseStays
<1> SUFFICES ASSUME StoreInv, [StoreNext]_storeVars PROVE Published' /\ ReleaseStays
    OBVIOUS
<1>1. Published BY DEF StoreInv
<1>2. CASE UNCHANGED release
  BY <1>1, <1>2 DEF Published, Is, ReleaseStays, Whole
<1>3. ASSUME NEW p \in Promoters, Promote(p) PROVE Published' /\ ReleaseStays
  <2>1. activity[p] = "renaming" /\ release = {} /\ release' = copy[p]
    BY <1>3 DEF Promote, Move
  <2>2. \E v \in Versions : Is(copy[p], v)
    BY <2>1 DEF StoreInv, Promotion
  <2> QED BY <2>1, <2>2 DEF Published, Is, ReleaseStays, Whole
<1> QED
  BY <1>2, <1>3 DEF StoreNext, WorkDone, storeVars, store, Inventory, Reserve, CopyMember, Verify,
     Confirm, Abort, Discard, Train, Declare, OpenDraft, WriteDraft, Place, Prove, Withdraw, InspectRelease, LoadParser,
     StopWorker

\* What is published stays what it is.
LEMMA IsStays ==
    ASSUME ReleaseStays, NEW v \in Versions, Is(release, v)
    PROVE  Is(release, v)'
BY DEF ReleaseStays, Is, Whole

\* Steps that leave a promoter's own state alone.
LEMMA OthersPromotion ==
    ASSUME StoreInv, ReleaseStays, NEW p \in Promoters,
           activity'[p] = activity[p], seen'[p] = seen[p], copy'[p] = copy[p], result'[p] = result[p]
    PROVE  Promotion(p)'
<1>1. Promotion(p) BY DEF StoreInv
<1>2. ASSUME NEW v \in Versions PROVE Is(copy[p], v)' = Is(copy[p], v)
  BY <1>2 DEF Is, Whole
<1> QED
  BY <1>1, <1>2, IsStays DEF Promotion

\* A step from which the promotion has nothing to remember.
LEMMA EndOfPromotion ==
    ASSUME StoreInv, NEW p \in Promoters,
           activity'[p] \in Ended \cup {"discarding"}, result'[p] # "receipt",
           copy'[p] = copy[p] \/ copy'[p] = {}
    PROVE  Promotion(p)'
BY DEF StoreInv, Promotion, Ended

LEMMA OwnPromotion ==
    ASSUME StoreInv, [StoreNext]_storeVars, NEW p \in Promoters,
           \/ Inventory(p) \/ Reserve(p) \/ CopyMember(p) \/ Verify(p) \/ Promote(p)
           \/ Confirm(p) \/ Abort(p) \/ Discard(p) \/ StopWorker(p)
    PROVE  Promotion(p)'
<1>0. StoreTypeOK /\ Promotion(p) /\ ReleaseStays /\ p \in Workers /\ Published
  BY ReleaseStep DEF StoreInv, Workers
<1>1. activity[p] \notin Ended => result[p] # "receipt"
  BY <1>0 DEF Promotion, Ended
<1>2. ASSUME NEW from, from \notin Ended, Refuse(p, from), copy'[p] = copy[p] \/ copy'[p] = {}
      PROVE  Promotion(p)'
  <2>1. activity'[p] = "ended" /\ result'[p] = "error"
    BY <1>0, <1>2 DEF StoreTypeOK, Refuse, Move, Report
  <2> QED BY <1>2, <2>1, EndOfPromotion DEF Ended
<1>3. CASE Inventory(p)
  <2>1. CASE Valid(candidate[p], {})
    <3>1. activity'[p] = "reserving" /\ seen'[p] = {candidate[p].manifest} /\ result' = result /\ copy' = copy
      BY <1>0, <1>3, <2>1 DEF Inventory, Move, StoreTypeOK
    <3>2. candidate[p].manifest \in Versions
      BY <1>0, <2>1, ContentTypes
    <3>3. result[p] # "receipt"
      BY <1>1, <1>3, <2>1 DEF Inventory, Move, Ended
    <3> QED BY <1>0, <3>1, <3>2, <3>3 DEF Promotion
  <2> QED BY <1>2, <1>3, <2>1 DEF Inventory, Ended
<1>4. CASE Reserve(p)
  <2>1. CASE release = {}
    <3>1. /\ activity[p] = "reserving" /\ activity'[p] = "copying"
          /\ copy'[p] = {Whole(Missing)} /\ seen' = seen /\ result' = result
      BY <1>0, <1>4, <2>1 DEF Reserve, Move, StoreTypeOK
    <3> QED BY <1>0, <1>1, <3>1 DEF Promotion, Ended
  <2> QED BY <1>2, <1>4, <2>1 DEF Reserve, Ended
<1>5. CASE CopyMember(p)
  <2>1. PICK d \in copy[p], m \in Members :
           /\ copy' = [copy EXCEPT ![p] = {Copied(p, d, m)}]
           /\ Move(p, "copying", IF Complete(Copied(p, d, m)) THEN "verifying" ELSE "copying")
    BY <1>5 DEF CopyMember
  <2>2. /\ activity[p] = "copying" /\ activity'[p] \in {"copying", "verifying"}
        /\ copy'[p] = {Copied(p, d, m)} /\ seen' = seen /\ result' = result
    BY <1>0, <1>5, <2>1 DEF CopyMember, Move, StoreTypeOK
  <2> QED BY <1>0, <1>1, <2>2 DEF Promotion, Ended
<1>6. CASE Verify(p)
  <2>1. /\ activity[p] = "verifying" /\ activity'[p] = "renaming"
        /\ copy' = copy /\ seen' = seen /\ result' = result
    BY <1>0, <1>6 DEF Verify, Move, StoreTypeOK
  <2>2. PICK d \in copy[p], v \in Versions : seen[p] = {v} /\ copy[p] = {d}
    BY <1>0, <2>1 DEF Promotion
  <2>3. d = Whole(v)
    BY <1>6, <2>2 DEF Verify, Valid
  <2>4. seen'[p] = {v} /\ Is(copy[p], v)'
    BY <2>1, <2>2, <2>3 DEF Is, Whole
  <2> QED BY <1>0, <1>1, <2>1, <2>4 DEF Promotion, Ended
<1>7. CASE Promote(p)
  <2>1. /\ activity[p] = "renaming" /\ activity'[p] = "confirming"
        /\ copy'[p] = {} /\ release' = copy[p] /\ seen' = seen /\ result' = result
    BY <1>0, <1>7 DEF Promote, Move, StoreTypeOK
  <2>2. PICK v \in Versions : seen[p] = {v} /\ Is(copy[p], v)
    BY <1>0, <2>1 DEF Promotion
  <2>3. Is(release, v)'
    BY <2>1, <2>2 DEF Is, Whole
  <2> QED BY <1>0, <1>1, <2>1, <2>2, <2>3 DEF Promotion, Ended
<1>8. CASE Confirm(p)
  <2>1. /\ activity[p] = "confirming" /\ activity'[p] = "ended"
        /\ copy' = copy /\ seen' = seen /\ result'[p] = "receipt"
    BY <1>0, <1>8 DEF Confirm, Move, Report, StoreTypeOK
  <2>2. PICK v \in Versions : seen[p] = {v} /\ Is(release, v)
    BY <1>0, <2>1 DEF Promotion
  <2>3. Is(release, v)'
    BY <1>0, <2>2, IsStays
  <2> QED BY <1>0, <2>1, <2>2, <2>3 DEF Promotion
<1>9. CASE Abort(p)
  <2>1. activity[p] \notin Ended /\ activity'[p] = "discarding" /\ copy' = copy /\ result' = result
    BY <1>0, <1>9 DEF Abort, Move, Ended, StoreTypeOK
  <2> QED BY <1>1, <2>1, EndOfPromotion
<1>10. CASE Discard(p)
  <2>1. copy'[p] = {}
    BY <1>0, <1>10 DEF Discard, StoreTypeOK
  <2> QED BY <1>2, <1>10, <2>1 DEF Discard, Ended
<1>11. CASE StopWorker(p)
  <2>1. activity[p] \notin Ended /\ activity'[p] = "stopped" /\ copy' = copy /\ result' = result
    BY <1>0, <1>11 DEF StopWorker, Move, StoreTypeOK
  <2> QED BY <1>1, <2>1, EndOfPromotion DEF Ended
<1> QED
  BY <1>3, <1>4, <1>5, <1>6, <1>7, <1>8, <1>9, <1>10, <1>11

\* A step of a promoter leaves the others, and the redeclarers, where they are.
LEMMA PromoterMoves ==
    ASSUME StoreTypeOK, NEW p \in Workers,
           \/ p \in Promoters /\ (\/ Inventory(p) \/ Reserve(p) \/ CopyMember(p) \/ Verify(p)
                                  \/ Promote(p) \/ Confirm(p) \/ Abort(p) \/ Discard(p))
           \/ StopWorker(p)
    PROVE  /\ UNCHANGED files_beside
           /\ \A w \in Workers \ {p} :
                 activity'[w] = activity[w] /\ seen'[w] = seen[w] /\ result'[w] = result[w]
           /\ \A q \in Promoters \ {p} : copy'[q] = copy[q]
<1>1. ASSUME NEW from, Refuse(p, from)
      PROVE  \A w \in Workers \ {p} :
                 activity'[w] = activity[w] /\ seen'[w] = seen[w] /\ result'[w] = result[w]
  BY <1>1 DEF Refuse, Move, Report, Forget, StoreTypeOK
<1>2. ASSUME NEW from, NEW to, Move(p, from, to)
      PROVE  \A w \in Workers \ {p} : activity'[w] = activity[w]
  BY <1>2 DEF Move, StoreTypeOK
<1>3. CASE Inventory(p)
  <2>1. CASE Valid(candidate[p], {})
    BY <1>2, <1>3, <2>1 DEF Inventory, store, StoreTypeOK
  <2> QED BY <1>1, <1>3, <2>1 DEF Inventory, store
<1>4. CASE Reserve(p)
  <2>1. CASE release = {}
    BY <1>2, <1>4, <2>1 DEF Reserve, store, StoreTypeOK
  <2> QED BY <1>1, <1>4, <2>1 DEF Reserve, store
<1>5. CASE CopyMember(p)
  BY <1>2, <1>5 DEF CopyMember, store, StoreTypeOK
<1>6. CASE Verify(p) \/ Promote(p) \/ Abort(p)
  BY <1>2, <1>6 DEF Verify, Promote, Abort, store, StoreTypeOK
<1>7. CASE Confirm(p) \/ StopWorker(p)
  BY <1>2, <1>7 DEF Confirm, StopWorker, Report, Forget, store, StoreTypeOK
<1>8. CASE Discard(p)
  BY <1>1, <1>8 DEF Discard, store, StoreTypeOK
<1> QED
  BY <1>3, <1>4, <1>5, <1>6, <1>7, <1>8

Redeclares(r) ==
    Declare(r) \/ OpenDraft(r) \/ WriteDraft(r) \/ Place(r) \/ Prove(r) \/ Withdraw(r)

\* A step of a redeclarer leaves promotions, providers and the release alone.
LEMMA RedeclarerMoves ==
    ASSUME StoreTypeOK, NEW r \in Redeclarers, Redeclares(r)
    PROVE  /\ release' = release /\ copy' = copy
           /\ inspected' = inspected /\ declared' = declared /\ parser' = parser
           /\ \A w \in Workers \ {r} :
                 activity'[w] = activity[w] /\ seen'[w] = seen[w] /\ result'[w] = result[w]
<1>0. r \in Workers BY DEF Workers
<1>1. ASSUME NEW from, Refuse(r, from)
      PROVE  \A w \in Workers \ {r} :
                 activity'[w] = activity[w] /\ seen'[w] = seen[w] /\ result'[w] = result[w]
  BY <1>0, <1>1 DEF Refuse, Move, Report, Forget, StoreTypeOK
<1>2. CASE Declare(r)
  <2>1. CASE release # {} /\ beside = {}
    BY <1>0, <1>2, <2>1 DEF Declare, Move, store, providers, StoreTypeOK
  <2> QED BY <1>1, <1>2, <2>1 DEF Declare, store, providers
<1>6. CASE OpenDraft(r) \/ WriteDraft(r)
  BY <1>0, <1>6 DEF OpenDraft, WriteDraft, Move, providers, StoreTypeOK
<1>3. CASE Place(r)
  BY <1>0, <1>3 DEF Place, Move, Report, Forget, providers, StoreTypeOK
<1>4. CASE Prove(r)
  BY <1>0, <1>4 DEF Prove, Move, Report, Forget, store, providers, StoreTypeOK
<1>5. CASE Withdraw(r)
  BY <1>1, <1>5 DEF Withdraw, providers
<1> QED
  BY <1>2, <1>3, <1>4, <1>5, <1>6 DEF Redeclares

LEMMA PromotionStep == StoreInv /\ [StoreNext]_storeVars => \A p \in Promoters : Promotion(p)'
<1> SUFFICES ASSUME StoreInv, [StoreNext]_storeVars, NEW p \in Promoters PROVE Promotion(p)'
    OBVIOUS
<1>0. /\ StoreTypeOK /\ ReleaseStays
      /\ p \in Workers /\ Promoters \subseteq Workers /\ \A r \in Redeclarers : r # p
  BY ReleaseStep, StoreAssumption DEF StoreInv, Workers
<1> DEFINE Promotes(q) == \/ Inventory(q) \/ Reserve(q) \/ CopyMember(q) \/ Verify(q) \/ Promote(q)
                     \/ Confirm(q) \/ Abort(q) \/ Discard(q)
<1>1. ASSUME Promotes(p) \/ StopWorker(p) PROVE Promotion(p)'
  BY <1>1, OwnPromotion
<1>2. ASSUME NEW q \in Workers, q # p, (q \in Promoters /\ Promotes(q)) \/ StopWorker(q) PROVE Promotion(p)'
  <2>1. activity'[p] = activity[p] /\ seen'[p] = seen[p] /\ copy'[p] = copy[p] /\ result'[p] = result[p]
    BY <1>0, <1>2, PromoterMoves
  <2> QED BY <1>0, <2>1, OthersPromotion
<1>3. ASSUME NEW r \in Redeclarers, Redeclares(r) PROVE Promotion(p)'
  <2>1. activity'[p] = activity[p] /\ seen'[p] = seen[p] /\ copy'[p] = copy[p] /\ result'[p] = result[p]
    BY <1>0, <1>3, RedeclarerMoves
  <2> QED BY <1>0, <2>1, OthersPromotion
<1>4. ASSUME UNCHANGED <<activity, seen, copy, result>> PROVE Promotion(p)'
  BY <1>0, <1>4, OthersPromotion
<1>5. (\E q \in Promoters : Train(q)) \/ (\E v \in Providers : InspectRelease(v) \/ LoadParser(v))
        \/ UNCHANGED storeVars => UNCHANGED <<activity, seen, copy, result>>
  BY DEF Train, InspectRelease, LoadParser, storeVars, workers
<1> QED
  BY <1>0, <1>1, <1>2, <1>3, <1>4, <1>5 DEF StoreNext, WorkDone, Redeclares

LEMMA ProviderStep == StoreInv /\ [StoreNext]_storeVars => \A v \in Providers : Provider(v)'
<1> SUFFICES ASSUME StoreInv, [StoreNext]_storeVars, NEW v \in Providers PROVE Provider(v)'
    OBVIOUS
<1>0. StoreTypeOK /\ Published /\ ReleaseStays /\ Provider(v)
  BY ReleaseStep DEF StoreInv
<1>1. ASSUME inspected \subseteq inspected', declared'[v] = declared[v], parser'[v] = parser[v]
      PROVE  Provider(v)'
  BY <1>0, <1>1, IsStays DEF Provider, ReleaseStays, Is, Whole
<1>2. CASE InspectRelease(v)
  <2>1. release' = release /\ parser' = parser /\ v \in inspected'
        /\ declared'[v] = {d.manifest : d \in {e \in release : Valid(e, Beside)}}
    BY <1>0, <1>2 DEF InspectRelease, store, StoreTypeOK
  <2>2. parser'[v] = {}
    BY <1>0, <1>2, <2>1 DEF InspectRelease, Provider
  <2>3. declared'[v] # {} => \E m \in Versions : declared'[v] = {m} /\ Is(release, m)'
    <3>1. ASSUME NEW m \in Versions, Is(release, m), declared'[v] # {} PROVE declared'[v] = {m} /\ Is(release, m)'
      <4>1. \A d \in release : d = Whole(m) /\ d.manifest = m
        BY <3>1, WholeContent DEF Is
      <4>2. declared'[v] = {m}
        BY <2>1, <3>1, <4>1
      <4> QED BY <2>1, <3>1, <4>2 DEF Is, Whole
    <3> QED BY <1>0, <2>1, <3>1 DEF Published
  <2> QED
    BY <2>1, <2>2, <2>3 DEF Provider
<1>3. CASE LoadParser(v)
  <2>1. release' = release /\ inspected' = inspected /\ declared' = declared /\ declared[v] # {}
        /\ parser'[v] = {d \in release : Valid(d, Beside)}
    BY <1>0, <1>3 DEF LoadParser, store, StoreTypeOK
  <2>2. parser'[v] # {} => parser'[v] = release
    BY <1>0, <2>1 DEF Provider, Is
  <2> QED BY <1>0, <2>1, <2>2, IsStays DEF Provider
<1>4. ASSUME NEW w \in Providers, w # v, InspectRelease(w) \/ LoadParser(w) PROVE Provider(v)'
  <2>1. inspected \subseteq inspected' /\ declared'[v] = declared[v] /\ parser'[v] = parser[v]
    BY <1>0, <1>4 DEF InspectRelease, LoadParser, StoreTypeOK
  <2> QED BY <1>1, <2>1
<1>5. ASSUME UNCHANGED providers PROVE Provider(v)'
  BY <1>1, <1>5 DEF providers
<1>6. ASSUME NEW r \in Redeclarers, Redeclares(r) PROVE Provider(v)'
  BY <1>0, <1>1, <1>6, RedeclarerMoves
<1> QED
  BY <1>2, <1>3, <1>4, <1>5, <1>6 DEF StoreNext, Redeclares, WorkDone, storeVars, Inventory, Reserve, CopyMember,
     Verify, Promote, Confirm, Abort, Discard, Train, StopWorker

LEMMA RedeclaredStep == StoreInv /\ [StoreNext]_storeVars => Redeclared'
<1> SUFFICES ASSUME StoreInv, [StoreNext]_storeVars PROVE Redeclared'
    OBVIOUS
<1>0. /\ StoreTypeOK /\ Published /\ Redeclared /\ ReleaseStays
      /\ Promoters \subseteq Workers /\ Redeclarers \subseteq Workers
      /\ \A p \in Promoters : p \notin Redeclarers
  BY ReleaseStep, StoreAssumption DEF StoreInv, Workers
<1>1. ASSUME beside' \cup draft' # {} => beside \cup draft # {} \/ release # {},
             \A r \in Redeclarers :
                 /\ activity'[r] \in {"drafting", "writing"} =>
                      \/ activity[r] \in {"drafting", "writing"} /\ seen'[r] = seen[r]
                      \/ release # {} /\ seen'[r] \in SUBSET Redeclarations
                 /\ activity'[r] = "placing" => activity[r] \in {"writing", "placing"}
      PROVE  Redeclared'
  BY <1>0, <1>1 DEF Redeclared, ReleaseStays, Redeclarations
<1>2. ASSUME NEW r \in Redeclarers, Declare(r) PROVE Redeclared'
  <2>1. CASE release # {} /\ beside = {}
    <3>1. PICK d \in release, admits \in BOOLEAN :
              seen' = [seen EXCEPT ![r] = {[manifest |-> d.manifest, admits |-> admits, by |-> r]}]
      BY <1>2, <2>1 DEF Declare
    <3>2. d.manifest \in Versions
      BY <1>0, <2>1, WholeContent DEF Published, Is
    <3>3. seen'[r] \in SUBSET Redeclarations
      BY <1>0, <3>1, <3>2 DEF StoreTypeOK, Redeclarations
    <3> QED BY <1>0, <1>1, <1>2, <2>1, <3>1, <3>3 DEF Declare, Move, store, files_beside, StoreTypeOK
  <2> QED BY <1>0, <1>1, <1>2, <2>1 DEF Declare, Refuse, Move, Forget, store, files_beside, StoreTypeOK
<1>3. ASSUME NEW r \in Redeclarers, OpenDraft(r) \/ WriteDraft(r) PROVE Redeclared'
  BY <1>0, <1>1, <1>3 DEF OpenDraft, WriteDraft, Move, StoreTypeOK, Redeclared
<1>4. ASSUME NEW r \in Redeclarers, Place(r) PROVE Redeclared'
  BY <1>0, <1>1, <1>4 DEF Place, Move, Forget, StoreTypeOK
<1>5. ASSUME NEW r \in Redeclarers, Prove(r) \/ Withdraw(r) PROVE Redeclared'
  BY <1>0, <1>1, <1>5 DEF Prove, Withdraw, Refuse, Move, Forget, store, files_beside, StoreTypeOK
<1>6. ASSUME NEW p \in Promoters,
             \/ Inventory(p) \/ Reserve(p) \/ CopyMember(p) \/ Verify(p) \/ Promote(p)
             \/ Confirm(p) \/ Abort(p) \/ Discard(p)
      PROVE  Redeclared'
  BY <1>0, <1>1, <1>6, PromoterMoves DEF files_beside
<1>7. ASSUME NEW w \in Workers, StopWorker(w) PROVE Redeclared'
  BY <1>0, <1>1, <1>7 DEF StopWorker, Move, Forget, store, files_beside, StoreTypeOK
<1>8. ASSUME UNCHANGED <<beside, draft, activity, seen>> PROVE Redeclared'
  BY <1>1, <1>8
<1> QED
  BY <1>2, <1>3, <1>4, <1>5, <1>6, <1>7, <1>8 DEF StoreNext, WorkDone, storeVars, store,
     files_beside, workers, Train, InspectRelease, LoadParser

\* A redeclarer that has ended stays where it is, with the file it had opened.
LEMMA EndedStays ==
    ASSUME StoreTypeOK, NEW r \in Redeclarers, activity[r] \in Ended, [StoreNext]_storeVars
    PROVE  activity'[r] = activity[r] /\ opened'[r] = opened[r]
<1>0. r \in Workers BY DEF Workers
<1>1. ASSUME NEW w \in Workers, NEW from, NEW to, Move(w, from, to), from \notin Ended
      PROVE  activity'[r] = activity[r]
  BY <1>0, <1>1 DEF Move, StoreTypeOK
<1>2. ASSUME NEW q \in Redeclarers, Redeclares(q)
      PROVE  activity'[r] = activity[r] /\ opened'[r] = opened[r]
  <2>1. q \in Workers BY DEF Workers
  <2>2. q # r
    BY <1>2 DEF Redeclares, Declare, OpenDraft, WriteDraft, Place, Prove, Withdraw, Refuse, Move, Ended
  <2>3. activity'[r] = activity[r]
    BY <1>0, <1>2, <2>1, <2>2, RedeclarerMoves
  <2>4. CASE OpenDraft(q) BY <2>2, <2>3, <2>4 DEF OpenDraft, StoreTypeOK
  <2> QED BY <1>2, <2>3, <2>4 DEF Redeclares, Declare, WriteDraft, Place, Prove, Withdraw, store, files_beside
<1>3. ASSUME NEW p \in Workers,
             \/ p \in Promoters /\ (\/ Inventory(p) \/ Reserve(p) \/ CopyMember(p) \/ Verify(p)
                                    \/ Promote(p) \/ Confirm(p) \/ Abort(p) \/ Discard(p))
             \/ StopWorker(p)
      PROVE  activity'[r] = activity[r] /\ opened'[r] = opened[r]
  <2>1. p # r
    BY <1>3, StoreAssumption DEF StopWorker
  <2> QED BY <1>0, <1>3, <2>1, PromoterMoves DEF files_beside
<1>4. CASE UNCHANGED <<activity, opened>>
  BY <1>4
<1> QED
  BY <1>2, <1>3, <1>4 DEF StoreNext, Redeclares, WorkDone, Workers, storeVars, store, files_beside,
     workers, Train, InspectRelease, LoadParser

\* Whoever was overtaken or cut off stays so.
LEMMA SpoiledStays == StoreTypeOK /\ Spoiled /\ [StoreNext]_storeVars => Spoiled'
BY EndedStays DEF Spoiled, CutOff, Ended

\* Whoever is at work on the file has opened it.
LEMMA OpenedStep ==
    ASSUME StoreTypeOK, Handled, [StoreNext]_storeVars, NEW r \in Redeclarers, AtWork(r)'
    PROVE  opened'[r] # {}
<1>0. r \in Workers /\ (AtWork(r) => opened[r] # {})
  BY DEF Workers, Handled
<1>1. ASSUME opened'[r] = opened[r], activity'[r] = activity[r] \/ AtWork(r) PROVE opened'[r] # {}
  BY <1>0, <1>1 DEF AtWork
<1>2. CASE Redeclares(r)
  <2>1. CASE OpenDraft(r)
    BY <2>1 DEF OpenDraft, StoreTypeOK
  <2>2. CASE Declare(r)
    <3>1. activity'[r] \in {"drafting", "ended"}
      BY <1>0, <2>2 DEF Declare, Refuse, Move, StoreTypeOK
    <3> QED BY <3>1 DEF AtWork
  <2>3. CASE WriteDraft(r) \/ Place(r) \/ Prove(r) \/ Withdraw(r)
    BY <1>1, <2>3 DEF WriteDraft, Place, Prove, Withdraw, Refuse, Move, AtWork, store, files_beside
  <2> QED BY <1>2, <2>1, <2>2, <2>3 DEF Redeclares
<1>3. ASSUME NEW q \in Redeclarers, q # r, Redeclares(q) PROVE opened'[r] # {}
  <2>1. activity'[r] = activity[r]
    BY <1>0, <1>3, RedeclarerMoves
  <2>2. opened'[r] = opened[r]
    BY <1>3 DEF Redeclares, Declare, OpenDraft, WriteDraft, Place, Prove, Withdraw, store, files_beside,
       StoreTypeOK
  <2> QED BY <1>1, <2>1, <2>2
<1>4. CASE StopWorker(r)
  <2>1. activity'[r] = "stopped"
    BY <1>0, <1>4 DEF StopWorker, Move, StoreTypeOK
  <2> QED BY <2>1 DEF AtWork
<1>5. ASSUME NEW p \in Workers, p # r,
             \/ p \in Promoters /\ (\/ Inventory(p) \/ Reserve(p) \/ CopyMember(p) \/ Verify(p)
                                    \/ Promote(p) \/ Confirm(p) \/ Abort(p) \/ Discard(p))
             \/ StopWorker(p)
      PROVE  opened'[r] # {}
  BY <1>0, <1>1, <1>5, PromoterMoves DEF files_beside
<1>6. CASE UNCHANGED <<activity, opened>>
  BY <1>1, <1>6
<1> QED
  BY <1>2, <1>3, <1>4, <1>5, <1>6, StoreAssumption DEF StoreNext, Redeclares, WorkDone, Workers,
     storeVars, store, files_beside, workers, Train, InspectRelease, LoadParser

\* Steps that leave the files beside the release alone, and redeclarers outside
\* or where they are.
LEMMA HandledStays ==
    ASSUME StoreTypeOK, Handled, UNCHANGED files_beside, release' = release \/ beside = {},
           \A r \in Redeclarers :
              \/ activity'[r] = activity[r]
              \/ activity[r] = "starting" /\ activity'[r] \in {"drafting", "ended"}
    PROVE  Spoiled' \/ Crowded' \/ Orderly'
<1>1. Writers' = Writers
  BY DEF Writers
<1>2. CASE Spoiled
  BY <1>2 DEF Spoiled, CutOff, files_beside
<1>3. CASE Crowded
  BY <1>1, <1>3 DEF Crowded, files_beside
<1>4. CASE Orderly
  <2>1. LoadsAsDeclared => LoadsAsDeclared'
    BY DEF LoadsAsDeclared, Beside, Valid, Whole, files_beside
  <2>2. UNCHANGED <<beside, draft, opened>> /\ beside \subseteq Redeclarers
    BY DEF files_beside, StoreTypeOK
  <2>3. \A r \in beside' : activity'[r] \in {"proving", "withdrawing", "ended"}
    BY <1>4, <2>2 DEF Orderly
  <2>4. (\A r \in Redeclarers : activity'[r] \notin {"proving", "withdrawing"}) => LoadsAsDeclared'
    BY <1>4, <2>1 DEF Orderly
  <2> QED BY <1>1, <1>4, <2>2, <2>3, <2>4 DEF Orderly
<1> QED BY <1>2, <1>3, <1>4 DEF Handled

\* A redeclarer's own step once it has something to write.
LEMMA OwnRedeclaration ==
    ASSUME StoreInv, NEW r \in Redeclarers, ~Spoiled, ~Spoiled',
           OpenDraft(r) \/ WriteDraft(r) \/ Place(r) \/ Prove(r) \/ Withdraw(r)
    PROVE  Spoiled' \/ Crowded' \/ Orderly'
<1>0. /\ StoreTypeOK /\ Handled /\ r \in Workers
      /\ Crowded \/ Orderly
      /\ release' = release /\ beside \subseteq Redeclarers /\ r \in DOMAIN activity
      /\ \A q \in Redeclarers \ {r} : activity'[q] = activity[q]
  <2>2. beside \subseteq Redeclarers /\ DOMAIN activity = Workers
    BY DEF StoreInv, StoreTypeOK
  <2>1. r \in Workers /\ \A q \in Redeclarers \ {r} : q \in Workers \ {r}
    BY DEF Workers
  <2> QED BY <2>1, <2>2, RedeclarerMoves DEF StoreInv, Handled, Redeclares
<1>1. ASSUME UNCHANGED <<beside, text>> PROVE LoadsAsDeclared => LoadsAsDeclared'
  BY <1>0, <1>1 DEF LoadsAsDeclared, Beside, Valid, Whole
<1>2. CASE OpenDraft(r)
  <2>1. activity[r] = "drafting" /\ activity'[r] = "writing" /\ beside' = beside
    BY <1>0, <1>2 DEF OpenDraft, Move
  <2>2. Writers' = Writers \cup {r} /\ r \notin Writers
    BY <1>0, <2>1 DEF Writers
  <2>3. PICK file : /\ file = IF draft = {} THEN {r} ELSE draft
                    /\ draft' = file /\ opened' = [opened EXCEPT ![r] = file]
                    /\ text' = [f \in Redeclarers |-> IF f \in file THEN Empty(f) ELSE text[f]]
    BY <1>2 DEF OpenDraft
  <2>5. CASE Writers # {}
    BY <2>2, <2>5 DEF Crowded
  <2>6. CASE Writers = {}
    <3>1. Orderly /\ draft = {} /\ file = {r}
      BY <1>0, <2>3, <2>6 DEF Crowded, Orderly
    <3>2. r \notin beside
      BY <2>1, <3>1 DEF Orderly
    <3>3. LoadsAsDeclared => LoadsAsDeclared'
      <4>1. \A f \in beside : text'[f] = text[f]
        BY <1>0, <2>3, <3>1, <3>2
      <4>2. Beside' = Beside
        BY <2>1, <4>1 DEF Beside
      <4> QED BY <1>0, <2>1, <4>2 DEF LoadsAsDeclared, Valid, Whole
    <3>4. \A q \in Redeclarers : opened'[q] \subseteq {q}
      BY <1>0, <2>3, <3>1 DEF Orderly
    <3>5. Writers' = draft'
      BY <2>2, <2>3, <2>6, <3>1
    <3>6. \A q \in beside' : activity'[q] \in {"proving", "withdrawing", "ended"}
      BY <1>0, <2>1, <3>1, <3>2 DEF Orderly
    <3>7. (\A q \in Redeclarers : activity'[q] \notin {"proving", "withdrawing"}) => LoadsAsDeclared'
      BY <1>0, <2>1, <3>1, <3>3 DEF Orderly
    <3> QED BY <3>4, <3>5, <3>6, <3>7 DEF Orderly
  <2> QED BY <2>5, <2>6
<1>3. CASE WriteDraft(r)
  <2>1. /\ activity[r] = "writing" /\ activity'[r] = "placing"
        /\ beside' = beside /\ draft' = draft /\ opened' = opened
    BY <1>0, <1>3 DEF WriteDraft, Move
  <2>2. Writers' = Writers /\ r \in Writers
    BY <1>0, <2>1 DEF Writers
  <2>5. CASE Crowded
    BY <2>1, <2>2, <2>5 DEF Crowded
  <2>6. CASE Orderly
    <3>1. r \notin beside
      BY <2>1, <2>6 DEF Orderly
    <3>2. \A f \in beside : text'[f] = text[f]
      <4>1. PICK f \in opened[r] : \E t : text' = [text EXCEPT ![f] = t]
        BY <1>3 DEF WriteDraft
      <4>2. f = r
        BY <2>6, <4>1 DEF Orderly
      <4> QED BY <1>0, <3>1, <4>1, <4>2 DEF StoreTypeOK
    <3>3. LoadsAsDeclared => LoadsAsDeclared'
      <4>1. Beside' = Beside
        BY <2>1, <3>2 DEF Beside
      <4> QED BY <1>0, <2>1, <4>1 DEF LoadsAsDeclared, Valid, Whole
    <3>4. \A q \in beside' : activity'[q] \in {"proving", "withdrawing", "ended"}
      BY <1>0, <2>1, <2>6, <3>1 DEF Orderly
    <3>5. (\A q \in Redeclarers : activity'[q] \notin {"proving", "withdrawing"}) => LoadsAsDeclared'
      BY <1>0, <2>1, <2>6, <3>3 DEF Orderly
    <3> QED BY <2>1, <2>2, <2>6, <3>4, <3>5 DEF Orderly
  <2> QED BY <1>0, <2>5, <2>6
<1>4. CASE Place(r)
  <2>1. activity[r] = "placing" /\ opened' = opened /\ text' = text
    BY <1>4 DEF Place, Move
  <2>2. /\ draft # {} /\ activity'[r] = "proving"
        /\ beside' = draft /\ draft' = {}
    <3>1. activity'[r] # "overtaken"
      BY DEF Spoiled
    <3> QED BY <1>0, <1>4, <3>1 DEF Place, Move
  <2>3. Writers' = Writers \ {r} /\ r \in Writers
    BY <1>0, <2>1, <2>2 DEF Writers
  <2>5. CASE Writers = {r}
    <3>1. Orderly /\ draft = {r}
      BY <1>0, <2>2, <2>5 DEF Crowded, Orderly
    <3> QED BY <2>1, <2>2, <2>3, <2>5, <3>1 DEF Orderly
  <2>6. CASE Writers # {r}
    BY <2>2, <2>3, <2>6 DEF Crowded
  <2> QED BY <2>5, <2>6
<1>5. CASE Prove(r)
  <2>1. /\ activity[r] = "proving" /\ activity'[r] \in {"ended", "withdrawing"}
        /\ UNCHANGED files_beside
        /\ activity'[r] = "ended" => LoadsAsDeclared
    BY <1>0, <1>5 DEF Prove, Move, store, LoadsAsDeclared
  <2>2. Writers' = Writers
    BY <1>0, <2>1 DEF Writers
  <2>5. CASE Crowded
    BY <2>1, <2>2, <2>5 DEF Crowded, files_beside
  <2>6. CASE Orderly
    <3>1. \A q \in beside' : activity'[q] \in {"proving", "withdrawing", "ended"}
      BY <1>0, <2>1, <2>6 DEF Orderly, files_beside
    <3>2. activity'[r] # "withdrawing" => LoadsAsDeclared'
      BY <1>1, <2>1 DEF files_beside
    <3> QED BY <2>1, <2>2, <2>6, <3>1, <3>2 DEF Orderly, files_beside
  <2> QED BY <1>0, <2>5, <2>6
<1>6. CASE Withdraw(r)
  <2>1. /\ activity[r] = "withdrawing" /\ activity'[r] = "ended"
        /\ beside' = {} /\ draft' = draft /\ opened' = opened
    BY <1>0, <1>6 DEF Withdraw, Refuse, Move
  <2>2. Writers' = Writers
    BY <1>0, <2>1 DEF Writers
  <2>5. CASE Crowded
    BY <2>1, <2>2, <2>5 DEF Crowded
  <2>6. CASE Orderly
    BY <2>1, <2>2, <2>6 DEF Orderly, LoadsAsDeclared
  <2> QED BY <1>0, <2>5, <2>6
<1> QED BY <1>2, <1>3, <1>4, <1>5, <1>6

\* A redeclarer that is killed before it opens the file leaves nothing behind.
LEMMA KilledRedeclarer ==
    ASSUME StoreInv, NEW r \in Redeclarers, ~Spoiled, ~Spoiled', StopWorker(r)
    PROVE  Spoiled' \/ Crowded' \/ Orderly'
<1>0. /\ StoreTypeOK /\ Handled /\ r \in Workers
      /\ Crowded \/ Orderly
      /\ UNCHANGED files_beside /\ release' = release /\ beside \subseteq Redeclarers
      /\ activity'[r] = "stopped"
      /\ \A q \in Redeclarers \ {r} : activity'[q] = activity[q]
  BY DEF StoreInv, Handled, StopWorker, Move, store, StoreTypeOK, Workers
<1>1. opened[r] = {} /\ ~AtWork(r)
  <2>1. opened'[r] = {}
    BY <1>0 DEF Spoiled, CutOff
  <2>2. AtWork(r) => opened[r] # {}
    BY <1>0 DEF Handled
  <2>3. opened' = opened
    BY <1>0 DEF files_beside
  <2> QED BY <2>1, <2>2, <2>3
<1>2. Writers' = Writers
  BY <1>0, <1>1 DEF Writers, AtWork
<1>3. CASE Crowded
  BY <1>0, <1>2, <1>3 DEF Crowded, files_beside
<1>4. CASE Orderly
  <2>1. r \notin beside
    BY <1>1, <1>4, StoreAssumption DEF Orderly, AtWork, StopWorker, Ended
  <2>2. LoadsAsDeclared => LoadsAsDeclared'
    BY <1>0 DEF LoadsAsDeclared, Beside, Valid, Whole, files_beside
  <2>3. \A q \in beside' : activity'[q] \in {"proving", "withdrawing", "ended"}
    BY <1>0, <1>4, <2>1 DEF Orderly, files_beside
  <2>4. (\A q \in Redeclarers : activity'[q] \notin {"proving", "withdrawing"}) => LoadsAsDeclared'
    BY <1>0, <1>1, <1>4, <2>2 DEF Orderly, AtWork
  <2> QED BY <1>0, <1>2, <1>4, <2>3, <2>4 DEF Orderly, files_beside
<1> QED BY <1>0, <1>3, <1>4

LEMMA HandledStep == StoreInv /\ [StoreNext]_storeVars => Handled'
<1> SUFFICES ASSUME StoreInv, [StoreNext]_storeVars PROVE Handled'
    OBVIOUS
<1>0. StoreTypeOK /\ Redeclared /\ Handled /\ Redeclarers \subseteq Workers /\ Promoters \subseteq Workers
  BY DEF StoreInv, Workers
<1>1. ASSUME Spoiled' \/ Crowded' \/ Orderly' PROVE Handled'
  BY <1>0, <1>1, OpenedStep DEF Handled
<1>2. ASSUME ~Spoiled' PROVE ~Spoiled
  BY <1>0, <1>2, SpoiledStays
<1>3. ASSUME NEW r \in Redeclarers, Declare(r) PROVE Handled'
  <2>1. UNCHANGED files_beside /\ release' = release
    BY <1>3 DEF Declare, store
  <2>2. activity[r] = "starting" /\ activity'[r] \in {"drafting", "ended"}
    BY <1>0, <1>3 DEF Declare, Refuse, Move, StoreTypeOK
  <2>3. \A q \in Redeclarers \ {r} : activity'[q] = activity[q]
    BY <1>0, <1>3, RedeclarerMoves DEF Redeclares
  <2> QED BY <1>0, <2>1, <2>2, <2>3, <1>1, HandledStays
<1>4. ASSUME NEW p \in Promoters,
             \/ Inventory(p) \/ Reserve(p) \/ CopyMember(p) \/ Verify(p) \/ Promote(p)
             \/ Confirm(p) \/ Abort(p) \/ Discard(p) \/ StopWorker(p)
      PROVE  Handled'
  <2>1. UNCHANGED files_beside /\ \A q \in Redeclarers : activity'[q] = activity[q]
    BY <1>0, <1>4, PromoterMoves, StoreAssumption
  <2>2. release' = release \/ beside = {}
    BY <1>0, <1>4 DEF Inventory, Reserve, CopyMember, Verify, Promote, Confirm, Abort, Discard,
       StopWorker, store, Redeclared
  <2> QED BY <1>0, <1>1, <2>1, <2>2, HandledStays
<1>5. ASSUME UNCHANGED <<release, files_beside, activity>> PROVE Handled'
  BY <1>0, <1>1, <1>5, HandledStays
<1>6. ASSUME NEW r \in Redeclarers,
             OpenDraft(r) \/ WriteDraft(r) \/ Place(r) \/ Prove(r) \/ Withdraw(r) \/ StopWorker(r)
      PROVE  Handled'
  BY <1>1, <1>2, <1>6, OwnRedeclaration, KilledRedeclarer
<1> QED
  BY <1>3, <1>4, <1>5, <1>6 DEF StoreNext, Workers, WorkDone, storeVars, store, workers, Train,
     InspectRelease, LoadParser

LEMMA StoreInvariant == StoreSpec => []StoreInv
<1>1. StoreInv /\ [StoreNext]_storeVars => StoreInv'
  <2> SUFFICES ASSUME StoreInv, [StoreNext]_storeVars PROVE StoreInv'
      OBVIOUS
  <2>1. StoreTypeOK'
    BY StoreTypeStep DEF StoreInv
  <2> QED
    BY <2>1, ReleaseStep, RedeclaredStep, HandledStep, PromotionStep, ProviderStep DEF StoreInv
<1> QED
  BY <1>1, StoreInitially, PTL DEF StoreSpec

\* The variables of the store keep their types.
THEOREM StoreTyping == StoreSpec => []StoreTypeOK
BY StoreInvariant, PTL DEF StoreInv

\* The release is one whole version although candidates change while they are
\* copied (promote_model_release validates the copy), a receipt names it, and a
\* provider runs what it has declared.
THEOREM Verified == StoreSpec => []PublishedIsVerified
<1>1. StoreInv => PublishedIsVerified
  <2> SUFFICES ASSUME StoreInv PROVE PublishedIsVerified
      OBVIOUS
  <2>1. \A d \in release : d.manifest \in Versions /\ d = Whole(d.manifest)
    BY WholeContent DEF StoreInv, Published, Is
  <2>2. ASSUME NEW p \in Promoters, result[p] = "receipt" PROVE release = {Whole(v) : v \in seen[p]}
    BY <2>2 DEF StoreInv, Promotion, Is
  <2>3. ASSUME NEW v \in Providers, parser[v] # {} PROVE parser[v] = {Whole(m) : m \in declared[v]}
    BY <2>3 DEF StoreInv, Provider, Is
  <2> QED BY <2>1, <2>2, <2>3 DEF PublishedIsVerified
<1> QED
  BY <1>1, StoreInvariant, PTL

\* No step of promote_model_release replaces or removes a release, whoever loses
\* the race between the test for the destination and the rename.
THEOREM Immutable == StoreSpec => ReleasesAreImmutable
<1>1. StoreInv /\ [StoreNext]_storeVars => [ReleaseStays]_storeVars
  BY ReleaseStep
<1> QED
  BY <1>1, StoreInvariant, PTL DEF StoreSpec, ReleasesAreImmutable

\* When no redeclare_compatibility is at work, and none was killed or overtaken
\* between opening the shared temporary file and its end, what lies beside a
\* release lets it be loaded, however their steps interleave.
THEOREM Proven == StoreSpec => []RedeclarationsAreProven
<1>1. StoreInv => RedeclarationsAreProven
  <2> SUFFICES ASSUME StoreInv, \A r \in Redeclarers : ~AtWork(r) /\ ~CutOff(r) /\ activity[r] # "overtaken"
               PROVE  LoadsAsDeclared
      BY DEF RedeclarationsAreProven
  <2>1. ~Spoiled /\ ~Crowded
    BY DEF Spoiled, Crowded, Writers, AtWork
  <2> QED BY <2>1 DEF StoreInv, Handled, Orderly, AtWork
<1> QED
  BY <1>1, StoreInvariant, PTL
=============================================================================
