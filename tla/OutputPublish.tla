----------------------------- MODULE OutputPublish -----------------------------
(***************************************************************************)
(* OutputDestination (rdam/_output.py) as the command line uses it: the    *)
(* destination is validated before the work, and again, twice, when the    *)
(* result is published through a temporary file that is renamed over the   *)
(* target (with force) or linked to it (without).  Other commands and      *)
(* programs use the directory at the same time, and an interrupt may raise *)
(* KeyboardInterrupt between any two calls.                                *)
(***************************************************************************)
EXTENDS Naturals

CONSTANTS
    Publishers,     \* commands that publish to one path
    Forcing,        \* those with --force
    Directories,    \* those that the path's parent may lead to
    MaxMeddling     \* bound: changes by other programs

\* What another program may put there: nothing; a directory, a symbolic link or
\* the like; a file that is one of the publishers' inputs; any other file.
Foreign == {"absent", "irregular", "input", "regular"}

ASSUME OutputPublishAssumption ==
    /\ Forcing \subseteq Publishers
    /\ Publishers \cap (Foreign \cup {"partial"}) = {}
    /\ MaxMeddling \in Nat

VARIABLES
    target,     \* what the name is in each directory: foreign, a record or "partial"
    parent,     \* the directory that the path leads to
    directory,  \* the one that each publisher has opened
    temp,       \* each publisher's temporary file, in that directory
    owned, published,   \* the flags of publish
    report,     \* publication_state of the error, or "published" on success
    pc,
    made,       \* publishers whose record has come to the target
    meddling

flags == <<owned, published>>
files == <<target, temp, made>>
world == <<parent, meddling>>
vars == <<files, world, directory, flags, report, pc>>

\* "validating" is the check of cli.main; "publishing" is the one that publish
\* begins with, and "cleaning" its finally clause, which fails or is interrupted
\* when it ends in "littered".
Body == {"opening", "creating", "owning", "writing", "rechecking", "comparing", "inspecting",
         "renaming", "linking", "disowning", "recording", "removing", "syncing"}
Ends == {"ended", "littered", "killed"}
PCs == {"validating", "publishing", "cleaning"} \cup Body \cup Ends

Init ==
    /\ target \in [Directories -> Foreign]
    /\ parent \in Directories
    /\ directory = [p \in Publishers |-> parent]
    /\ temp = [p \in Publishers |-> "absent"]
    /\ owned = [p \in Publishers |-> FALSE]
    /\ published = [p \in Publishers |-> FALSE]
    /\ report = [p \in Publishers |-> "none"]
    /\ pc = [p \in Publishers |-> "validating"]
    /\ made = {}
    /\ meddling = 0

Goto(p, from, to) == pc[p] = from /\ pc' = [pc EXCEPT ![p] = to]
Set(f, p, value) == [f EXCEPT ![p] = value]

\* The name in the directory that p has opened.
Here(p) == target[directory[p]]

\* validate: an existing target must be a file, no input, and need force.
Acceptable(p) ==
    target[parent] \in IF p \in Forcing
                       THEN {"absent", "regular", "partial"} \cup Publishers ELSE {"absent"}

\* An error leaves the body; its state is what the flag says at that moment.
Fail(p, from) ==
    /\ Goto(p, from, "cleaning")
    /\ report' = Set(report, p, IF published[p] THEN "published" ELSE "not_published")
    /\ UNCHANGED <<files, world, directory, flags>>

\* self.validate() in main, before the work, and at the start of publish.
Validate(p) ==
    /\ \/ /\ Acceptable(p)
          /\ Goto(p, "validating", "publishing") \/ Goto(p, "publishing", "opening")
          /\ UNCHANGED report
       \/ /\ ~Acceptable(p)
          /\ \E from \in {"validating", "publishing"} : Goto(p, from, "ended")
          /\ report' = Set(report, p, "not_published")
    /\ UNCHANGED <<files, world, directory, flags>>

\* os.open(self.path.parent)
Open(p) ==
    \/ /\ Goto(p, "opening", "creating")
       /\ directory' = Set(directory, p, parent)
       /\ UNCHANGED <<files, world, flags, report>>
    \/ Fail(p, "opening")

\* os.open of the temporary file, O_EXCL under a new name.
Create(p) ==
    \/ /\ Goto(p, "creating", "owning")
       /\ temp' = Set(temp, p, "partial")
       /\ UNCHANGED <<target, made, world, directory, flags, report>>
    \/ Fail(p, "creating")

\* owned = True
Own(p) ==
    /\ Goto(p, "owning", "writing")
    /\ owned' = Set(owned, p, TRUE)
    /\ UNCHANGED <<files, world, directory, published, report>>

\* Mutant: the record is published before it has been written out.
Write_Unfinished(p) ==
    \/ /\ Goto(p, "writing", "rechecking")
       /\ UNCHANGED <<files, world, directory, flags, report>>
    \/ Fail(p, "writing")

\* fdopen, write, flush, fsync, close
Write(p) ==
    \/ /\ Goto(p, "writing", "rechecking")
       /\ temp' = Set(temp, p, "whole")
       /\ UNCHANGED <<target, made, world, directory, flags, report>>
    \/ Fail(p, "writing")

\* self.validate(), again.
Recheck(p) ==
    \/ /\ Acceptable(p)
       /\ Goto(p, "rechecking", "comparing")
       /\ UNCHANGED <<files, world, directory, flags, report>>
    \/ ~Acceptable(p) /\ Fail(p, "rechecking")

\* The path must still lead to the directory that was opened.
Compare(p) ==
    \/ /\ directory[p] = parent
       /\ Goto(p, "comparing", IF p \in Forcing THEN "inspecting" ELSE "linking")
       /\ UNCHANGED <<files, world, directory, flags, report>>
    \/ directory[p] # parent /\ Fail(p, "comparing")

\* With force: os.stat, and an error unless S_ISREG.
Inspect(p) ==
    \/ /\ Here(p) # "irregular"
       /\ Goto(p, "inspecting", "renaming")
       /\ UNCHANGED <<files, world, directory, flags, report>>
    \/ Here(p) = "irregular" /\ Fail(p, "inspecting")

\* The record becomes visible.
Appear(p) ==
    /\ target' = Set(target, directory[p], IF temp[p] = "whole" THEN p ELSE "partial")
    /\ made' = made \cup {p}

\* os.replace: takes the place of anything but a directory.
Rename(p) ==
    \/ /\ Goto(p, "renaming", "disowning")
       /\ Appear(p)
       /\ temp' = Set(temp, p, "absent")
       /\ UNCHANGED <<world, directory, flags, report>>
    \/ Fail(p, "renaming")

\* Mutant: an existing target does not stop the publication.
Link_Overwrites(p) ==
    \/ /\ Goto(p, "linking", "recording")
       /\ Appear(p)
       /\ UNCHANGED <<temp, world, directory, flags, report>>
    \/ Fail(p, "linking")

\* os.link: fails if the target exists.
Link(p) ==
    \/ /\ Here(p) = "absent"
       /\ Goto(p, "linking", "recording")
       /\ Appear(p)
       /\ UNCHANGED <<temp, world, directory, flags, report>>
    \/ Fail(p, "linking")

\* owned = False, after the rename or after the removal of the linked file.
Disown(p) ==
    /\ Goto(p, "disowning", IF published[p] THEN "syncing" ELSE "recording")
    /\ owned' = Set(owned, p, FALSE)
    /\ UNCHANGED <<files, world, directory, published, report>>

\* Mutant: the publication is recorded after the temporary file is removed.
Record_Late(p) ==
    /\ Goto(p, "recording", IF owned[p] THEN "removing" ELSE "syncing")
    /\ published' = Set(published, p, ~owned[p])
    /\ UNCHANGED <<files, world, directory, owned, report>>

\* published = True
Record(p) ==
    /\ Goto(p, "recording", IF owned[p] THEN "removing" ELSE "syncing")
    /\ published' = Set(published, p, TRUE)
    /\ UNCHANGED <<files, world, directory, owned, report>>

\* os.unlink(temporary)
Remove(p) ==
    \/ /\ Goto(p, "removing", "disowning")
       /\ temp' = Set(temp, p, "absent")
       /\ UNCHANGED <<target, made, world, directory, flags, report>>
    \/ Fail(p, "removing")

\* os.fsync(directory), where EINVAL and ENOTSUP are no errors.
Sync(p) ==
    \/ /\ Goto(p, "syncing", "ended")
       /\ report' = Set(report, p, "published")
       /\ UNCHANGED <<files, world, directory, flags>>
    \/ Fail(p, "syncing")

\* KeyboardInterrupt: no publication state is reported.
Interrupt(p) ==
    /\ \/ \E from \in Body : Goto(p, from, "cleaning")
       \/ \E from \in {"validating", "publishing"} : Goto(p, from, "ended")
       \/ Goto(p, "cleaning", "littered")
    /\ report' = Set(report, p, "interrupted")
    /\ UNCHANGED <<files, world, directory, flags>>

\* Mutant: the cleanup trusts that a published file has been moved away.
Clean_IfUnpublished(p) ==
    /\ \/ /\ Goto(p, "cleaning", "ended")
          /\ temp' = IF owned[p] /\ ~published[p] THEN Set(temp, p, "absent") ELSE temp
       \/ owned[p] /\ Goto(p, "cleaning", "littered") /\ UNCHANGED temp
    /\ UNCHANGED <<target, made, world, directory, flags, report>>

\* finally: an owned file is removed if it is still there, and the exception
\* under way is raised whether or not ("littered") that works.
Clean(p) ==
    /\ \/ /\ Goto(p, "cleaning", "ended")
          /\ temp' = IF owned[p] THEN Set(temp, p, "absent") ELSE temp
       \/ owned[p] /\ Goto(p, "cleaning", "littered") /\ UNCHANGED temp
    /\ UNCHANGED <<target, made, world, directory, flags, report>>
--------------------------------------------------------------------------------
\* The process is killed.
Kill(p) ==
    /\ pc[p] \notin Ends
    /\ pc' = Set(pc, p, "killed")
    /\ UNCHANGED <<files, world, directory, flags, report>>

\* Another program puts something at the target, removes it, or makes the path
\* lead to another directory.
Meddle ==
    /\ meddling < MaxMeddling
    /\ meddling' = meddling + 1
    /\ \/ \E d \in Directories, f \in Foreign : target' = Set(target, d, f) /\ UNCHANGED parent
       \/ parent' \in Directories \ {parent} /\ UNCHANGED target
    /\ UNCHANGED <<temp, made, directory, flags, report, pc>>

Step(p) ==
    \/ Validate(p) \/ Open(p) \/ Create(p) \/ Own(p) \/ Write(p) \/ Recheck(p) \/ Compare(p)
    \/ Inspect(p) \/ Rename(p) \/ Link(p) \/ Disown(p) \/ Record(p) \/ Remove(p) \/ Sync(p)
    \/ Clean(p)

Finished == (\A p \in Publishers : pc[p] \in Ends) /\ UNCHANGED vars

Next ==
    \/ \E p \in Publishers : Step(p) \/ Interrupt(p) \/ Kill(p)
    \/ Meddle
    \/ Finished

Spec == Init /\ [][Next]_vars
--------------------------------------------------------------------------------
(* Properties *)

\* The type invariant.
TypeOK ==
    /\ target \in [Directories -> Foreign \cup Publishers \cup {"partial"}]
    /\ parent \in Directories
    /\ directory \in [Publishers -> Directories]
    /\ temp \in [Publishers -> {"absent", "partial", "whole"}]
    /\ owned \in [Publishers -> BOOLEAN]
    /\ published \in [Publishers -> BOOLEAN]
    /\ report \in [Publishers -> {"none", "published", "not_published", "interrupted"}]
    /\ pc \in [Publishers -> PCs]
    /\ made \in SUBSET Publishers
    /\ meddling \in Nat

\* "File output MUST be atomic" (specs/019 FR-018): whoever reads the target
\* finds a whole record, whatever fails, is interrupted or is killed.
WholeOrNothing == \A d \in Directories : target[d] # "partial"

\* "no-clobber by default": a record published without force took the place of
\* nothing, although the target may come into being after every check of it.
TakesNoPlace == \A p \in Publishers \ Forcing : p \in made' \ made => Here(p) = "absent"
NoClobber == [][TakesNoPlace]_vars

\* "A failure after atomic publication MUST report the actual publication
\* state": what a publisher reports is whether its record came to the target.
ReportIsTrue ==
    \A p \in Publishers :
        /\ report[p] = "published" => p \in made
        /\ report[p] = "not_published" => p \notin made

\* A publisher whose cleanup has run leaves no temporary file, whatever failed and
\* wherever it was interrupted, after os.link and before the flag included. One
\* window is left: an interrupt after the file was created and before "owned" was
\* set leaves the empty file, of which nothing has been published.
NoLeftover ==
    \A p \in Publishers :
        pc[p] = "ended" /\ temp[p] # "absent" =>
            report[p] = "interrupted" /\ temp[p] = "partial" /\ ~owned[p] /\ p \notin made
================================================================================
