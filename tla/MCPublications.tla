---------------------------- MODULE MCPublications ----------------------------
(***************************************************************************)
(* The two programs that publish by renaming, in one instance for TLC:     *)
(* commands that write their output, and promotion, re-declaration and     *)
(* loading of a model release.  They share nothing; a behaviour is one of  *)
(* them and leaves the other at one initial state.                         *)
(***************************************************************************)
EXTENDS OutputPublish, ModelStore, TLC

CONSTANTS
    careful, forceful, here, elsewhere,     \* publishers and directories
    p1, p2, r1, r2, v1, v2, old             \* promoters, redeclarers and versions

VARIABLE published_by     \* "command" or "store"
publicationVars == <<published_by, vars, storeVars>>

AnyOrder == Permutations({p1, p2}) \cup Permutations({r1, r2}) \cup Permutations({v1, v2})

IdleOutput ==
    /\ target = [d \in Directories |-> "absent"] /\ parent = here
    /\ directory = [p \in Publishers |-> here]
    /\ temp = [p \in Publishers |-> "absent"]
    /\ owned = [p \in Publishers |-> FALSE] /\ published = [p \in Publishers |-> FALSE]
    /\ report = [p \in Publishers |-> "none"] /\ pc = [p \in Publishers |-> "validating"]
    /\ made = {} /\ meddling = 0

IdleStore ==
    /\ candidate = [p \in Promoters |-> Whole(old)] /\ copy = [p \in Promoters |-> {}]
    /\ release = {} /\ beside = {} /\ draft = {}
    /\ text = [r \in Redeclarers |-> Empty(r)] /\ opened = [r \in Redeclarers |-> {}]
    /\ activity = [w \in Workers |-> "starting"] /\ seen = [w \in Workers |-> {}]
    /\ result = [w \in Workers |-> "none"]
    /\ inspected = {} /\ edits = 0
    /\ declared = [v \in Providers |-> {}] /\ parser = [v \in Providers |-> {}]

\* Candidates are whole and compatible at first, until training changes them; one
\* of the four workers has nothing to do.
PublicationsInit ==
    \/ published_by = "command" /\ Init /\ IdleStore
    \/ /\ published_by = "store" /\ IdleOutput /\ StoreInit
       /\ \E idle \in Workers : \A w \in Workers : activity[w] = "ended" <=> w = idle
       /\ \A p \in Promoters : \E v \in Compatible : candidate[p] = Whole(v)

PublicationsNext ==
    /\ published_by' = published_by
    /\ \/ published_by = "command" /\ Next /\ UNCHANGED storeVars
       \/ published_by = "store" /\ StoreNext /\ UNCHANGED vars

PublicationsSpec == PublicationsInit /\ [][PublicationsNext]_publicationVars
=============================================================================
