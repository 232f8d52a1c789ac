----------------------------- MODULE SdrtGraph -----------------------------
(***************************************************************************)
(* The validator SdrtAnalysis.valid_sdrs of rdam/sdrt/graph.py, which      *)
(* decides whether a proposed discourse graph is accepted: acyclic         *)
(* membership, acyclic relations, one structural class per pair, a         *)
(* connected graph, and an attachment from the right frontier for each     *)
(* elementary unit (EDU) after the first.  The two searches for cycles and *)
(* the growth of the frontier are modelled step by step, in any order that *)
(* Python's sets and the proposal's lists may give them.                   *)
(*                                                                         *)
(* EDUs are 1..n in the order of the text; complex units (CDUs) are model  *)
(* values with a set of members.  Proposals have unique ids, known         *)
(* endpoints and ordered spans: those checks are about single records.     *)
(***************************************************************************)
EXTENDS Naturals, Sequences, SequencesExt, FiniteSets

CONSTANT Proposals    \* records [n, members, relations]

ASSUME ProposalsAssumption ==
    \A p \in Proposals :
        LET units == 1..p.n \cup DOMAIN p.members
        IN  /\ p.n \in Nat \ {0} /\ IsFiniteSet(DOMAIN p.members)
            /\ 1..p.n \cap DOMAIN p.members = {}
            /\ \A c \in DOMAIN p.members : p.members[c] \subseteq units \ {c}
            /\ \A r \in p.relations : {r.source, r.target} \subseteq units /\ r.source # r.target

VARIABLES
    proposal,
    validator,   \* the validator that runs, or the verdict
    mark,        \* _has_cycle: 0, entered (1) or left (2), for each unit
    visits,      \* _has_cycle: the stack, its top last
    edu,         \* _validate_right_frontier: the EDU to attach
    frontier     \* and the frontier before it
sdrtVars == <<proposal, validator, mark, visits, edu, frontier>>

Edus == 1..proposal.n
Cdus == DOMAIN proposal.members
Units == Edus \cup Cdus
Relations == proposal.relations

\* The graph that the current search walks.
Targets(u) ==
    IF validator = "membership" THEN IF u \in Cdus THEN proposal.members[u] \cap Cdus ELSE {}
                            ELSE {r.target : r \in {s \in Relations : s.source = u}}

\* The keys of the adjacency that it is given.
Nodes == IF validator = "membership" THEN Cdus ELSE UNION {{r.source, r.target} : r \in Relations}

Unmarked(p) == [u \in 1..p.n \cup DOMAIN p.members |-> 0]

SdrtInit ==
    /\ proposal \in Proposals
    /\ validator = "membership"
    /\ mark = Unmarked(proposal) /\ visits = <<>>
    /\ edu = 1 /\ frontier = {}

-----------------------------------------------------------------------------
(***************************************************************************)
(* _has_cycle: a depth-first search with a stack of its own.               *)
(***************************************************************************)
Searching == validator \in {"membership", "relations"}

Root ==
    /\ Searching /\ visits = <<>>
    /\ \E u \in Nodes : mark[u] # 2 /\ visits' = <<[unit |-> u, expanded |-> FALSE]>>
    /\ UNCHANGED <<proposal, validator, mark, edu, frontier>>

Top == Last(visits)

Enter ==
    /\ Searching /\ visits # <<>> /\ ~Top.expanded /\ mark[Top.unit] = 0
    /\ mark' = [mark EXCEPT ![Top.unit] = 1]
    /\ \E order \in SetToSeqs(Targets(Top.unit)) :
           visits' = Front(visits) \o <<[unit |-> Top.unit, expanded |-> TRUE]>>
                          \o [i \in DOMAIN order |-> [unit |-> order[i], expanded |-> FALSE]]
    /\ UNCHANGED <<proposal, validator, edu, frontier>>

Leave ==
    /\ Searching /\ visits # <<>> /\ Top.expanded
    /\ mark' = [mark EXCEPT ![Top.unit] = 2]
    /\ visits' = Front(visits)
    /\ UNCHANGED <<proposal, validator, edu, frontier>>

Skip ==
    /\ Searching /\ visits # <<>> /\ ~Top.expanded /\ mark[Top.unit] = 2
    /\ visits' = Front(visits)
    /\ UNCHANGED <<proposal, validator, mark, edu, frontier>>

\* Mutant: a unit that was left is taken for one on the path as well.
FoundCycle_AnyMark ==
    /\ Searching /\ visits # <<>> /\ ~Top.expanded /\ mark[Top.unit] # 0
    /\ validator' = "rejected"
    /\ UNCHANGED <<proposal, mark, visits, edu, frontier>>
\* A unit that has been entered and not left is met again.
FoundCycle ==
    /\ Searching /\ visits # <<>> /\ ~Top.expanded /\ mark[Top.unit] = 1
    /\ validator' = "rejected"
    /\ UNCHANGED <<proposal, mark, visits, edu, frontier>>

Acyclic ==
    /\ Searching /\ visits = <<>> /\ \A u \in Nodes : mark[u] = 2
    /\ validator' = IF validator = "membership" THEN "relations" ELSE "classes"
    /\ mark' = Unmarked(proposal)
    /\ UNCHANGED <<proposal, visits, edu, frontier>>

-----------------------------------------------------------------------------
\* _validate_structural_classes and _validate_connectivity, which walk no order.
OneClassPerPair ==
    \A r, s \in Relations : r.source = s.source /\ r.target = s.target => r.class = s.class

Links == {link \in Cdus \X Units : link[2] \in proposal.members[link[1]]}
             \cup {<<r.source, r.target>> : r \in Relations}

\* The units that _connected reaches from u in at most k rounds.
Reached(u) ==
    LET reached[k \in Nat] ==
            IF k = 0 THEN {u}
            ELSE reached[k - 1] \cup {v \in Units : \E w \in reached[k - 1] : {<<v, w>>, <<w, v>>} \cap Links # {}}
    IN  reached[Cardinality(Units)]

\* The EDUs that _elementary_members finds in a unit; membership is acyclic by now.
ElementaryMembers(unit) ==
    LET members[k \in Nat] ==
            [u \in Units |-> IF u \in Edus THEN {u}
                             ELSE IF k = 0 THEN {} ELSE UNION {members[k - 1][m] : m \in proposal.members[u]}]
    IN  members[Cardinality(Cdus)][unit]

Classes ==
    /\ validator = "classes"
    /\ validator' = IF OneClassPerPair THEN "connectivity" ELSE "rejected"
    /\ UNCHANGED <<proposal, mark, visits, edu, frontier>>

Connectivity ==
    /\ validator = "connectivity"
    /\ IF \A u \in Units : Reached(u) = Units
           THEN IF proposal.n = 1 THEN validator' = "accepted" /\ UNCHANGED <<edu, frontier>>
                ELSE validator' = "frontier" /\ edu' = 2 /\ frontier' = {1}
           ELSE validator' = "rejected" /\ UNCHANGED <<edu, frontier>>
    /\ UNCHANGED <<proposal, mark, visits>>

-----------------------------------------------------------------------------
(***************************************************************************)
(* _validate_right_frontier: the frontier grows until nothing is added,    *)
(* then the EDU must be the target of a relation from it.                  *)
(***************************************************************************)
Completed == {c \in Cdus : ElementaryMembers(c) \subseteq 1..(edu - 1)}
Introduced == 1..(edu - 1) \cup Completed

Raised == {r.source : r \in {s \in Relations : /\ s.class = "subordinating"
                                               /\ s.target \in frontier /\ s.source \in Introduced}}
Enclosing == {c \in Completed : proposal.members[c] \cap frontier # {}}
\* Mutant: a coordinating relation raises its source as well.
Additions_AnyClass ==
    ({r.source : r \in {s \in Relations : s.target \in frontier /\ s.source \in Introduced}}
        \cup Enclosing) \ frontier
Additions == (Raised \cup Enclosing) \ frontier

Grow ==
    /\ validator = "frontier"
    /\ \E u \in Additions : frontier' = frontier \cup {u}
    /\ UNCHANGED <<proposal, validator, mark, visits, edu>>

Attach ==
    /\ validator = "frontier" /\ Additions = {}
    /\ IF \E r \in Relations : r.target = edu /\ r.source \in frontier
           THEN IF edu = proposal.n THEN validator' = "accepted" /\ UNCHANGED <<edu, frontier>>
                ELSE validator' = validator /\ edu' = edu + 1 /\ frontier' = {edu}
           ELSE validator' = "rejected" /\ UNCHANGED <<edu, frontier>>
    /\ UNCHANGED <<proposal, mark, visits>>

SdrtNext == Root \/ Enter \/ Leave \/ Skip \/ FoundCycle \/ Acyclic
            \/ Classes \/ Connectivity \/ Grow \/ Attach
SdrtSpec == SdrtInit /\ [][SdrtNext]_sdrtVars

-----------------------------------------------------------------------------
(***************************************************************************)
(* The definition of a well-formed graph, without an order or a search.    *)
(***************************************************************************)
\* In a finite graph without cycles every set of nodes has one without a target in it.
IsAcyclic(succ) ==
    \A S \in (SUBSET Units) \ {{}} : \E u \in S : succ[u] \cap S = {}

\* No way to cut the units in two without cutting a link.
IsConnected ==
    \A S \in (SUBSET Units) \ {{}, Units} :
        \E link \in Links : (link[1] \in S) # (link[2] \in S)

\* What every set closed under membership and containing the unit contains.
Inside(c) ==
    {e \in Edus : \A S \in SUBSET Units :
        (c \in S /\ \A d \in S \cap Cdus : proposal.members[d] \subseteq S) => e \in S}

\* The right frontier before EDU k: the last EDU, what dominates a unit of it, what encloses one.
RightFrontier(k) ==
    LET known == 1..(k - 1) \cup {c \in Cdus : Inside(c) \subseteq 1..(k - 1)}
        Closed(S) == /\ k - 1 \in S
                     /\ \A r \in Relations : r.class = "subordinating" /\ r.target \in S
                            /\ r.source \in known => r.source \in S
                     /\ \A c \in Cdus \cap known : proposal.members[c] \cap S # {} => c \in S
    IN  {u \in known : \A S \in SUBSET known : Closed(S) => u \in S}

WellFormed ==
    /\ IsAcyclic([u \in Units |-> IF u \in Cdus THEN proposal.members[u] ELSE {}])
    /\ IsAcyclic([u \in Units |-> {r.target : r \in {s \in Relations : s.source = u}}])
    /\ OneClassPerPair /\ IsConnected
    /\ \A k \in Edus \ {1} : \E r \in Relations : r.target = k /\ r.source \in RightFrontier(k)

(***************************************************************************)
(* In whatever order the searches and the frontier's loop proceed, the     *)
(* verdict is that of the definition: a graph is accepted exactly if its   *)
(* membership and relations are acyclic, no pair has two classes, it is    *)
(* connected, and every EDU attaches to the right frontier left by those   *)
(* before it.                                                              *)
(***************************************************************************)
VerdictExact ==
    /\ validator = "accepted" => WellFormed
    /\ validator = "rejected" => ~WellFormed
=============================================================================
