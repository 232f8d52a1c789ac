----------------------------- MODULE MCStructures -----------------------------
(***************************************************************************)
(* The three computations of the formalisms that have more than one order  *)
(* of steps or outcomes, in one instance: evaluating an argumentation      *)
(* framework, validating a discourse graph, and parsing a document in      *)
(* parts.  They share nothing; a behaviour takes one and leaves the others *)
(* at one initial state.                                                   *)
(***************************************************************************)
EXTENDS DungSemantics, SdrtGraph, RstDocument

CONSTANTS C, D    \* complex discourse units

VARIABLE part     \* the computation that this behaviour takes
structureVars == <<part, vars, sdrtVars, docVars>>

\* Up to three source segments of two demands and two boundary ranks.
Segments == UNION {[1..n -> [demand : 1..2, rank : 0..1]] : n \in 1..3}

(***************************************************************************)
(* Proposals of up to three EDUs.  The relations come from a few shapes:   *)
(* chains, branches, cycles, relations to and from complex units, a pair   *)
(* with one or two classes.                                                *)
(***************************************************************************)
Rel(s, t, k) == [source |-> s, target |-> t, class |-> k]
Kinds == {"subordinating", "coordinating"}
Proposal(n, members, rels) == [n |-> n, members |-> members, relations |-> rels]

\* Without complex units: any relations to the second and third EDU, and one that goes back.
Plain ==
    {Proposal(3, <<>>, A \cup B) :
        A \in SUBSET [source : {1}, target : {2, 3}, class : Kinds],
        B \in SUBSET {Rel(2, 3, "subordinating"), Rel(2, 3, "coordinating"), Rel(3, 1, "subordinating")}}

\* One complex unit, of two or three EDUs, at either end of its relations.
Complex ==
    {Proposal(3, [c \in {C} |-> M], A \cup B) :
        M \in {{1, 2}, {2, 3}, {1, 3}, {1, 2, 3}},
        A \in SUBSET {Rel(1, 2, "subordinating"), Rel(1, 2, "coordinating"), Rel(2, 3, "coordinating")},
        B \in SUBSET {Rel(C, 3, "subordinating"), Rel(1, C, "subordinating")}}

\* Two complex units, which may hold each other.
Nested ==
    {Proposal(2, [c \in {C, D} |-> IF c = C THEN M ELSE N], {Rel(1, 2, k)} \cup B) :
        M \in {{1, 2}, {1, D}, {1, 2, D}}, N \in {{1, 2}, {2, C}, {1, C}}, k \in Kinds,
        B \in SUBSET {Rel(C, 2, "subordinating"), Rel(2, D, "coordinating"), Rel(D, C, "subordinating")}}

Graphs == {Proposal(1, <<>>, {})} \cup Plain \cup Complex \cup Nested

-----------------------------------------------------------------------------
\* What the computations that do not take part are left at.
IdleDung == arguments = {} /\ attacks = {} /\ capacity = 1 /\ phase = "enumerate" /\ current = {} /\ complete = {}
IdleSdrt ==
    /\ proposal = Proposal(1, <<>>, {}) /\ validator = "membership"
    /\ mark = Unmarked(proposal) /\ visits = <<>> /\ edu = 1 /\ frontier = {}
IdleDocument ==
    /\ segments = <<>> /\ maximum = None /\ margin = 0 /\ start = 1 /\ groups = <<>> /\ status = "planning"
    /\ decoder = "top-down" /\ stage = "idle" /\ edus = 0 /\ pending = <<>> /\ shifted = 0
    /\ relations = <<>> /\ tree = NoTree
    /\ hierarchical = FALSE /\ presegmented = FALSE /\ results = <<>> /\ joined = NoTree

StructuresInit ==
    \/ part = "dung" /\ Init /\ IdleSdrt /\ IdleDocument
    \/ part = "sdrt" /\ IdleDung /\ SdrtInit /\ IdleDocument
    \/ part = "document" /\ IdleDung /\ IdleSdrt /\ (DocInit \/ SectionsInit)

StructuresNext ==
    /\ part' = part
    /\ \/ part = "dung" /\ Next /\ UNCHANGED <<sdrtVars, docVars>>
       \/ part = "sdrt" /\ SdrtNext /\ UNCHANGED <<vars, docVars>>
       \/ part = "document" /\ DocNext /\ UNCHANGED <<vars, sdrtVars>>

StructuresSpec == StructuresInit /\ [][StructuresNext]_structureVars
=============================================================================
