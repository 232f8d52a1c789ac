---------------------------- MODULE RstDocument ----------------------------
(***************************************************************************)
(* One tree over a document that is parsed in parts.  The ingest service   *)
(* plans units, parses each and joins them under a multinuclear root       *)
(* (ingest/service.py, ingest/recombination.py); the hierarchical parser   *)
(* parses each section, then a text of one summary for each section, and   *)
(* hangs the sections' trees at the leaves of that macro tree              *)
(* (rst/hierarchical/stitcher.py).  Both give every node, span and edge a  *)
(* new number.  Planning and decoding are the modules of those names.      *)
(***************************************************************************)
EXTENDS AnalysisPlanning, RstDecoder

CONSTANT MaxSections    \* bound: sections of a document

ASSUME DocumentAssumption == MaxSections \in Nat

VARIABLES
    hierarchical,    \* whether the document goes to the hierarchical parser
    presegmented,    \* whether its source segments are its EDUs (SourceForm.EDUS)
    results,         \* the trees of the units parsed so far, the macro tree last
    joined           \* the document's tree, or NoTree
assembly == <<hierarchical, presegmented, results, joined>>
docVars == <<planning, decoding, assembly>>

DocInit ==
    /\ PlanInit /\ DecoderInit
    /\ hierarchical = FALSE /\ presegmented \in BOOLEAN
    /\ results = <<>> /\ joined = NoTree

\* detect_sections: from one to MaxSections parts, whose EDUs the model finds.
SectionsInit ==
    /\ \E n \in 1..MaxSections : groups = [u \in 1..n |-> <<u, u>>] /\ segments = [u \in 1..n |-> <<>>]
    /\ maximum = None /\ margin = 0 /\ start = 1 /\ status = "sections"
    /\ DecoderInit
    /\ hierarchical = TRUE /\ presegmented = FALSE
    /\ results = <<>> /\ joined = NoTree

UnitCount == IF status \in {"single_unit", "not_planned"} THEN 1 ELSE Len(groups)
Planned == status \in {"single_unit", "not_planned", "subdivided", "sections"}

\* The EDUs that _rst_document takes from the segments of unit u, or any the model may find.
SourcesIn(u) ==
    LET range == IF status = "subdivided" THEN groups[u] ELSE <<1, Len(segments)>>
    IN  Cardinality({i \in range[1]..range[2] : segments[i].source})
EduCounts(u) ==
    IF u > UnitCount THEN {UnitCount}
    ELSE IF presegmented THEN {SourcesIn(u)} ELSE 1..MaxEdus

\* How many trees are needed: the macro tree only if there are sections to join.
Needed == IF hierarchical /\ UnitCount > 1 THEN UnitCount + 1 ELSE UnitCount

ParseUnit ==
    /\ Planned /\ joined = NoTree /\ Len(results) < Needed
    /\ \E n \in EduCounts(Len(results) + 1) : Begin(n)
    /\ UNCHANGED <<planning, assembly>>

Decode ==
    /\ Split \/ Shift \/ Reduce \/ Convert
    /\ UNCHANGED <<planning, assembly>>

Collect ==
    /\ stage = "converted" /\ results' = Append(results, tree)
    /\ stage' = "idle" /\ edus' = 0 /\ pending' = <<>> /\ shifted' = 0
    /\ relations' = <<>> /\ tree' = NoTree
    /\ UNCHANGED <<decoder, planning, hierarchical, presegmented, joined>>

-----------------------------------------------------------------------------
\* The entry to which the k-th of all that a sequence of numbers counts belongs.
EntryOf(counts, k) == CHOOSE u \in DOMAIN counts : Totals(counts)[u - 1] < k /\ k <= Totals(counts)[u]

IsEdu(t, i) == t.span[i][1] = t.span[i][2]
NodeCount == [u \in DOMAIN results |-> Len(results[u].span)]
LeafCount == [u \in DOMAIN results |-> Cardinality({i \in DOMAIN results[u].span : IsEdu(results[u], i)})]
NodesBefore(u) == Totals(NodeCount)[u - 1]
EdusBefore(u) == Totals(LeafCount)[u - 1]

\* Mutant: spans are shifted by the number of nodes, as the nodes' own numbers are.
Shifted_ByNodes(u) ==
    LET t == results[u]
        n == NodesBefore(u)
    IN  [span |-> [i \in DOMAIN t.span |-> <<t.span[i][1] + n, t.span[i][2] + n>>],
         parent |-> [i \in DOMAIN t.span |-> IF t.parent[i] = 0 THEN 0 ELSE t.parent[i] + n],
         split |-> [i \in DOMAIN t.split |-> t.split[i] + n]]
\* A unit's tree with its nodes, spans and splits shifted behind those of the units before it.
Shifted(u) ==
    LET t == results[u]
        n == EdusBefore(u)
    IN  [span |-> [i \in DOMAIN t.span |-> <<t.span[i][1] + n, t.span[i][2] + n>>],
         parent |-> [i \in DOMAIN t.span |-> IF t.parent[i] = 0 THEN 0 ELSE t.parent[i] + NodesBefore(u)],
         split |-> [i \in DOMAIN t.span |-> t.split[i] + n]]

\* The nodes of all units, numbered through.
UnitsEnd == NodesBefore(UnitCount + 1)
UnitOf(i) == EntryOf(NodeCount, i)
LocalOf(i) == i - NodesBefore(UnitOf(i))
AllSpans == [i \in 1..UnitsEnd |-> Shifted(UnitOf(i)).span[LocalOf(i)]]
AllParents == [i \in 1..UnitsEnd |-> Shifted(UnitOf(i)).parent[LocalOf(i)]]
AllSplits == [i \in 1..UnitsEnd |-> Shifted(UnitOf(i)).split[LocalOf(i)]]
UnitRoot(u) == NodesBefore(u) + CHOOSE i \in DOMAIN results[u].span : results[u].parent[i] = 0

\* recombine_parser_results: the roots of the units under one node, the last.
Recombined ==
    LET top == UnitsEnd + 1
    IN  [span |-> [i \in 1..top |-> IF i = top THEN <<1, EdusBefore(UnitCount + 1)>> ELSE AllSpans[i]],
         parent |-> [i \in 1..top |-> IF i = top THEN 0 ELSE IF AllParents[i] = 0 THEN top ELSE AllParents[i]],
         split |-> [i \in 1..top |-> IF i = top THEN 0 ELSE AllSplits[i]]]

Recombine ==
    /\ ~hierarchical /\ joined = NoTree /\ Len(results) = Needed /\ UnitCount > 1
    /\ joined' = Recombined
    /\ UNCHANGED <<planning, decoding, hierarchical, presegmented, results>>

\* macro_node_map: the macro tree's leaves are the sections' roots, its other nodes are new.
Macro == results[UnitCount + 1]
NewCount == [i \in DOMAIN Macro.span |-> IF IsEdu(Macro, i) THEN 0 ELSE 1]
Global(i) == IF IsEdu(Macro, i) THEN UnitRoot(Macro.span[i][1]) ELSE UnitsEnd + Totals(NewCount)[i]
MacroNode(i) == CHOOSE j \in DOMAIN Macro.span : Global(j) = i
Lifted(span) == <<AllSpans[UnitRoot(span[1])][1], AllSpans[UnitRoot(span[2])][2]>>
Above(j) == IF Macro.parent[j] = 0 THEN 0 ELSE Global(Macro.parent[j])

\* stitch_trees: the sections' nodes, then the new ones; the macro tree's edges join them.
Stitched ==
    LET end == UnitsEnd + Totals(NewCount)[Len(Macro.span)]
    IN  [span |-> [i \in 1..end |-> IF i <= UnitsEnd THEN AllSpans[i] ELSE Lifted(Macro.span[MacroNode(i)])],
         parent |-> [i \in 1..end |-> IF i <= UnitsEnd /\ AllParents[i] # 0 THEN AllParents[i] ELSE Above(MacroNode(i))],
         split |-> <<>>]

Stitch ==
    /\ hierarchical /\ joined = NoTree /\ Len(results) = Needed /\ UnitCount > 1
    /\ joined' = Stitched
    /\ UNCHANGED <<planning, decoding, hierarchical, presegmented, results>>

Single ==
    /\ joined = NoTree /\ Needed = 1 /\ Len(results) = 1
    /\ joined' = results[1]
    /\ UNCHANGED <<planning, decoding, hierarchical, presegmented, results>>

DocNext ==
    \/ PlanNext /\ UNCHANGED <<decoding, assembly>>
    \/ ParseUnit \/ Decode \/ Collect \/ Recombine \/ Stitch \/ Single

DocSpec == DocInit /\ [][DocNext]_docVars

-----------------------------------------------------------------------------
\* RstDecoder's property, of every part that is parsed.
TreesCoverEdus == TreeCoversEdus

TotalEdus == EdusBefore(UnitCount + 1)

\* One tree over all parts, in which each part, and each span of the macro tree, has its node.
WholeTree(t) ==
    /\ IsTreeOver(t, TotalEdus)
    /\ \A u \in 1..UnitCount : \E i \in DOMAIN t.span : t.span[i] = <<EdusBefore(u) + 1, EdusBefore(u + 1)>>
    /\ ~hierarchical => \A i \in DOMAIN t.span : t.parent[i] # 0 \/ UnitCount = 1 => SplitsNamed(t, i)
    /\ hierarchical /\ UnitCount > 1 => \A i \in DOMAIN Macro.span :
          LET s == Macro.span[i]
          IN  \E j \in DOMAIN t.span : t.span[j] = <<EdusBefore(s[1]) + 1, EdusBefore(s[2] + 1)>>

(***************************************************************************)
(* The document's tree is again one tree over all EDUs of all parts: each  *)
(* part's tree hangs whole where the plan, or the macro tree, puts it,     *)
(* and no number of one part is taken for that of another; decisions still *)
(* name the split of their own node, and of a presegmented document no EDU *)
(* is lost between two units.                                              *)
(***************************************************************************)
JoinedTreeIsWhole ==
    joined # NoTree =>
        /\ WholeTree(joined)
        /\ presegmented => TotalEdus = Cardinality({i \in DOMAIN segments : segments[i].source})
=============================================================================
