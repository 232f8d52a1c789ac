----------------------------- MODULE RstDecoder -----------------------------
(***************************************************************************)
(* How an RST parser makes a tree of the EDUs of one unit: the network's   *)
(* decoder emits relations between adjacent spans (testing_loss of         *)
(* rst/*_parser/src/parser/parsing_net.py, top down with a stack of spans, *)
(* or of parsing_net_bottom_up.py, by shifting and reducing), DUConverter  *)
(* builds a tree of them, the predictor compares its leaves with the EDUs  *)
(* and du_to_analysis numbers its nodes.  Every score is a choice.         *)
(***************************************************************************)
EXTENDS Naturals, Sequences, SequencesExt, FiniteSets

CONSTANTS
    Decoders,     \* "top-down" and "bottom-up", the parser_type of a model
    MaxEdus       \* bound: EDUs of a text, where they are not given

ASSUME DecoderAssumption == MaxEdus \in Nat

VARIABLES
    decoder,      \* of the model
    stage,        \* "idle", "decode", "converted" or "refused"
    edus,         \* how many EDUs the unit has; they are 0..edus-1
    pending,      \* stacks, or the bottom-up stack: pairs of a first and a last EDU
    shifted,      \* how many EDUs have left the bottom-up buffer
    relations,    \* the emitted relations, each between first..split and split+1..last
    tree          \* the nodes of the analysis: their spans, parents and decisions' splits
decoding == <<decoder, stage, edus, pending, shifted, relations, tree>>

NoTree == [span |-> <<>>, parent |-> <<>>, split |-> <<>>]

DecoderInit ==
    /\ decoder \in Decoders /\ stage = "idle"
    /\ edus = 0 /\ pending = <<>> /\ shifted = 0 /\ relations = <<>> /\ tree = NoTree

Begin(n) ==
    /\ stage = "idle"
    /\ stage' = "decode" /\ edus' = n
    /\ pending' = IF decoder = "top-down" /\ n > 1 THEN <<<<0, n - 1>>>> ELSE <<>>
    /\ UNCHANGED <<decoder, shifted, relations, tree>>

Relation(first, split, last) == [first |-> first, split |-> split, last |-> last]

\* Spans of one EDU are not pushed; the left half comes on top.
Halves(span, split) ==
    (IF split + 1 < span[2] THEN <<<<split + 1, span[2]>>>> ELSE <<>>)
        \o (IF span[1] < split THEN <<<<span[1], split>>>> ELSE <<>>)

\* The pointer chooses the split; the split of two EDUs is forced.
Split ==
    /\ stage = "decode" /\ decoder = "top-down" /\ pending # <<>>
    /\ LET span == Last(pending)
       IN  \E split \in span[1]..(span[2] - 1) :
               /\ relations' = Append(relations, Relation(span[1], split, span[2]))
               /\ pending' = Front(pending) \o Halves(span, split)
    /\ UNCHANGED <<decoder, stage, edus, shifted, tree>>

\* Shifting is chosen, or forced while the stack has fewer than two spans.
Shift ==
    /\ stage = "decode" /\ decoder = "bottom-up" /\ edus > 1 /\ shifted < edus
    /\ pending' = Append(pending, <<shifted, shifted>>)
    /\ shifted' = shifted + 1
    /\ UNCHANGED <<decoder, stage, edus, relations, tree>>

Reduce ==
    /\ stage = "decode" /\ decoder = "bottom-up" /\ Len(pending) >= 2
    /\ LET right == Last(pending)
           left == Last(Front(pending))
       IN  /\ relations' = Append(relations, Relation(left[1], left[2], right[2]))
           /\ pending' = Append(Front(Front(pending)), <<left[1], right[2]>>)
    /\ UNCHANGED <<decoder, stage, edus, shifted, tree>>

Decoded ==
    \/ edus = 1
    \/ decoder = "top-down" /\ pending = <<>>
    \/ decoder = "bottom-up" /\ shifted = edus /\ Len(pending) = 1

-----------------------------------------------------------------------------
\* span_map: the last relation over a span, or 0.
RelationOver(first, last) ==
    LET over == {k \in DOMAIN relations : relations[k].first = first /\ relations[k].last = last}
    IN  IF over = {} THEN 0 ELSE Max(over)

(***************************************************************************)
(* construct_tree: the constituents below the first relation, children     *)
(* before parents.  A span without a relation ends it with an error, which *)
(* shows as leaves that are missing.                                       *)
(***************************************************************************)
Constituents ==
    LET below[span \in (0..edus - 1) \X (0..edus - 1)] ==
            LET k == RelationOver(span[1], span[2])
            IN  IF span[1] = span[2] THEN <<span>>
                ELSE IF k = 0 THEN <<>>
                ELSE below[<<span[1], relations[k].split>>] \o below[<<relations[k].split + 1, span[2]>>] \o <<span>>
    IN  IF edus = 1 THEN <<<<0, 0>>>> ELSE below[<<relations[1].first, relations[1].last>>]

IsLeaf(units, i) == units[i][1] = units[i][2]
Leaves(units, i) == Cardinality({j \in 1..i : IsLeaf(units, j)})

(***************************************************************************)
(* du_to_analysis: nodes in the order of its walk, spans by its own count  *)
(* of the leaves (from 1), and each relation's split as the decision of    *)
(* the node of its span (parser_result.py).                                *)
(***************************************************************************)
Walk(units) ==
    LET size[i \in DOMAIN units] ==
            IF IsLeaf(units, i) THEN 1 ELSE 1 + size[i - 1] + size[i - 1 - size[i - 1]]
        Children(i) == IF IsLeaf(units, i) THEN {} ELSE {i - 1, i - 1 - size[i - 1]}
        Span(i) == <<Leaves(units, i) - ((size[i] + 1) \div 2) + 1, Leaves(units, i)>>
        Decision(i) == RelationOver(Span(i)[1] - 1, Span(i)[2] - 1)
    IN  [span |-> [i \in DOMAIN units |-> Span(i)],
         parent |-> [i \in DOMAIN units |->
                        IF \E j \in DOMAIN units : i \in Children(j)
                            THEN CHOOSE j \in DOMAIN units : i \in Children(j) ELSE 0],
         split |-> [i \in DOMAIN units |->
                        IF IsLeaf(units, i) \/ Decision(i) = 0 THEN 0 ELSE relations[Decision(i)].split]]

\* Mutant: the leaves are not counted.
Refused_Never == FALSE
\* remap_tree_to_edu_spans refuses a tree that has not one leaf for each EDU.
Refused == Leaves(Constituents, Len(Constituents)) # edus

Convert ==
    /\ stage = "decode" /\ Decoded
    /\ IF Refused THEN stage' = "refused" /\ tree' = tree
                  ELSE stage' = "converted" /\ tree' = Walk(Constituents)
    /\ UNCHANGED <<decoder, edus, pending, shifted, relations>>

DecoderNext == (\E n \in 1..MaxEdus : Begin(n)) \/ Split \/ Shift \/ Reduce \/ Convert

-----------------------------------------------------------------------------
ChildrenOf(t, i) == {j \in DOMAIN t.span : t.parent[j] = i}
RootsOf(t) == ChildrenOf(t, 0)
OneOf(S) == \E x \in S : S = {x}

\* The children of a node, if it has any, are several and partition its span; if not it is one EDU.
Divided(t, i) ==
    LET c == ChildrenOf(t, i)
    IN  IF c = {} THEN t.span[i][1] = t.span[i][2]
        ELSE /\ \E j, k \in c : j # k
             /\ \A j \in c : t.span[i][1] <= t.span[j][1] /\ t.span[j][1] <= t.span[j][2] /\ t.span[j][2] <= t.span[i][2]
             /\ \A e \in t.span[i][1]..t.span[i][2] : OneOf({j \in c : t.span[j][1] <= e /\ e <= t.span[j][2]})

\* One root over all n EDUs, every other node below a node, each EDU one leaf.
IsTreeOver(t, n) ==
    /\ \E i \in DOMAIN t.span : RootsOf(t) = {i} /\ t.span[i] = <<1, n>>
    /\ \A i \in DOMAIN t.span : Divided(t, i) /\ (t.parent[i] # 0 => t.parent[i] \in DOMAIN t.span)
    /\ \A e \in 1..n : OneOf({i \in DOMAIN t.span : t.span[i] = <<e, e>>})

\* A decision names the last EDU of its left child, counted from 0.
SplitsNamed(t, i) == \A j \in ChildrenOf(t, i) : t.span[j][1] = t.span[i][1] => t.split[i] = t.span[j][2] - 1

(***************************************************************************)
(* A parser's tree is binary and has the unit's EDUs as its leaves, in     *)
(* order, and each decision's split is where the left child of its node    *)
(* ends; so the validation that follows has nothing to refuse.  Top-down   *)
(* decoding always gives one.  Bottom-up decoding, whose first relation is *)
(* not the root, gives one for two EDUs and is refused beyond.             *)
(***************************************************************************)
TreeCoversEdus ==
    /\ stage = "converted" =>
          /\ IsTreeOver(tree, edus) /\ Len(tree.span) = 2 * edus - 1
          /\ \A i \in DOMAIN tree.span : SplitsNamed(tree, i)
    /\ decoder = "top-down" => stage # "refused"
=============================================================================
