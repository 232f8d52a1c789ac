-------------------------- MODULE AnalysisPlanning --------------------------
(***************************************************************************)
(* build_analysis_plan of rdam/ingest/subdivision.py: greedy groups of     *)
(* prepared segments, one group per step, each cut back to a preferred     *)
(* structural boundary.  prepare.py puts one separator between two source  *)
(* segments, so segments alternate.  A segment is its kind, its estimated  *)
(* demand and the rank of the boundary that it opens (0 is preferred).     *)
(***************************************************************************)
EXTENDS Naturals, Sequences, SequencesExt, FiniteSets

CONSTANTS
    Documents,      \* sequences of the (demand, rank) of source segments
    Maxima,         \* capacities of the parser: a maximum, Unknown, or None for no parser
    Margins,        \* capacity_margin of the planning policy
    Unknown, None

ASSUME PlanningAssumption ==
    /\ Documents \subseteq Seq([demand : Nat \ {0}, rank : Nat]) \ {<<>>}
    /\ Maxima \subseteq Nat \cup {Unknown, None} /\ Margins \subseteq Nat

VARIABLES
    segments, maximum, margin,   \* the arguments of build_analysis_plan
    start,                        \* the first segment that is in no group
    groups,                       \* pairs of a first and a last segment
    status                        \* "planning", a failure, or the plan's status
planning == <<segments, maximum, margin, start, groups, status>>

\* The segments that prepare.py makes of the source segments of a document.
Separated(d) ==
    [i \in 1..(2 * Len(d) - 1) |->
        IF i % 2 = 1 THEN [source |-> TRUE, demand |-> d[(i + 1) \div 2].demand, rank |-> d[(i + 1) \div 2].rank]
                     ELSE [source |-> FALSE, demand |-> 0, rank |-> 0]]

PlanInit ==
    /\ \E d \in Documents : segments = Separated(d)
    /\ maximum \in Maxima /\ margin \in Margins
    /\ start = 1 /\ groups = <<>> /\ status = "planning"

\* Running totals of a sequence of numbers.
Totals(counts) ==
    LET total[i \in 0..Len(counts)] == IF i = 0 THEN 0 ELSE total[i - 1] + counts[i]
    IN  total
\* What the segments up to i need together, and those from first to last.
Total == Totals([i \in DOMAIN segments |-> segments[i].demand])
Demand(first, last) == Total[last] - Total[first - 1]
Fits(demand) == maximum = Unknown \/ demand + margin <= maximum

Unplannable ==
    \/ maximum = Unknown /\ margin > 0
    \/ maximum # Unknown /\ maximum <= margin
    \/ \E i \in DOMAIN segments : ~Fits(segments[i].demand)

NotPlanned ==
    /\ status = "planning" /\ maximum = None
    /\ status' = "not_planned"
    /\ UNCHANGED <<segments, maximum, margin, start, groups>>

RefusePlan ==
    /\ status = "planning" /\ maximum # None /\ start = 1 /\ Unplannable
    /\ status' = "planning_failed"
    /\ UNCHANGED <<segments, maximum, margin, start, groups>>

-----------------------------------------------------------------------------
\* The segment after the longest group from start that fits.
\* Mutant: a group that is full takes one more segment.
GreedyEnd_OneMore ==
    LET ends == {e \in start..Len(segments) : Fits(Demand(start, e - 1))}
    IN  1 + (CHOOSE e \in ends : \A f \in ends : f <= e)
GreedyEnd ==
    LET ends == {e \in start..Len(segments) : Fits(Demand(start, e))}
    IN  1 + (CHOOSE e \in ends : \A f \in ends : f <= e)

\* The source segments that the next group may start with: the best rank, then the last one.
NextStart(end) ==
    IF end > Len(segments) THEN end
    ELSE LET candidates == {i \in (start + 1)..end : segments[i].source}
             Better(i, j) == \/ segments[i].rank < segments[j].rank
                             \/ segments[i].rank = segments[j].rank /\ i >= j
         IN  IF candidates = {} THEN end
             ELSE CHOOSE i \in candidates : \A j \in candidates : Better(i, j)

Group ==
    /\ status = "planning" /\ maximum # None /\ start <= Len(segments) /\ (start = 1 => ~Unplannable)
    /\ LET next == NextStart(GreedyEnd)
       IN  start' = next /\ groups' = Append(groups, <<start, next - 1>>)
    /\ UNCHANGED <<segments, maximum, margin, status>>

Plan ==
    /\ status = "planning" /\ maximum # None /\ start > Len(segments)
    /\ status' = IF Len(groups) = 1 THEN "single_unit" ELSE "subdivided"
    /\ UNCHANGED <<segments, maximum, margin, start, groups>>

PlanNext == NotPlanned \/ RefusePlan \/ Group \/ Plan
PlanSpec == PlanInit /\ [][PlanNext]_planning

-----------------------------------------------------------------------------
(***************************************************************************)
(* A plan loses nothing and asks for no more than the parser can take: its *)
(* units are contiguous, in order and without a gap, each fits the         *)
(* capacity and opens with a source segment (so that a presegmented unit   *)
(* has an EDU), and a parser of unknown capacity never gets a subdivision. *)
(***************************************************************************)
PlanIsLossless ==
    status \in {"single_unit", "subdivided"} =>
        /\ groups[1][1] = 1 /\ groups[Len(groups)][2] = Len(segments)
        /\ \A u \in 1..(Len(groups) - 1) : groups[u + 1][1] = groups[u][2] + 1
        /\ \A u \in DOMAIN groups : /\ groups[u][1] <= groups[u][2]
                                    /\ Fits(Demand(groups[u][1], groups[u][2]))
                                    /\ segments[groups[u][1]].source
        /\ status = "subdivided" => maximum # Unknown
=============================================================================
