--------------------------- MODULE DungSemantics ---------------------------
(***************************************************************************)
(* evaluate of rdam/dung/semantics.py: the extensions of one argumentation *)
(* framework.  The complete extensions are found by trying every set of    *)
(* arguments, unless there are more arguments than the provider's capacity *)
(* allows; the grounded extension is computed on its own, by iterating the *)
(* characteristic function from the empty set, one round per step.         *)
(* Arguments are names; their order and the order of the extensions in the *)
(* payload are left out.                                                   *)
(***************************************************************************)
EXTENDS Naturals, FiniteSets

CONSTANTS
    Names,         \* what arguments may be called
    Capacities     \* the capacities a provider may be configured with

ASSUME DungAssumption == IsFiniteSet(Names) /\ Capacities \subseteq Nat \ {0}

VARIABLES
    arguments, attacks,     \* the framework
    capacity,               \* of the provider that evaluates it
    phase,                  \* where evaluate is
    current,                \* the local of grounded_extension
    complete                \* what complete_extensions has found
vars == <<arguments, attacks, capacity, phase, current, complete>>

AttackersOf(a) == {b \in arguments : <<b, a>> \in attacks}
AttackedBy(S) == {b \in arguments : \E a \in S : <<a, b>> \in attacks}
IsConflictFree(S) == \A a, b \in S : <<a, b>> \notin attacks
Defends(S, a) == AttackersOf(a) \subseteq AttackedBy(S)

\* The characteristic function F(S).
Acceptable(S) == {a \in arguments : Defends(S, a)}

IsComplete(S) == IsConflictFree(S) /\ S = Acceptable(S)
IsStable(S) == IsConflictFree(S) /\ S \cup AttackedBy(S) = arguments

\* evaluate's selections from the complete extensions.
\* Mutant: the comparison keeps the smallest sets.
Preferred_Minimal == {S \in complete : ~ \E T \in complete : T \subseteq S /\ S # T}
Preferred == {S \in complete : ~ \E T \in complete : S \subseteq T /\ S # T}
Stable == {S \in complete : IsStable(S)}

(***************************************************************************)
(* A well-formed framework: a non-empty set of distinct arguments, attacks *)
(* among them.                                                             *)
(***************************************************************************)
Init ==
    /\ arguments \in (SUBSET Names) \ {{}}
    /\ attacks \in SUBSET (arguments \X arguments)
    /\ capacity \in Capacities
    /\ phase = "enumerate"
    /\ current = {} /\ complete = {}

Reject ==
    /\ phase = "enumerate" /\ Cardinality(arguments) > capacity
    /\ phase' = "rejected"
    /\ UNCHANGED <<arguments, attacks, capacity, current, complete>>

Enumerate ==
    /\ phase = "enumerate" /\ Cardinality(arguments) <= capacity
    /\ complete' = {S \in SUBSET arguments : IsComplete(S)}
    /\ phase' = "iterate"
    /\ UNCHANGED <<arguments, attacks, capacity, current>>

\* Mutant: the loop returns after the unattacked arguments, its first round.
Round_Once ==
    /\ phase = "iterate" /\ Acceptable(current) # current
    /\ current' = Acceptable(current)
    /\ phase' = "evaluated"
    /\ UNCHANGED <<arguments, attacks, capacity, complete>>
\* One round of grounded_extension's loop that does not return.
Round ==
    /\ phase = "iterate" /\ Acceptable(current) # current
    /\ current' = Acceptable(current)
    /\ UNCHANGED <<arguments, attacks, capacity, phase, complete>>

Return ==
    /\ phase = "iterate" /\ Acceptable(current) = current
    /\ phase' = "evaluated"
    /\ UNCHANGED <<arguments, attacks, capacity, current, complete>>

Next == Reject \/ Enumerate \/ Round \/ Return
Spec == Init /\ [][Next]_vars

-----------------------------------------------------------------------------
(***************************************************************************)
(* What a round knows: the set accepts itself, attacks nothing in itself,  *)
(* and every complete extension contains it.                               *)
(***************************************************************************)
TypeInv ==
    /\ arguments \subseteq Names
    /\ attacks \subseteq arguments \X arguments
    /\ current \subseteq arguments
    /\ phase \in {"enumerate", "rejected", "iterate", "evaluated"}
    /\ complete \subseteq SUBSET arguments
SelfSupported == current \subseteq Acceptable(current) /\ IsConflictFree(current)
BelowComplete ==
    \A S \in SUBSET arguments : IsComplete(S) => current \subseteq S
Found ==
    /\ phase \in {"iterate", "evaluated"} =>
           complete = {S \in SUBSET arguments : IsComplete(S)}
    /\ phase = "evaluated" => Acceptable(current) = current
GroundedInv == TypeInv /\ SelfSupported /\ BelowComplete /\ Found

(***************************************************************************)
(* The grounded extension is the least complete extension: it is among     *)
(* those found by enumeration, and every other one contains it             *)
(* (grounded_extension, "Least fixed point of F").                         *)
(***************************************************************************)
GroundedIsLeast ==
    phase = "evaluated" => /\ current \in complete
                           /\ \A S \in complete : current \subseteq S

(***************************************************************************)
(* The iteration never loses an argument it has accepted and every round   *)
(* that does not end it adds one, so it ends on every finite framework     *)
(* ("F is monotone, so this terminates").                                  *)
(***************************************************************************)
Grows == current' # current => current \subseteq current' /\ phase' = "iterate"
RoundsGrow == [][Grows]_vars

(***************************************************************************)
(* The extensions selected from the complete ones are those of the         *)
(* definitions, which speak of all sets: preferred ones are the maximal    *)
(* admissible sets and there is at least one; stable ones are all the      *)
(* conflict-free sets that attack everything else, and each is preferred.  *)
(***************************************************************************)
Admissible == {S \in SUBSET arguments : IsConflictFree(S) /\ S \subseteq Acceptable(S)}
ExtensionsAsDefined ==
    phase = "evaluated" =>
        /\ Preferred = {S \in Admissible : \A T \in Admissible : S \subseteq T => S = T}
        /\ Preferred # {}
        /\ Stable = {S \in SUBSET arguments : IsStable(S)}
        /\ Stable \subseteq Preferred
=============================================================================
