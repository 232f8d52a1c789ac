-------------------------- MODULE StructureProofs --------------------------
(***************************************************************************)
(* The computations of the formalisms, for inputs of every size: the       *)
(* argumentation framework, the plan of a document in parts, the trees of  *)
(* its parts and the one they are joined to, and the discourse graph.  All *)
(* loop or recurse over data; what they compute is proved from the         *)
(* least-number principle, which the first section turns into the few      *)
(* facts about iterated steps that the others cite.                        *)
(***************************************************************************)
EXTENDS DungSemantics, SdrtGraph, RstDocument, Integers, FiniteSetTheorems, SequenceTheorems,
        WellFoundedInduction, TLAPS

(***************************************************************************)
(* A non-empty set of naturals has a least element: the principle by which *)
(* everything below is proved about recursive functions and loops.         *)
(***************************************************************************)
LEMMA Least ==
    ASSUME NEW N, N \subseteq Nat, N # {}
    PROVE  \E n \in N : \A k \in N : n <= k
<1> DEFINE R == OpToRel(<, Nat)
<1>1. IsWellFoundedOn(R, Nat)
  BY NatLessThanWellFounded
<1> HIDE DEF R
<1>2. PICK n \in N : \A k \in N : ~(<<k, n>> \in R)
  BY <1>1, WFMin
<1>3. \A j, k \in Nat : j < k => <<j, k>> \in R
  BY DEF R, OpToRel
<1>4. ASSUME NEW k \in N PROVE n <= k
  <2>1. k \in Nat /\ n \in Nat
    BY <1>4
  <2>2. ~(k < n)
    BY <1>2, <1>3, <2>1
  <2> QED
    BY <2>1, <2>2
<1> QED
  BY <1>4

(***************************************************************************)
(* Hence a set that has zero and the successor of each of its naturals has *)
(* all naturals.                                                           *)
(***************************************************************************)
LEMMA Induct ==
    ASSUME NEW S, 0 \in S, \A n \in Nat : n \in S => n + 1 \in S
    PROVE  Nat \subseteq S
<1> DEFINE Out == Nat \ S
<1> SUFFICES ASSUME Out # {} PROVE FALSE
  OBVIOUS
<1>1. PICK n \in Out : \A k \in Out : n <= k
  BY Least
<1>2. n \in Nat /\ n # 0
  BY <1>1
<1>3. n - 1 \in Nat /\ n - 1 \notin Out
  BY <1>1, <1>2
<1>4. (n - 1) + 1 = n
  BY <1>2
<1> QED
  BY <1>1, <1>3, <1>4

\* The sequence of the values that repeated steps make of a first one.
Iterable(A, a, Step) ==
    \E f \in [Nat -> A] : f[0] = a /\ \A n \in Nat : f[n + 1] = Step[n][f[n]]

(***************************************************************************)
(* Any steps on a set can be repeated: the unions of the beginnings of the *)
(* sequence agree with each other, so they make the whole of it.  It gives *)
(* every recursive function of the models its value.                       *)
(***************************************************************************)
LEMMA Iteration ==
    ASSUME NEW A, NEW a \in A, NEW Step \in [Nat -> [A -> A]]
    PROVE  Iterable(A, a, Step)
<1> DEFINE Upto(n, g) == g[0] = a /\ \A i \in 0..n : i < n => g[i + 1] = Step[i][g[i]]
           S == {n \in Nat : \E g \in [Nat -> A] : Upto(n, g)}
<1>1. 0 \in S
  <2>1. [i \in Nat |-> a] \in [Nat -> A] /\ Upto(0, [i \in Nat |-> a])
    OBVIOUS
  <2> QED
    BY <2>1
<1>2. ASSUME NEW n \in Nat, n \in S PROVE n + 1 \in S
  <2>1. PICK g \in [Nat -> A] : Upto(n, g)
    BY <1>2
  <2> DEFINE h == [i \in Nat |-> IF i = n + 1 THEN Step[n][g[n]] ELSE g[i]]
  <2>2. h \in [Nat -> A]
    OBVIOUS
  <2>3. h[0] = a
    BY <2>1
  <2>4. ASSUME NEW i \in 0..(n + 1), i < n + 1 PROVE h[i + 1] = Step[i][h[i]]
    <3>1. i \in Nat /\ h[i] = g[i]
      BY <2>4
    <3>2. CASE i = n
      BY <3>1, <3>2
    <3>3. CASE i # n
      <4>1. i \in 0..n /\ i < n /\ h[i + 1] = g[i + 1]
        BY <2>4, <3>1, <3>3
      <4> QED
        BY <2>1, <3>1, <4>1
    <3> QED
      BY <3>2, <3>3
  <2> HIDE DEF h
  <2>5. Upto(n + 1, h)
    BY <2>3, <2>4
  <2> QED
    BY <2>2, <2>5
<1>3. Nat \subseteq S
  <2> HIDE DEF S
  <2> QED
    BY <1>1, <1>2, Induct
<1> DEFINE G(n) == CHOOSE g \in [Nat -> A] : Upto(n, g)
           f == [n \in Nat |-> G(n)[n]]
<1>4. ASSUME NEW n \in Nat PROVE G(n) \in [Nat -> A] /\ Upto(n, G(n))
  <2>1. \E g \in [Nat -> A] : Upto(n, g)
    BY <1>3
  <2> HIDE DEF Upto
  <2> QED
    BY <2>1
<1>5. ASSUME NEW n \in Nat, NEW m \in Nat, NEW g \in [Nat -> A], NEW h \in [Nat -> A], Upto(n, g), Upto(m, h)
      PROVE  \A k \in Nat : k <= n /\ k <= m => g[k] = h[k]
  <2> DEFINE E == {k \in Nat : k <= n /\ k <= m => g[k] = h[k]}
  <2>1. 0 \in E
    BY <1>5
  <2>2. ASSUME NEW k \in Nat, k \in E PROVE k + 1 \in E
    <3> SUFFICES ASSUME k + 1 <= n, k + 1 <= m PROVE g[k + 1] = h[k + 1]
      OBVIOUS
    <3>1. g[k] = h[k] /\ k \in 0..n /\ k < n /\ k \in 0..m /\ k < m
      BY <2>2
    <3> QED
      BY <1>5, <3>1
  <2> HIDE DEF E
  <2>3. Nat \subseteq E
    BY <2>1, <2>2, Induct
  <2> QED
    BY <2>3 DEF E
<1> HIDE DEF G
<1>6. f \in [Nat -> A] /\ f[0] = a
  BY <1>4
<1>7. ASSUME NEW n \in Nat PROVE f[n + 1] = Step[n][f[n]]
  <2>1. G(n + 1)[n + 1] = Step[n][G(n + 1)[n]]
    <3>1. n + 1 \in Nat /\ n \in 0..(n + 1) /\ n < n + 1
      OBVIOUS
    <3> QED
      BY <1>4, <3>1
  <2>2. G(n + 1)[n] = G(n)[n]
    <3>1. n + 1 \in Nat /\ n <= n + 1 /\ n <= n
      OBVIOUS
    <3> HIDE DEF Upto
    <3> QED
      BY <1>4, <1>5, <3>1
  <2> QED
    BY <2>1, <2>2
<1> HIDE DEF f
<1> QED
  BY <1>6, <1>7 DEF Iterable

(***************************************************************************)
(* A non-empty set of naturals with a bound has a greatest element.        *)
(***************************************************************************)
LEMMA Greatest ==
    ASSUME NEW N, N \subseteq Nat, N # {}, NEW b \in Nat, \A n \in N : n <= b
    PROVE  \E n \in N : \A k \in N : k <= n
<1> DEFINE M == {b - n : n \in N}
<1>1. M \subseteq Nat /\ M # {}
  <2>1. \A n \in N : n \in Nat /\ n <= b /\ b - n \in Nat
    OBVIOUS
  <2> QED
    BY <2>1
<1>2. PICK m \in M : \A k \in M : m <= k
  BY <1>1, Least
<1>3. PICK n \in N : m = b - n
  BY <1>2
<1>4. ASSUME NEW k \in N PROVE k <= n
  <2>1. b - k \in M /\ k \in Nat /\ n \in Nat
    OBVIOUS
  <2>2. b - n <= b - k
    BY <1>2, <1>3, <2>1
  <2> QED
    BY <2>1, <2>2
<1> QED
  BY <1>4

(***************************************************************************)
(* Rounds that only add, in a finite set, end after as many rounds as the  *)
(* set has elements.                                                       *)
(***************************************************************************)
LEMMA Saturation ==
    ASSUME NEW V, IsFiniteSet(V), NEW f \in [Nat -> SUBSET V],
           \A n \in Nat : f[n] \subseteq f[n + 1],
           \A n \in Nat : f[n + 1] = f[n] => f[n + 2] = f[n + 1]
    PROVE  f[Cardinality(V) + 1] = f[Cardinality(V)]
<1> DEFINE N == Cardinality(V)
           S == {n \in Nat : f[n + 1] = f[n] \/ Cardinality(f[n]) >= n}
<1>1. N \in Nat /\ \A n \in Nat : IsFiniteSet(f[n]) /\ Cardinality(f[n]) \in Nat /\ Cardinality(f[n]) <= N
                                  /\ (Cardinality(f[n]) = N => f[n] = V)
  <2>1. N \in Nat
    BY FS_CardinalityType
  <2>2. ASSUME NEW n \in Nat PROVE IsFiniteSet(f[n]) /\ Cardinality(f[n]) <= N /\ (Cardinality(f[n]) = N => f[n] = V)
    <3>1. f[n] \in SUBSET V
      OBVIOUS
    <3> QED
      BY <3>1, FS_Subset
  <2>3. ASSUME NEW n \in Nat PROVE Cardinality(f[n]) \in Nat
    BY <2>2, FS_CardinalityType
  <2> QED
    BY <2>1, <2>2, <2>3
<1> HIDE DEF N
<1>2. 0 \in S
  BY <1>1
<1>3. ASSUME NEW n \in Nat, n \in S PROVE n + 1 \in S
  <2>1. CASE f[n + 1] = f[n]
    <3>1. f[n + 2] = f[n + 1] /\ (n + 1) + 1 = n + 2
      BY <2>1
    <3> QED
      BY <3>1
  <2>2. CASE f[n + 1] # f[n]
    <3>1. Cardinality(f[n]) >= n
      BY <1>3, <2>2
    <3>2. f[n] \in SUBSET f[n + 1] /\ IsFiniteSet(f[n + 1]) /\ n + 1 \in Nat
      BY <1>1
    <3>3. Cardinality(f[n]) <= Cardinality(f[n + 1]) /\ Cardinality(f[n]) # Cardinality(f[n + 1])
      BY <2>2, <3>2, FS_Subset
    <3>4. Cardinality(f[n]) \in Nat /\ Cardinality(f[n + 1]) \in Nat
      BY <1>1, <3>2
    <3> QED
      BY <3>1, <3>2, <3>3, <3>4
  <2> QED
    BY <2>1, <2>2
<1> HIDE DEF S
<1>4. Nat \subseteq S
  BY <1>2, <1>3, Induct
<1>5. f[N + 1] = f[N] \/ Cardinality(f[N]) >= N
  BY <1>1, <1>4 DEF S
<1>6. CASE Cardinality(f[N]) >= N
  <2>1. Cardinality(f[N]) = N
    BY <1>1, <1>6
  <2>2. f[N] = V
    BY <1>1, <2>1
  <2>3. f[N + 1] \in SUBSET V /\ f[N] \subseteq f[N + 1]
    BY <1>1
  <2> QED
    BY <2>2, <2>3 DEF N
<1> QED
  BY <1>5, <1>6 DEF N

-----------------------------------------------------------------------------
(***************************************************************************)
(* Dung.  The grounded extension is the least complete extension of every  *)
(* finite framework.  The argument is Dung's: the characteristic function  *)
(* is monotone, so each round keeps what it has; a conflict inside a set   *)
(* that accepts itself would come back to an attack on an argument the set *)
(* attacks; and a complete extension that contains the set also contains   *)
(* the next one.                                                           *)
(***************************************************************************)
(***************************************************************************)
(* The characteristic function is monotone (acceptable_arguments).         *)
(***************************************************************************)
LEMMA Monotone ==
    ASSUME NEW S, NEW T, S \subseteq T
    PROVE  Acceptable(S) \subseteq Acceptable(T)
<1>1. AttackedBy(S) \subseteq AttackedBy(T)
  BY DEF AttackedBy
<1> QED
  BY <1>1 DEF Acceptable, Defends

(***************************************************************************)
(* What a conflict-free set accepts is conflict-free again, provided the   *)
(* set accepts itself: an attack from an accepted argument on another is   *)
(* answered by the set, hence by an attack on an argument that the set     *)
(* must answer in turn, from inside itself.                                *)
(***************************************************************************)
LEMMA AcceptableConflictFree ==
    ASSUME NEW S, S \subseteq arguments, IsConflictFree(S)
    PROVE  IsConflictFree(Acceptable(S))
<1> SUFFICES ASSUME NEW a \in Acceptable(S), NEW b \in Acceptable(S), <<a, b>> \in attacks
             PROVE  FALSE
  BY DEF IsConflictFree
<1>1. a \in arguments /\ b \in arguments
  BY DEF Acceptable
<1>2. a \in AttackedBy(S)
  BY <1>1 DEF Acceptable, Defends, AttackersOf
<1>3. PICK s \in S : <<s, a>> \in attacks
  BY <1>2 DEF AttackedBy
<1>4. s \in AttackedBy(S)
  BY <1>1, <1>3 DEF Acceptable, Defends, AttackersOf
<1>5. PICK t \in S : <<t, s>> \in attacks
  BY <1>4 DEF AttackedBy
<1> QED
  BY <1>3, <1>5 DEF IsConflictFree

(***************************************************************************)
(* While the framework is the same, so are its operators, of the new value *)
(* of the set as well.                                                     *)
(***************************************************************************)
LEMMA SameFramework ==
    ASSUME arguments' = arguments, attacks' = attacks
    PROVE  /\ Acceptable(current)' = Acceptable(current')
           /\ IsConflictFree(current)' <=> IsConflictFree(current')
           /\ \A S : IsComplete(S)' <=> IsComplete(S)
<1>1. \A S : AttackedBy(S)' = AttackedBy(S)
  BY DEF AttackedBy
<1>2. \A a : AttackersOf(a)' = AttackersOf(a)
  BY DEF AttackersOf
<1>3. \A S : Acceptable(S)' = Acceptable(S)
  BY <1>1, <1>2 DEF Acceptable, Defends
<1>4. Acceptable(current)' = Acceptable(current')
  BY DEF Acceptable, Defends, AttackersOf, AttackedBy
<1>5. IsConflictFree(current)' <=> IsConflictFree(current')
  BY DEF IsConflictFree
<1> QED
  BY <1>3, <1>4, <1>5 DEF IsComplete, IsConflictFree

(***************************************************************************)
(* The iteration starts below every complete extension.                    *)
(***************************************************************************)
LEMMA InitGrounded == Init => GroundedInv
<1> SUFFICES ASSUME Init PROVE GroundedInv
  OBVIOUS
<1> QED
  BY DEF Init, GroundedInv, TypeInv, SelfSupported, BelowComplete, Found, IsConflictFree

(***************************************************************************)
(* Each step of the evaluation keeps the invariant.                        *)
(***************************************************************************)
LEMMA NextGrounded == GroundedInv /\ [Next]_vars => GroundedInv'
<1> SUFFICES ASSUME GroundedInv, [Next]_vars PROVE GroundedInv'
  OBVIOUS
<1> USE DEF GroundedInv
<1>1. CASE Round
  <2>1. /\ phase = "iterate" /\ phase' = phase
        /\ arguments' = arguments /\ attacks' = attacks /\ complete' = complete
        /\ current' = Acceptable(current)
    BY <1>1 DEF Round
  <2>2. TypeInv'
    BY <2>1 DEF TypeInv, Acceptable
  <2>3. current \subseteq current'
    BY <2>1 DEF SelfSupported
  <2>4. SelfSupported'
    <3>1. current' \subseteq Acceptable(current')
      BY <2>1, <2>3, Monotone
    <3>2. IsConflictFree(current')
      BY <2>1, AcceptableConflictFree DEF TypeInv, SelfSupported
    <3> QED
      BY <2>1, <3>1, <3>2, SameFramework DEF SelfSupported
  <2>5. \A S \in SUBSET arguments : IsComplete(S) => current' \subseteq S
    <3> SUFFICES ASSUME NEW S \in SUBSET arguments, IsComplete(S)
                 PROVE  Acceptable(current) \subseteq S
      BY <2>1
    <3>1. current \subseteq S
      BY DEF BelowComplete
    <3> QED
      BY <3>1, Monotone DEF IsComplete
  <2>6. BelowComplete'
    BY <2>1, <2>5, SameFramework DEF BelowComplete
  <2>7. Found'
    BY <2>1, SameFramework DEF Found
  <2> QED
    BY <2>2, <2>4, <2>6, <2>7
<1>2. CASE Reject \/ Enumerate \/ Return \/ UNCHANGED vars
  <2>1. arguments' = arguments /\ attacks' = attacks /\ current' = current
    BY <1>2 DEF Reject, Enumerate, Return, vars
  <2>2. TypeInv'
    BY <1>2, <2>1 DEF Reject, Enumerate, Return, vars, TypeInv
  <2>3. SelfSupported' /\ BelowComplete'
    BY <2>1, SameFramework DEF SelfSupported, BelowComplete
  <2>4. Found'
    BY <1>2, <2>1, SameFramework DEF Reject, Enumerate, Return, vars, Found
  <2> QED
    BY <2>2, <2>3, <2>4
<1> QED
  BY <1>1, <1>2 DEF Next

(***************************************************************************)
(* The invariant of the grounded extension holds at every step of          *)
(* evaluate.                                                               *)
(***************************************************************************)
THEOREM Grounded == Spec => []GroundedInv
BY InitGrounded, NextGrounded, PTL DEF Spec

(***************************************************************************)
(* For every framework, of any size: the loop of grounded_extension        *)
(* returns the least complete extension.                                   *)
(***************************************************************************)
THEOREM LeastFixedPoint == Spec => []GroundedIsLeast
<1>1. GroundedInv => GroundedIsLeast
  BY DEF GroundedInv, TypeInv, SelfSupported, BelowComplete, Found, GroundedIsLeast, IsComplete
<1> QED
  BY <1>1, Grounded, PTL

(***************************************************************************)
(* Every round of the loop adds an argument and loses none, which bounds   *)
(* the rounds by the number of arguments.                                  *)
(***************************************************************************)
THEOREM Growing == Spec => RoundsGrow
<1>1. GroundedInv /\ [Next]_vars => Grows
  BY DEF GroundedInv, SelfSupported, Next, Reject, Enumerate, Round, Return, vars, Grows
<1>2. Spec => [][Grows]_vars
  BY <1>1, Grounded, PTL DEF Spec
<1> QED
  BY <1>2 DEF RoundsGrow

(***************************************************************************)
(* Every admissible set lies in a maximal one, since the framework is      *)
(* finite: one with the fewest arguments outside it.                       *)
(***************************************************************************)
LEMMA MaximalAbove ==
    ASSUME IsFiniteSet(arguments), NEW S \in Admissible
    PROVE  \E M \in Admissible : S \subseteq M /\ \A T \in Admissible : M \subseteq T => M = T
<1> DEFINE Larger == {T \in Admissible : S \subseteq T}
           Left(T) == Cardinality(arguments \ T)
           N == {n \in Nat : \E T \in Larger : n = Left(T)}
<1>1. \A T \in Larger : T \subseteq arguments /\ IsFiniteSet(arguments \ T) /\ Left(T) \in Nat
  <2> TAKE T \in Larger
  <2>1. T \subseteq arguments /\ (arguments \ T) \in SUBSET arguments
    BY DEF Admissible
  <2>2. IsFiniteSet(arguments \ T)
    BY <2>1, FS_Subset
  <2> QED
    BY <2>1, <2>2, FS_CardinalityType
<1>2. S \in Larger
  OBVIOUS
<1>3. N \subseteq Nat /\ N # {}
  BY <1>1, <1>2
<1>4. PICK n \in N : \A k \in N : n <= k
  BY <1>3, Least
<1>5. PICK M \in Larger : n = Left(M)
  BY <1>4
<1>6. ASSUME NEW T \in Admissible, M \subseteq T PROVE M = T
  <2>1. T \in Larger
    BY <1>6
  <2>2. Left(M) <= Left(T)
    BY <1>1, <1>4, <1>5, <2>1
  <2>3. (arguments \ T) \in SUBSET (arguments \ M)
    BY <1>6
  <2>4. Left(T) <= Left(M) /\ (Left(M) = Left(T) => arguments \ M = arguments \ T)
    BY <1>1, <2>3, FS_Subset
  <2>5. Left(M) = Left(T)
    <3>1. Left(M) \in Nat /\ Left(T) \in Nat
      BY <1>1, <2>1
    <3>2. Left(T) <= Left(M)
      BY <2>4
    <3> HIDE DEF Left
    <3> QED
      BY <2>2, <3>1, <3>2
  <2> QED
    BY <1>1, <1>6, <2>1, <2>4, <2>5
<1> QED
  BY <1>5, <1>6

(***************************************************************************)
(* A maximal admissible set is complete: what it accepts could be added.   *)
(***************************************************************************)
LEMMA MaximalIsComplete ==
    ASSUME NEW M \in Admissible, \A T \in Admissible : M \subseteq T => M = T
    PROVE  IsComplete(M)
<1>1. M \subseteq arguments /\ IsConflictFree(M) /\ M \subseteq Acceptable(M)
  BY DEF Admissible
<1>2. Acceptable(M) \subseteq arguments /\ IsConflictFree(Acceptable(M))
  BY <1>1, AcceptableConflictFree DEF Acceptable
<1>3. Acceptable(M) \subseteq Acceptable(Acceptable(M))
  BY <1>1, Monotone
<1>4. Acceptable(M) \in Admissible
  BY <1>2, <1>3 DEF Admissible
<1> QED
  BY <1>1, <1>4 DEF IsComplete

(***************************************************************************)
(* A stable set is complete, and no conflict-free set is larger.           *)
(***************************************************************************)
LEMMA StableIsMaximal ==
    ASSUME NEW S \in SUBSET arguments, IsStable(S)
    PROVE  /\ IsComplete(S)
           /\ \A T \in SUBSET arguments : IsConflictFree(T) /\ S \subseteq T => S = T
<1>1. IsConflictFree(S) /\ S \cup AttackedBy(S) = arguments
  BY DEF IsStable
<1>2. \A a \in S : a \notin AttackedBy(S)
  BY <1>1 DEF IsConflictFree, AttackedBy
<1>3. ASSUME NEW a \in S PROVE a \in Acceptable(S)
  BY <1>1, <1>3 DEF Acceptable, Defends, AttackersOf, IsConflictFree
<1>4. ASSUME NEW a \in Acceptable(S) PROVE a \in S
  <2> SUFFICES ASSUME a \in AttackedBy(S) PROVE FALSE
    BY <1>1, <1>4 DEF Acceptable
  <2>1. PICK b \in S : <<b, a>> \in attacks
    BY DEF AttackedBy
  <2>2. b \in AttackedBy(S)
    BY <1>4, <2>1 DEF Acceptable, Defends, AttackersOf
  <2> QED
    BY <1>2, <2>1, <2>2
<1>5. ASSUME NEW T \in SUBSET arguments, IsConflictFree(T), S \subseteq T, NEW a \in T
      PROVE  a \in S
  <2>1. a \notin AttackedBy(S)
    BY <1>5 DEF AttackedBy, IsConflictFree
  <2> QED
    BY <1>1, <1>5, <2>1
<1> QED
  BY <1>1, <1>3, <1>4, <1>5 DEF IsComplete

(***************************************************************************)
(* For every framework: the preferred extensions that evaluate selects are *)
(* the maximal admissible sets and exist, the stable ones are all that     *)
(* there are, and each is preferred.                                       *)
(***************************************************************************)
THEOREM Extensions == Spec => []ExtensionsAsDefined
<1>1. GroundedInv => ExtensionsAsDefined
  <2> SUFFICES ASSUME GroundedInv, phase = "evaluated"
               PROVE  /\ Preferred = {S \in Admissible : \A T \in Admissible : S \subseteq T => S = T}
                      /\ Preferred # {}
                      /\ Stable = {S \in SUBSET arguments : IsStable(S)}
                      /\ Stable \subseteq Preferred
    BY DEF ExtensionsAsDefined
  <2>1. complete = {S \in SUBSET arguments : IsComplete(S)}
    BY DEF GroundedInv, Found
  <2>2. IsFiniteSet(arguments)
    <3>1. arguments \in SUBSET Names
      BY DEF GroundedInv, TypeInv
    <3> QED
      BY <3>1, FS_Subset, DungAssumption DEF DungAssumption
  <2>3. complete \subseteq Admissible
    BY <2>1 DEF IsComplete, Admissible
  <2>4. ASSUME NEW S \in Preferred, NEW T \in Admissible, S \subseteq T PROVE S = T
    <3>1. PICK M \in Admissible : T \subseteq M /\ \A U \in Admissible : M \subseteq U => M = U
      BY <2>2, MaximalAbove
    <3>2. M \in complete
      BY <2>1, <3>1, MaximalIsComplete DEF Admissible
    <3> QED
      BY <2>4, <3>1, <3>2 DEF Preferred
  <2>5. ASSUME NEW S \in Admissible, \A T \in Admissible : S \subseteq T => S = T PROVE S \in Preferred
    <3>1. S \in complete
      BY <2>1, <2>5, MaximalIsComplete DEF Admissible
    <3> QED
      BY <2>3, <2>5, <3>1 DEF Preferred
  <2>6. Preferred \subseteq Admissible
    BY <2>3 DEF Preferred
  <2>7. Preferred # {}
    <3>1. {} \in Admissible
      BY DEF Admissible, IsConflictFree
    <3>2. PICK M \in Admissible : \A U \in Admissible : M \subseteq U => M = U
      BY <2>2, <3>1, MaximalAbove
    <3> QED
      BY <2>5, <3>2
  <2>8. Stable = {S \in SUBSET arguments : IsStable(S)}
    BY <2>1, StableIsMaximal DEF Stable
  <2>9. Stable \subseteq Preferred
    BY <2>1, <2>8, StableIsMaximal DEF Preferred, IsComplete
  <2>10. Preferred = {S \in Admissible : \A T \in Admissible : S \subseteq T => S = T}
    BY <2>4, <2>5, <2>6
  <2> QED
    BY <2>7, <2>8, <2>9, <2>10
<1> QED
  BY <1>1, Grounded, PTL

-----------------------------------------------------------------------------
(***************************************************************************)
(* Analysis planning.  The greedy loop of build_analysis_plan always makes *)
(* progress, because a separator costs nothing: the longest range that     *)
(* fits has, unless it ends with the document, a source segment after it   *)
(* or in it to start the next group with.                                  *)
(***************************************************************************)
(***************************************************************************)
(* What _bounded_segments gives: source segments with a demand and a rank, *)
(* and separators without any between each two.                            *)
(***************************************************************************)
Segment == [source : BOOLEAN, demand : Nat, rank : Nat]

(***************************************************************************)
(* The arguments of build_analysis_plan.  Source segments are at the odd   *)
(* places, separators at the even ones and cost nothing.                   *)
(***************************************************************************)
Prepared ==
    /\ segments \in Seq(Segment) /\ Len(segments) > 0
    /\ \A i \in DOMAIN segments : segments[i].source <=> i % 2 = 1
    /\ \A i \in DOMAIN segments : ~segments[i].source => segments[i].demand = 0
    /\ maximum \in Nat \cup {Unknown, None} /\ margin \in Nat

(***************************************************************************)
(* The groups so far: they start at the first segment, follow each other   *)
(* and end before the segment the next one starts with, which is a source  *)
(* segment; each fits.                                                     *)
(***************************************************************************)
GroupsWhole ==
    /\ groups \in Seq(Nat \X Nat) /\ start \in 1..(Len(segments) + 1)
    /\ start <= Len(segments) => segments[start].source
    /\ groups = <<>> <=> start = 1
    /\ groups # <<>> => groups[1][1] = 1 /\ groups[Len(groups)][2] = start - 1
    /\ \A u \in 1..(Len(groups) - 1) : groups[u + 1][1] = groups[u][2] + 1
    /\ \A u \in DOMAIN groups : /\ groups[u][1] <= groups[u][2] /\ groups[u][2] < start
                                /\ Fits(Demand(groups[u][1], groups[u][2]))
                                /\ segments[groups[u][1]].source

(***************************************************************************)
(* Grouping happens only where each segment fits alone, and without a      *)
(* known capacity one group takes everything.                              *)
(***************************************************************************)
Feasible ==
    /\ groups # <<>> => maximum # None /\ ~Unplannable
    /\ maximum = Unknown /\ groups # <<>> => Len(groups) = 1 /\ start = Len(segments) + 1

(***************************************************************************)
(* A plan is made only of groups that end with the document, and says      *)
(* "subdivided" only of more than one.                                     *)
(***************************************************************************)
Settled ==
    /\ status \in {"planning", "not_planned", "planning_failed", "single_unit", "subdivided"}
    /\ status \in {"single_unit", "subdivided"} => start = Len(segments) + 1
    /\ status = "subdivided" => Len(groups) # 1

\* The inductive invariant of the planning of subdivision.py.
PlanInv == Prepared /\ GroupsWhole /\ Feasible /\ Settled

(***************************************************************************)
(* The invariant holds of every document that preparation may hand on.     *)
(***************************************************************************)
LEMMA InitPlan == PlanInit => PlanInv
<1> SUFFICES ASSUME PlanInit PROVE PlanInv
  OBVIOUS
<1>1. PICK d \in Documents : segments = Separated(d)
  BY DEF PlanInit
<1> DEFINE R == [demand : Nat \ {0}, rank : Nat]
<1>2. d \in Seq(R) /\ d # <<>>
  BY PlanningAssumption DEF PlanningAssumption
<1> HIDE DEF R
<1>3. Len(d) \in Nat /\ Len(d) > 0
  BY <1>2
<1> DEFINE n == 2 * Len(d) - 1
<1>4. n \in Nat /\ n > 0
  BY <1>3
<1>5. \A i \in 1..n : i % 2 = 1 => (i + 1) \div 2 \in 1..Len(d)
  BY <1>3
<1>6. \A j \in 1..Len(d) : d[j].demand \in Nat /\ d[j].rank \in Nat
  <2>1. \A j \in 1..Len(d) : d[j] \in R
    BY <1>2
  <2> QED
    BY <2>1 DEF R
<1>7. segments = [i \in 1..n |->
        IF i % 2 = 1 THEN [source |-> TRUE, demand |-> d[(i + 1) \div 2].demand, rank |-> d[(i + 1) \div 2].rank]
                     ELSE [source |-> FALSE, demand |-> 0, rank |-> 0]]
  BY <1>1 DEF Separated
<1> HIDE DEF n
<1>8. \A i \in 1..n : segments[i] \in Segment /\ (segments[i].source <=> i % 2 = 1)
                      /\ (~segments[i].source => segments[i].demand = 0)
  BY <1>5, <1>6, <1>7 DEF Segment
<1>9. segments \in Seq(Segment) /\ Len(segments) = n /\ DOMAIN segments = 1..n
  <2>1. segments \in [1..n -> Segment]
    BY <1>7, <1>8
  <2> QED
    BY <1>4, <2>1
<1>10. Prepared
  BY <1>4, <1>8, <1>9, PlanningAssumption DEF Prepared, PlanInit, PlanningAssumption
<1>11. GroupsWhole
  <2>1. groups = <<>> /\ start = 1
    BY DEF PlanInit
  <2>2. 1 \in 1..n /\ 1 % 2 = 1
    BY <1>4
  <2> QED
    BY <1>4, <1>8, <1>9, <2>1, <2>2 DEF GroupsWhole
<1>12. Feasible /\ Settled
  BY DEF PlanInit, Feasible, Settled
<1> QED
  BY <1>10, <1>11, <1>12 DEF PlanInv

(***************************************************************************)
(* What the invariant says of the segments, in the form the proofs need.   *)
(***************************************************************************)
LEMMA SegmentFacts ==
    ASSUME Prepared
    PROVE  /\ Len(segments) \in Nat /\ Len(segments) > 0 /\ DOMAIN segments = 1..Len(segments)
           /\ \A i \in 1..Len(segments) : segments[i].demand \in Nat /\ segments[i].rank \in Nat
<1>1. segments \in Seq(Segment)
  BY DEF Prepared
<1>2. Len(segments) \in Nat /\ DOMAIN segments = 1..Len(segments)
  BY <1>1
<1>3. \A i \in 1..Len(segments) : segments[i] \in Segment
  BY <1>1
<1> QED
  BY <1>2, <1>3 DEF Prepared, Segment

(***************************************************************************)
(* The running totals of any sequence of numbers exist and are what they   *)
(* are defined to be.                                                      *)
(***************************************************************************)
LEMMA TotalsFacts ==
    ASSUME NEW counts \in Seq(Nat)
    PROVE  /\ Totals(counts) \in [0..Len(counts) -> Nat] /\ Totals(counts)[0] = 0
           /\ \A i \in 1..Len(counts) : Totals(counts)[i] = Totals(counts)[i - 1] + counts[i]
<1> DEFINE L == Len(counts)
           T == Totals(counts)
           d == [i \in Nat |-> IF i \in 1..L THEN counts[i] ELSE 0]
           Step == [n \in Nat |-> [x \in Nat |-> x + d[n + 1]]]
<1>1. L \in Nat /\ \A i \in 1..L : counts[i] \in Nat
  OBVIOUS
<1> HIDE DEF L, T
<1>2. d \in [Nat -> Nat]
  BY <1>1
<1> HIDE DEF d
<1>3. Step \in [Nat -> [Nat -> Nat]]
  BY <1>2
<1>4. \A n, x \in Nat : Step[n][x] = x + d[n + 1]
  OBVIOUS
<1> HIDE DEF Step
<1>5. PICK f \in [Nat -> Nat] : f[0] = 0 /\ \A n \in Nat : f[n + 1] = Step[n][f[n]]
  <2>1. 0 \in Nat
    OBVIOUS
  <2>2. Iterable(Nat, 0, Step)
    BY <1>3, <2>1, Iteration
  <2> QED
    BY <2>2 DEF Iterable
<1> DEFINE g == [i \in 0..L |-> f[i]]
<1>6. \A i \in 1..L : g[i] = g[i - 1] + counts[i]
  <2> TAKE i \in 1..L
  <2>1. i - 1 \in Nat /\ i \in Nat /\ (i - 1) + 1 = i /\ i \in 0..L /\ i - 1 \in 0..L
    BY <1>1
  <2>2. f[i] = f[i - 1] + d[i]
    BY <1>4, <1>5, <2>1
  <2>3. d[i] = counts[i]
    BY <2>1 DEF d
  <2> QED
    BY <2>1, <2>2, <2>3
<1>7. g \in [0..L -> Nat] /\ g[0] = 0
  BY <1>1, <1>5
<1> HIDE DEF g
<1>8. g = [i \in 0..L |-> IF i = 0 THEN 0 ELSE g[i - 1] + counts[i]]
  <2>1. \A i \in 0..L : g[i] = IF i = 0 THEN 0 ELSE g[i - 1] + counts[i]
    <3>1. \A i \in 0..L : i # 0 => i \in 1..L
      BY <1>1
    <3> QED
      BY <1>6, <1>7, <3>1
  <2> QED
    BY <1>7, <2>1, Zenon
<1>9. \E h : h = [i \in 0..L |-> IF i = 0 THEN 0 ELSE h[i - 1] + counts[i]]
  BY <1>8
<1>10. T = [i \in 0..L |-> IF i = 0 THEN 0 ELSE T[i - 1] + counts[i]]
  BY <1>9 DEF Totals, T, L
<1>11. T[0] = 0
  BY <1>1, <1>10
<1>12. ASSUME NEW i \in 1..L PROVE T[i] = T[i - 1] + counts[i]
  <2>1. i \in 0..L /\ i # 0
    BY <1>1
  <2> QED
    BY <1>10, <2>1, Zenon
<1>13. ASSUME NEW i \in 0..L PROVE T[i] \in Nat
  <2> DEFINE S == {n \in Nat : n <= L => T[n] \in Nat}
  <2>1. 0 \in S
    BY <1>11
  <2>2. ASSUME NEW n \in Nat, n \in S PROVE n + 1 \in S
    <3> SUFFICES ASSUME n + 1 <= L PROVE T[n + 1] \in Nat
      OBVIOUS
    <3>1. n + 1 \in 1..L /\ (n + 1) - 1 = n /\ n <= L
      BY <1>1
    <3>2. T[n] \in Nat
      BY <2>2, <3>1
    <3>3. T[n + 1] = T[n] + counts[n + 1]
      BY <1>12, <3>1
    <3>4. counts[n + 1] \in Nat
      BY <1>1, <3>1
    <3>5. \A x, y \in Nat : x + y \in Nat
      OBVIOUS
    <3> QED
      BY <3>2, <3>3, <3>4, <3>5, Zenon
  <2> HIDE DEF S
  <2>3. Nat \subseteq S
    BY <2>1, <2>2, Induct
  <2> QED
    BY <1>1, <2>3 DEF S
<1> QED
  BY <1>10, <1>11, <1>12, <1>13 DEF L, T

(***************************************************************************)
(* They never decrease.                                                    *)
(***************************************************************************)
LEMMA TotalsMonotone ==
    ASSUME NEW counts \in Seq(Nat), NEW i \in 0..Len(counts), NEW j \in 0..Len(counts), i <= j
    PROVE  Totals(counts)[i] <= Totals(counts)[j]
<1> DEFINE T == Totals(counts)
           L == Len(counts)
           S == {n \in Nat : i + n <= L => T[i] <= T[i + n]}
<1>1. /\ L \in Nat /\ i \in 0..L /\ j \in 0..L /\ T \in [0..L -> Nat]
      /\ \A k \in 1..L : counts[k] \in Nat /\ T[k] = T[k - 1] + counts[k]
  BY TotalsFacts
<1> HIDE DEF T, L
<1>2. 0 \in S
  BY <1>1
<1>3. ASSUME NEW n \in Nat, n \in S PROVE n + 1 \in S
  <2> SUFFICES ASSUME i + (n + 1) <= L PROVE T[i] <= T[i + (n + 1)]
    OBVIOUS
  <2> DEFINE k == i + (n + 1)
  <2>1. k \in 1..L /\ k - 1 = i + n /\ i + n \in 0..L
    BY <1>1
  <2>2. T[k] = T[k - 1] + counts[k] /\ counts[k] \in Nat
    BY <1>1, <2>1
  <2>3. T[i] <= T[i + n]
    BY <1>3, <2>1
  <2>4. T[i] \in Nat /\ T[i + n] \in Nat
    BY <1>1, <2>1
  <2> QED
    BY <2>1, <2>2, <2>3, <2>4
<1> HIDE DEF S
<1>4. Nat \subseteq S
  BY <1>2, <1>3, Induct
<1>5. j - i \in S
  BY <1>1, <1>4
<1> QED
  BY <1>1, <1>5 DEF S, T

(***************************************************************************)
(* So do those of the demands of a document.                               *)
(***************************************************************************)
LEMMA TotalRecursion ==
    ASSUME Prepared
    PROVE  /\ Total \in [0..Len(segments) -> Nat] /\ Total[0] = 0
           /\ \A i \in 1..Len(segments) : Total[i] = Total[i - 1] + segments[i].demand
           /\ \A i, j \in 0..Len(segments) : i <= j => Total[i] <= Total[j]
<1> DEFINE d == [i \in DOMAIN segments |-> segments[i].demand]
<1>1. /\ Len(segments) \in Nat /\ DOMAIN segments = 1..Len(segments)
      /\ \A i \in 1..Len(segments) : segments[i].demand \in Nat
  BY SegmentFacts
<1>2. d \in Seq(Nat) /\ Len(d) = Len(segments) /\ \A i \in 1..Len(segments) : d[i] = segments[i].demand
  BY <1>1
<1>3. Total = Totals(d)
  BY DEF Total
<1> HIDE DEF d
<1>4. /\ Total \in [0..Len(d) -> Nat] /\ Total[0] = 0
      /\ \A i \in 1..Len(d) : Total[i] = Total[i - 1] + d[i]
  BY <1>2, <1>3, TotalsFacts
<1>5. \A i, j \in 0..Len(d) : i <= j => Total[i] <= Total[j]
  BY <1>2, <1>3, TotalsMonotone
<1> QED
  BY <1>2, <1>4, <1>5

(***************************************************************************)
(* The demand of a range: of one segment, of one segment more, of a        *)
(* shorter range.                                                          *)
(***************************************************************************)
LEMMA DemandFacts ==
    ASSUME Prepared, NEW i \in 1..Len(segments)
    PROVE  /\ Demand(i, i) = segments[i].demand
           /\ \A j \in i..Len(segments) : Demand(i, j) \in Nat
           /\ \A j \in i..Len(segments) : j < Len(segments) =>
                 Demand(i, j + 1) = Demand(i, j) + segments[j + 1].demand
           /\ \A j \in i..Len(segments), k \in i..Len(segments) : j <= k => Demand(i, j) <= Demand(i, k)
<1>1. Len(segments) \in Nat /\ \A j \in 1..Len(segments) : segments[j].demand \in Nat
  BY SegmentFacts
<1>2. /\ \A j \in 0..Len(segments) : Total[j] \in Nat
      /\ \A j \in 1..Len(segments) : Total[j] = Total[j - 1] + segments[j].demand
  BY TotalRecursion
<1>3. i \in Nat /\ i - 1 \in 0..Len(segments) /\ i \in 0..Len(segments)
  BY <1>1
<1>4. Demand(i, i) = segments[i].demand
  BY <1>1, <1>2, <1>3 DEF Demand
<1>5. ASSUME NEW j \in i..Len(segments) PROVE Demand(i, j) \in Nat
  <2>1. j \in 0..Len(segments) /\ i - 1 <= j
    BY <1>1, <1>3
  <2>2. Total[i - 1] <= Total[j]
    BY <1>3, <2>1, TotalRecursion
  <2> QED
    BY <1>2, <1>3, <2>1, <2>2 DEF Demand
<1>6. ASSUME NEW j \in i..Len(segments), j < Len(segments)
      PROVE  Demand(i, j + 1) = Demand(i, j) + segments[j + 1].demand
  <2>1. j + 1 \in 1..Len(segments) /\ (j + 1) - 1 = j /\ j \in 0..Len(segments) /\ j + 1 \in 0..Len(segments)
    BY <1>1, <1>3, <1>6
  <2>2. Total[j + 1] = Total[j] + segments[j + 1].demand
    BY <1>2, <2>1
  <2>3. Total[j] \in Nat /\ Total[i - 1] \in Nat /\ segments[j + 1].demand \in Nat
    BY <1>1, <1>2, <1>3, <2>1
  <2> QED
    BY <2>2, <2>3 DEF Demand
<1>7. ASSUME NEW j \in i..Len(segments), NEW k \in i..Len(segments), j <= k
      PROVE  Demand(i, j) <= Demand(i, k)
  <2>1. j \in 0..Len(segments) /\ k \in 0..Len(segments)
    BY <1>1, <1>3
  <2>2. Total[j] <= Total[k]
    BY <1>7, <2>1, TotalRecursion
  <2>3. Total[j] \in Nat /\ Total[k] \in Nat /\ Total[i - 1] \in Nat
    BY <1>2, <1>3, <2>1
  <2> QED
    BY <2>2, <2>3 DEF Demand
<1> QED
  BY <1>4, <1>5, <1>6, <1>7

(***************************************************************************)
(* What fits a capacity still fits when it is less.                        *)
(***************************************************************************)
LEMMA FitsLess ==
    ASSUME Prepared, maximum # None, NEW a \in Nat, NEW b \in Nat, a <= b, Fits(b)
    PROVE  Fits(a)
<1>1. margin \in Nat /\ (maximum # Unknown => maximum \in Nat)
  BY DEF Prepared
<1> QED
  BY <1>1 DEF Fits

(***************************************************************************)
(* What the while loop of a group stops at.                                *)
(***************************************************************************)
LEMMA GreedyGroup ==
    ASSUME Prepared, maximum # None, ~Unplannable, NEW s \in 1..Len(segments), s = start, segments[s].source
    PROVE  /\ GreedyEnd \in (s + 1)..(Len(segments) + 1)
           /\ Fits(Demand(s, GreedyEnd - 1))
           /\ maximum = Unknown => GreedyEnd = Len(segments) + 1
           /\ GreedyEnd <= Len(segments) => s + 2 <= GreedyEnd /\ segments[s + 2].source
<1> DEFINE ends == {e \in s..Len(segments) : Fits(Demand(s, e))}
           IsLongest(e) == e \in ends /\ \A f \in ends : f <= e
<1>1. Len(segments) \in Nat /\ s \in Nat
  BY SegmentFacts
<1>2. s \in ends
  <2>1. Fits(segments[s].demand)
    BY SegmentFacts DEF Unplannable
  <2> QED
    BY <1>1, <2>1, DemandFacts
<1>3. \E e \in ends : \A f \in ends : f <= e
  <2>1. ends \subseteq Nat /\ \A f \in ends : f <= Len(segments)
    BY <1>1
  <2> HIDE DEF ends
  <2> QED
    BY <1>1, <1>2, <2>1, Greatest
<1> DEFINE e == CHOOSE x \in ends : \A f \in ends : f <= x
<1>4. e \in ends /\ \A f \in ends : f <= e
  <2> HIDE DEF ends
  <2> QED
    BY <1>3
<1>5. GreedyEnd = 1 + e
  BY DEF GreedyEnd
<1> HIDE DEF e
<1>6. e \in s..Len(segments) /\ Fits(Demand(s, e))
  BY <1>4
<1>7. e \in Nat /\ (1 + e) - 1 = e /\ GreedyEnd \in (s + 1)..(Len(segments) + 1)
  BY <1>1, <1>5, <1>6
<1>8. ASSUME maximum = Unknown PROVE GreedyEnd = Len(segments) + 1
  <2>1. Len(segments) \in ends
    BY <1>1, <1>8 DEF Fits
  <2> QED
    BY <1>1, <1>4, <1>5, <1>6, <2>1
<1>9. ASSUME GreedyEnd <= Len(segments) PROVE s + 2 <= GreedyEnd /\ segments[s + 2].source
  <2>1. s + 1 \in 1..Len(segments)
    BY <1>1, <1>5, <1>7, <1>9
  <2>2. s % 2 = 1 /\ (s + 1) % 2 # 1 /\ (s + 2) % 2 = 1
    <3>1. s % 2 = 1
      BY SegmentFacts DEF Prepared
    <3> QED
      BY <1>1, <3>1
  <2>3. ~segments[s + 1].source /\ segments[s + 1].demand = 0
    BY <2>1, <2>2, SegmentFacts DEF Prepared
  <2>4. Demand(s, s + 1) = Demand(s, s) + 0
    <3>1. s \in s..Len(segments) /\ s < Len(segments)
      BY <1>1, <2>1
    <3> QED
      BY <2>3, <3>1, DemandFacts
  <2>5. Demand(s, s) \in Nat /\ Fits(Demand(s, s))
    BY <1>1, <1>2, DemandFacts
  <2>6. s + 1 \in ends
    <3>1. Demand(s, s + 1) = Demand(s, s)
      BY <2>4, <2>5
    <3> QED
      BY <1>1, <2>1, <2>5, <3>1
  <2>7. s + 1 <= e
    BY <1>4, <2>6
  <2>8. s + 2 <= GreedyEnd /\ s + 2 \in 1..Len(segments)
    BY <1>1, <1>5, <1>7, <1>9, <2>7
  <2> QED
    BY <2>2, <2>8, SegmentFacts DEF Prepared
<1> QED
  BY <1>5, <1>6, <1>7, <1>8, <1>9

(***************************************************************************)
(* The next group starts after this one does, and not behind what fits.    *)
(***************************************************************************)
LEMMA NextGroup ==
    ASSUME Prepared, NEW s \in 1..Len(segments), s = start, NEW end \in (s + 1)..(Len(segments) + 1),
           end <= Len(segments) => s + 2 <= end /\ segments[s + 2].source
    PROVE  /\ NextStart(end) \in (s + 1)..end
           /\ NextStart(end) <= Len(segments) => segments[NextStart(end)].source
           /\ end > Len(segments) => NextStart(end) = end
<1>1. Len(segments) \in Nat /\ s \in Nat /\ end \in Nat
  BY SegmentFacts
<1>2. CASE end > Len(segments)
  BY <1>1, <1>2 DEF NextStart
<1>3. CASE ~(end > Len(segments))
  <2> DEFINE candidates == {i \in (s + 1)..end : segments[i].source}
             Better(i, j) == \/ segments[i].rank < segments[j].rank
                             \/ segments[i].rank = segments[j].rank /\ i >= j
             Ranks == {segments[i].rank : i \in candidates}
  <2>1. s + 2 \in candidates
    BY <1>1, <1>3
  <2>2. \A i \in candidates : i \in 1..Len(segments) /\ i \in Nat /\ i <= Len(segments) /\ segments[i].rank \in Nat
    <3>1. \A i \in candidates : i \in 1..Len(segments)
      BY <1>1, <1>3
    <3> QED
      BY <1>1, <3>1, SegmentFacts
  <2> HIDE DEF candidates
  <2>3. PICK r \in Ranks : \A q \in Ranks : r <= q
    <3>1. Ranks \subseteq Nat /\ Ranks # {}
      BY <2>1, <2>2
    <3> QED
      BY <3>1, Least
  <2> DEFINE best == {i \in candidates : segments[i].rank = r}
  <2>4. PICK i \in best : \A j \in best : j <= i
    <3>1. best \subseteq Nat /\ best # {} /\ \A j \in best : j <= Len(segments)
      BY <2>2, <2>3
    <3> HIDE DEF best
    <3> QED
      BY <1>1, <3>1, Greatest
  <2>5. \A j \in candidates : Better(i, j)
    <3> TAKE j \in candidates
    <3>1. i \in candidates /\ segments[i].rank = r /\ r \in Nat /\ i \in Nat /\ j \in Nat /\ segments[j].rank \in Nat
      BY <2>2, <2>4
    <3>2. r <= segments[j].rank
      BY <2>3
    <3>3. CASE segments[j].rank = r
      BY <2>4, <3>1, <3>3
    <3> QED
      BY <3>1, <3>2, <3>3
  <2>6. \E x \in candidates : \A j \in candidates : Better(x, j)
    BY <2>4, <2>5
  <2> DEFINE next == CHOOSE x \in candidates : \A j \in candidates : Better(x, j)
  <2>7. next \in candidates
    <3> HIDE DEF Better
    <3> QED
      BY <2>6
  <2>8. NextStart(end) = next
    BY <1>3, <2>1 DEF NextStart, candidates
  <2> HIDE DEF next
  <2> QED
    BY <1>1, <1>3, <2>7, <2>8 DEF candidates
<1> QED
  BY <1>2, <1>3

(***************************************************************************)
(* While the arguments are the same, so are demands and what fits.         *)
(***************************************************************************)
LEMMA SamePlanInput ==
    ASSUME segments' = segments, maximum' = maximum, margin' = margin
    PROVE  /\ \A i, j : Demand(i, j)' = Demand(i, j)
           /\ \A d : Fits(d)' <=> Fits(d)
           /\ Unplannable' <=> Unplannable
           /\ Prepared' <=> Prepared
<1>1. Total' = Total
  BY DEF Total
<1>2. \A i, j : Demand(i, j)' = Demand(i, j)
  BY <1>1 DEF Demand
<1>3. \A d : Fits(d)' <=> Fits(d)
  BY DEF Fits
<1>4. Unplannable' <=> Unplannable
  BY <1>3 DEF Unplannable
<1>5. Prepared' <=> Prepared
  BY DEF Prepared
<1> QED
  BY <1>2, <1>3, <1>4, <1>5

(***************************************************************************)
(* A step of the outer while loop: the group it adds follows the ones      *)
(* before it and fits, since it ends no later than the longest that fits.  *)
(***************************************************************************)
LEMMA GroupKeeps == PlanInv /\ Group => PlanInv'
<1> SUFFICES ASSUME PlanInv, Group PROVE PlanInv'
  OBVIOUS
<1> DEFINE L == Len(segments)
           end == GreedyEnd
           next == NextStart(end)
           n == Len(groups)
<1>1. Prepared /\ GroupsWhole /\ Feasible /\ Settled
  BY DEF PlanInv
<1>2. /\ status = "planning" /\ maximum # None /\ start <= L /\ (start = 1 => ~Unplannable)
      /\ start' = next /\ groups' = Append(groups, <<start, next - 1>>)
      /\ segments' = segments /\ maximum' = maximum /\ margin' = margin /\ status' = status
  BY DEF Group
<1>3. L \in Nat /\ L > 0 /\ start \in 1..L /\ segments[start].source
  BY <1>1, <1>2, SegmentFacts DEF GroupsWhole
<1>4. ~Unplannable
  BY <1>1, <1>2 DEF GroupsWhole, Feasible
<1>5. /\ end \in (start + 1)..(L + 1) /\ Fits(Demand(start, end - 1))
      /\ maximum = Unknown => end = L + 1
      /\ end <= L => start + 2 <= end /\ segments[start + 2].source
  BY <1>1, <1>2, <1>3, <1>4, GreedyGroup
<1>6. /\ next \in (start + 1)..end
      /\ next <= L => segments[next].source
      /\ end > L => next = end
  BY <1>1, <1>3, <1>5, NextGroup
<1> HIDE DEF end, next
<1>7. next \in Nat /\ next - 1 \in start..L /\ next \in 1..(L + 1) /\ next # 1 /\ end - 1 \in start..L
      /\ next - 1 <= end - 1
  BY <1>3, <1>5, <1>6
<1>8. Fits(Demand(start, next - 1))
  <2>1. /\ Demand(start, next - 1) <= Demand(start, end - 1)
        /\ Demand(start, next - 1) \in Nat /\ Demand(start, end - 1) \in Nat
    BY <1>1, <1>3, <1>7, DemandFacts
  <2> QED
    BY <1>1, <1>2, <1>5, <2>1, FitsLess
<1>9. groups \in Seq(Nat \X Nat) /\ n \in Nat /\ DOMAIN groups = 1..n
  BY <1>1 DEF GroupsWhole
<1>10. /\ groups' \in Seq(Nat \X Nat) /\ Len(groups') = n + 1 /\ DOMAIN groups' = 1..(n + 1)
       /\ groups'[n + 1] = <<start, next - 1>> /\ \A u \in 1..n : groups'[u] = groups[u]
  <2>1. <<start, next - 1>> \in Nat \X Nat
    BY <1>3, <1>7
  <2> HIDE DEF L
  <2> QED
    BY <1>2, <1>9, <2>1
<1> HIDE DEF L, n
<1>11. groups' # <<>>
  BY <1>9, <1>10
<1>12. \A u \in 1..n : /\ groups[u][1] <= groups[u][2] /\ groups[u][2] < start
                       /\ Fits(Demand(groups[u][1], groups[u][2]))
                       /\ segments[groups[u][1]].source
                       /\ groups[u][2] \in Nat
  <2>1. \A u \in 1..n : groups[u] \in Nat \X Nat
    BY <1>9
  <2> QED
    BY <1>1, <1>9, <2>1 DEF GroupsWhole
<1>13. GroupsWhole'
  <2>1. start' \in 1..(L + 1) /\ (start' <= L => segments[start'].source) /\ start' # 1 /\ groups' # <<>>
    BY <1>2, <1>6, <1>7, <1>11
  <2>2. groups'[1][1] = 1
    <3>1. CASE n = 0
      <4>1. groups = <<>>
        BY <1>9, <3>1 DEF n
      <4> QED
        BY <1>1, <1>10, <3>1, <4>1 DEF GroupsWhole
    <3>2. CASE n # 0
      <4>1. 1 \in 1..n /\ groups # <<>>
        BY <1>9, <3>2 DEF n
      <4> QED
        BY <1>1, <1>10, <4>1 DEF GroupsWhole
    <3> QED
      BY <3>1, <3>2
  <2>3. groups'[Len(groups')][2] = start' - 1
    BY <1>2, <1>10
  <2>4. ASSUME NEW u \in 1..(Len(groups') - 1) PROVE groups'[u + 1][1] = groups'[u][2] + 1
    <3>1. u \in 1..n
      BY <1>9, <1>10
    <3>2. CASE u < n
      <4>1. u \in 1..(n - 1) /\ u + 1 \in 1..n
        BY <1>9, <3>1, <3>2
      <4>2. groups[u + 1][1] = groups[u][2] + 1
        BY <1>1, <4>1 DEF GroupsWhole, n
      <4> QED
        BY <1>10, <3>1, <4>1, <4>2
    <3>3. CASE u = n
      <4>1. groups # <<>> /\ n \in 1..n
        BY <1>9, <3>1, <3>3 DEF n
      <4>2. groups[n][2] = start - 1
        BY <1>1, <4>1 DEF GroupsWhole, n
      <4> QED
        BY <1>3, <1>10, <3>3, <4>1, <4>2
    <3> QED
      BY <1>9, <3>1, <3>2, <3>3
  <2>5. ASSUME NEW u \in DOMAIN groups'
        PROVE  /\ groups'[u][1] <= groups'[u][2] /\ groups'[u][2] < start'
               /\ Fits(Demand(groups'[u][1], groups'[u][2])) /\ segments[groups'[u][1]].source
    <3>1. CASE u = n + 1
      BY <1>2, <1>3, <1>7, <1>8, <1>10, <3>1
    <3>2. CASE u # n + 1
      <4>1. u \in 1..n /\ groups'[u] = groups[u]
        BY <1>9, <1>10, <3>2
      <4>2. groups[u][2] < start'
        BY <1>2, <1>3, <1>6, <1>7, <1>12, <4>1
      <4> QED
        BY <1>12, <4>1, <4>2
    <3> QED
      BY <3>1, <3>2
  <2>6. ASSUME NEW u \in DOMAIN groups' PROVE Fits(Demand(groups[u][1], groups[u][2]))'
    <3>1. Demand(groups[u][1], groups[u][2])' = Demand(groups'[u][1], groups'[u][2])
      BY <1>2, SamePlanInput
    <3> QED
      BY <1>2, <2>5, <3>1, SamePlanInput
  <2> QED
    BY <1>2, <1>10, <2>1, <2>2, <2>3, <2>4, <2>5, <2>6 DEF GroupsWhole, L
<1>14. Feasible'
  <2>1. ~Unplannable' /\ maximum' # None
    BY <1>2, <1>4, SamePlanInput
  <2>2. ASSUME maximum = Unknown PROVE Len(groups') = 1 /\ start' = L + 1
    <3>1. start' = L + 1
      BY <1>2, <1>3, <1>5, <1>6, <2>2
    <3>2. groups = <<>>
      BY <1>1, <1>3, <2>2 DEF Feasible, L
    <3> QED
      BY <1>9, <1>10, <3>1, <3>2 DEF n
  <2> QED
    BY <1>2, <2>1, <2>2 DEF Feasible, L
<1>15. Settled'
  BY <1>1, <1>2 DEF Settled
<1> QED
  BY <1>1, <1>2, <1>13, <1>14, <1>15, SamePlanInput DEF PlanInv

(***************************************************************************)
(* Every step of build_analysis_plan keeps the invariant.                  *)
(***************************************************************************)
LEMMA NextPlan == PlanInv /\ [PlanNext]_planning => PlanInv'
<1> SUFFICES ASSUME PlanInv, [PlanNext]_planning PROVE PlanInv'
  OBVIOUS
<1>1. CASE Group
  BY <1>1, GroupKeeps
<1>2. CASE NotPlanned \/ RefusePlan \/ Plan \/ UNCHANGED planning
  <2>1. /\ segments' = segments /\ maximum' = maximum /\ margin' = margin
        /\ start' = start /\ groups' = groups
    BY <1>2 DEF NotPlanned, RefusePlan, Plan, planning
  <2>2. Prepared' /\ Feasible'
    BY <2>1, SamePlanInput DEF PlanInv, Feasible
  <2>3. GroupsWhole'
    BY <2>1, SamePlanInput DEF PlanInv, GroupsWhole
  <2>4. Settled'
    <3>1. CASE NotPlanned \/ RefusePlan \/ UNCHANGED planning
      BY <2>1, <3>1 DEF NotPlanned, RefusePlan, planning, PlanInv, Settled
    <3>2. CASE Plan
      <4>1. start = Len(segments) + 1
        BY <3>2, SegmentFacts DEF Plan, PlanInv, GroupsWhole
      <4> QED
        BY <2>1, <3>2, <4>1 DEF Plan, Settled
    <3> QED
      BY <1>2, <3>1, <3>2
  <2> QED
    BY <2>2, <2>3, <2>4 DEF PlanInv
<1> QED
  BY <1>1, <1>2 DEF PlanNext

(***************************************************************************)
(* The groups are whole at every step, for documents of any length, and    *)
(* for every capacity, margin and demand.                                  *)
(***************************************************************************)
THEOREM PlansKept == PlanSpec => []PlanInv
BY InitPlan, NextPlan, PTL DEF PlanSpec

(***************************************************************************)
(* What the invariant says of a plan that is finished.                     *)
(***************************************************************************)
LEMMA PlanLossless == PlanInv => PlanIsLossless
<1> SUFFICES ASSUME PlanInv, status \in {"single_unit", "subdivided"}
             PROVE  /\ groups[1][1] = 1 /\ groups[Len(groups)][2] = Len(segments)
                    /\ \A u \in 1..(Len(groups) - 1) : groups[u + 1][1] = groups[u][2] + 1
                    /\ \A u \in DOMAIN groups : /\ groups[u][1] <= groups[u][2]
                                                /\ Fits(Demand(groups[u][1], groups[u][2]))
                                                /\ segments[groups[u][1]].source
                    /\ status = "subdivided" => maximum # Unknown
  BY DEF PlanIsLossless
<1>1. start = Len(segments) + 1 /\ Len(segments) \in Nat /\ Len(segments) > 0
  BY SegmentFacts DEF PlanInv, Settled
<1>2. groups # <<>> /\ start - 1 = Len(segments)
  BY <1>1 DEF PlanInv, GroupsWhole
<1> QED
  BY <1>2 DEF PlanInv, GroupsWhole, Feasible, Settled

(***************************************************************************)
(* A finished plan of subdivision.py loses and repeats nothing, and each   *)
(* of its units starts with source text and fits the parser.               *)
(***************************************************************************)
THEOREM LosslessPlans == PlanSpec => []PlanIsLossless
BY PlansKept, PlanLossless, PTL

(***************************************************************************)
(* The same in the ingest service, where each unit of the plan is parsed   *)
(* and joined while the plan stays as it is, and where a document that     *)
(* goes to the hierarchical parser has no plan.                            *)
(***************************************************************************)
THEOREM LosslessDocuments ==
    (DocInit \/ SectionsInit) /\ [][DocNext]_docVars => []PlanIsLossless
<1> DEFINE Kept == status = "sections" \/ PlanInv
<1>1. DocInit \/ SectionsInit => Kept
  BY InitPlan DEF DocInit, SectionsInit
<1>2. Kept /\ [DocNext]_docVars => Kept'
  <2> SUFFICES ASSUME Kept, [DocNext]_docVars PROVE Kept'
    OBVIOUS
  <2>1. PlanNext \/ UNCHANGED planning
    BY DEF DocNext, docVars, ParseUnit, Decode, Collect, Recombine, Stitch, Single
  <2>2. CASE status = "sections"
    <3>1. ~PlanNext
      BY <2>2 DEF PlanNext, NotPlanned, RefusePlan, Group, Plan
    <3> QED
      BY <2>1, <2>2, <3>1 DEF planning
  <2>3. CASE PlanInv
    BY <2>1, <2>3, NextPlan
  <2> QED
    BY <2>2, <2>3
<1>3. Kept => PlanIsLossless
  BY PlanLossless DEF PlanIsLossless
<1> QED
  BY <1>1, <1>2, <1>3, PTL

-----------------------------------------------------------------------------
(***************************************************************************)
(* Decoding and the tree of a unit.  The decoder's stacks are followed by  *)
(* an invariant; construct_tree, which recurses over spans, and the walk   *)
(* that counts leaves are followed by structural facts about the order of  *)
(* the constituents, proved for one EDU and for two halves that are        *)
(* joined.                                                                 *)
(***************************************************************************)
\* F makes a function of a function: its value at x of the values at smaller arguments.
Contracting(D, A, measure, F) ==
    /\ A # {} /\ measure \in [D -> Nat] /\ F \in [[D -> A] -> [D -> A]]
    /\ \A n \in Nat : \A g, h \in [D -> A] :
          (\A x \in D : measure[x] < n => g[x] = h[x]) => \A x \in D : measure[x] <= n => F[g][x] = F[h][x]
HasFixedPoint(D, A, F) == \E f \in [D -> A] : F[f] = f

(***************************************************************************)
(* A recursion over smaller and smaller arguments has a value: repeated    *)
(* often enough, its step no longer changes what is found at an argument.  *)
(* The spans of a parse, and the nodes of its walk, are such arguments.    *)
(***************************************************************************)
LEMMA FixedPoint ==
    ASSUME NEW D, NEW A, NEW measure, NEW F, Contracting(D, A, measure, F)
    PROVE  HasFixedPoint(D, A, F)
<1> SUFFICES ASSUME NEW a \in A, measure \in [D -> Nat], F \in [[D -> A] -> [D -> A]],
                    \A n \in Nat : \A g, h \in [D -> A] :
                       (\A x \in D : measure[x] < n => g[x] = h[x]) => \A x \in D : measure[x] <= n => F[g][x] = F[h][x]
             PROVE  \E f \in [D -> A] : F[f] = f
  BY DEF Contracting, HasFixedPoint
<1> DEFINE first == [x \in D |-> a]
           Step == [n \in Nat |-> F]
<1>1. first \in [D -> A] /\ Step \in [Nat -> [[D -> A] -> [D -> A]]]
  OBVIOUS
<1> HIDE DEF first
<1>2. PICK g \in [Nat -> [D -> A]] : g[0] = first /\ \A n \in Nat : g[n + 1] = Step[n][g[n]]
  <2>1. Iterable([D -> A], first, Step)
    <3> HIDE DEF Step
    <3> QED
      BY <1>1, Iteration
  <2> HIDE DEF Step
  <2> QED
    BY <2>1 DEF Iterable
<1>3. \A n \in Nat : g[n] \in [D -> A] /\ n + 1 \in Nat /\ g[n + 1] = F[g[n]]
  BY <1>2
<1> HIDE DEF Step
<1> DEFINE Calm == {n \in Nat : \A x \in D : measure[x] < n => g[n][x] = g[n + 1][x]}
<1>4. Nat \subseteq Calm
  <2>1. 0 \in Calm
    OBVIOUS
  <2>2. ASSUME NEW n \in Nat, n \in Calm PROVE n + 1 \in Calm
    <3> SUFFICES ASSUME NEW x \in D, measure[x] < n + 1 PROVE g[n + 1][x] = g[(n + 1) + 1][x]
      OBVIOUS
    <3>1. measure[x] <= n
      <4>1. measure[x] \in Nat
        OBVIOUS
      <4> QED
        BY <4>1
    <3>2. g[n + 1] = F[g[n]] /\ g[(n + 1) + 1] = F[g[n + 1]] /\ g[n] \in [D -> A] /\ g[n + 1] \in [D -> A]
      BY <1>3
    <3>3. \A y \in D : measure[y] < n => g[n][y] = g[n + 1][y]
      BY <2>2
    <3>4. F[g[n]][x] = F[g[n + 1]][x]
      BY <3>1, <3>2, <3>3
    <3> QED
      BY <3>2, <3>4
  <2> HIDE DEF Calm
  <2> QED
    BY <2>1, <2>2, Induct
<1> DEFINE f == [x \in D |-> g[measure[x] + 1][x]]
           Agreed == {n \in Nat : \A x \in D : measure[x] < n => g[n][x] = f[x]}
<1>5. f \in [D -> A]
  BY <1>3
<1>6. Nat \subseteq Agreed
  <2>1. 0 \in Agreed
    OBVIOUS
  <2>2. ASSUME NEW n \in Nat, n \in Agreed PROVE n + 1 \in Agreed
    <3> SUFFICES ASSUME NEW x \in D, measure[x] < n + 1 PROVE g[n + 1][x] = f[x]
      OBVIOUS
    <3>1. CASE measure[x] = n
      BY <3>1
    <3>2. CASE measure[x] # n
      <4>1. measure[x] < n
        <5>1. measure[x] \in Nat
          OBVIOUS
        <5>2. \A i, j \in Nat : i < j + 1 /\ i # j => i < j
          OBVIOUS
        <5>3. measure[x] < n + 1 /\ n \in Nat
          OBVIOUS
        <5> HIDE DEF f, Agreed, Calm
        <5> QED
          BY ONLY <3>2, <5>1, <5>2, <5>3
      <4>2. g[n][x] = g[n + 1][x]
        BY <1>4, <4>1
      <4> QED
        BY <2>2, <4>1, <4>2
    <3> QED
      BY <3>1, <3>2
  <2> HIDE DEF Agreed
  <2> QED
    BY <2>1, <2>2, Induct
<1>7. ASSUME NEW x \in D PROVE F[f][x] = f[x]
  <2> DEFINE n == measure[x]
  <2>1. n \in Nat /\ g[n] \in [D -> A] /\ g[n + 1] = F[g[n]]
    BY <1>3
  <2>2. \A y \in D : measure[y] < n => g[n][y] = f[y]
    BY <1>6, <2>1
  <2>3. f[x] = g[n + 1][x]
    OBVIOUS
  <2> HIDE DEF f, Agreed
  <2>4. measure[x] <= n
    BY <2>1
  <2> HIDE DEF n
  <2>5. \A y \in D : measure[y] <= n => F[g[n]][y] = F[f][y]
    BY <1>5, <2>1, <2>2
  <2> QED
    BY <2>1, <2>3, <2>4, <2>5
<1> HIDE DEF f
<1>8. F[f] \in [D -> A]
  BY <1>5
<1> QED
  BY <1>5, <1>7, <1>8

Spans == Nat \X Nat
\* The number of nodes of a binary tree over a span, and the children of the i-th of units.
Size(span) == 2 * (span[2] - span[1]) + 1
Below(units, i) == IF IsLeaf(units, i) THEN {} ELSE {i - 1, i - 1 - Size(units[i - 1])}
\* A span with its relation, and the two halves of it.
Parted(span, left, right) ==
    \E k \in DOMAIN relations :
        /\ k = RelationOver(span[1], span[2])
        /\ span[1] <= relations[k].split /\ relations[k].split < span[2] /\ relations[k].split \in Nat
        /\ left = <<span[1], relations[k].split>> /\ right = <<relations[k].split + 1, span[2]>>

(***************************************************************************)
(* The constituents of the EDUs from f to l in the order of                *)
(* construct_tree: the span of all of them is the last, the first EDU      *)
(* comes first.                                                            *)
(***************************************************************************)
Placed(s, f, l) ==
    /\ s \in Seq(Spans) /\ f \in Nat /\ l \in Nat /\ f <= l
    /\ Len(s) = Size(<<f, l>>) /\ s[Len(s)] = <<f, l>> /\ s[1] = <<f, f>>
    /\ \A i \in DOMAIN s : f <= s[i][1] /\ s[i][1] <= s[i][2] /\ s[i][2] <= l /\ Size(s[i]) <= i
(***************************************************************************)
(* A leaf is the EDU after the end of what comes before it.                *)
(***************************************************************************)
Consecutive(s) == \A i \in DOMAIN s : i > 1 /\ IsLeaf(s, i) => s[i][1] = s[i - 1][2] + 1
(***************************************************************************)
(* The children of a node are the halves of its span, by its relation.     *)
(***************************************************************************)
Branched(s) == \A i \in DOMAIN s : ~IsLeaf(s, i) => i > 1 /\ Parted(s[i], s[i - 1 - Size(s[i - 1])], s[i - 1])
(***************************************************************************)
(* Each constituent but the last is a child of exactly one other.          *)
(***************************************************************************)
Hung(s) ==
    /\ \A i \in DOMAIN s : i < Len(s) => \E j \in DOMAIN s : i \in Below(s, j)
    /\ \A i, j \in DOMAIN s : Below(s, i) \cap Below(s, j) # {} => i = j
(***************************************************************************)
(* Each EDU is one leaf.                                                   *)
(***************************************************************************)
LeavesOnce(s, f, l) ==
    /\ \A e \in f..l : \E i \in DOMAIN s : s[i] = <<e, e>>
    /\ \A i, j \in DOMAIN s : IsLeaf(s, i) /\ s[i] = s[j] => i = j
(***************************************************************************)
(* All of this together.                                                   *)
(***************************************************************************)
PostOrder(s, f, l) ==
    Placed(s, f, l) /\ Consecutive(s) /\ Branched(s) /\ Hung(s) /\ LeavesOnce(s, f, l)

(***************************************************************************)
(* The tree of one EDU.                                                    *)
(***************************************************************************)
LEMMA OneLeaf == ASSUME NEW e \in Nat PROVE PostOrder(<<<<e, e>>>>, e, e)
<1> DEFINE s == <<<<e, e>>>>
<1>1. /\ s \in Seq(Spans) /\ Len(s) = 1 /\ DOMAIN s = {1} /\ s[1] = <<e, e>>
  BY DEF Spans
<1>2. IsLeaf(s, 1) /\ Below(s, 1) = {} /\ Size(s[1]) = 1
  BY DEF IsLeaf, Below, Size
<1> HIDE DEF s
<1>3. Placed(s, e, e)
  BY <1>1, <1>2 DEF Placed
<1>4. Consecutive(s) /\ Branched(s) /\ Hung(s) 
  BY <1>1, <1>2 DEF Consecutive, Branched, Hung
<1>5. LeavesOnce(s, e, e)
  BY <1>1, <1>2 DEF LeavesOnce
<1> QED
  BY <1>3, <1>4, <1>5 DEF PostOrder, s

(***************************************************************************)
(* A span and its two halves have one node more than the halves have.      *)
(***************************************************************************)
LEMMA PartedFacts ==
    ASSUME NEW span \in Spans, NEW left, NEW right, Parted(span, left, right)
    PROVE  \E m \in Nat : /\ span[1] <= m /\ m < span[2] /\ left = <<span[1], m>> /\ right = <<m + 1, span[2]>>
                          /\ left \in Spans /\ right \in Spans
                          /\ Size(span) = Size(left) + Size(right) + 1 /\ Size(left) \in Nat \ {0} /\ Size(right) \in Nat \ {0}
<1>1. PICK m \in Nat : span[1] <= m /\ m < span[2] /\ left = <<span[1], m>> /\ right = <<m + 1, span[2]>>
  BY DEF Parted
<1>2. span[1] \in Nat /\ span[2] \in Nat
  BY DEF Spans
<1>3. left[1] = span[1] /\ left[2] = m /\ right[1] = m + 1 /\ right[2] = span[2]
  BY <1>1
<1>4. left \in Spans /\ right \in Spans
  BY <1>1, <1>2 DEF Spans
<1> QED
  BY <1>1, <1>2, <1>3, <1>4 DEF Size

(***************************************************************************)
(* Children come before their parent in the order of construct_tree.       *)
(***************************************************************************)
LEMMA BelowFacts ==
    ASSUME NEW s, NEW f, NEW l, Placed(s, f, l), Branched(s), NEW i \in DOMAIN s
    PROVE  /\ i \in Nat /\ Below(s, i) \subseteq 1..(i - 1)
           /\ ~IsLeaf(s, i) => /\ i - 1 \in DOMAIN s
                               /\ Below(s, i) = {i - 1, i - 1 - Size(s[i - 1])} 
                               /\ i - 1 - Size(s[i - 1]) < i - 1
                               /\ i - 1 - Size(s[i - 1]) \in DOMAIN s
<1>1. s \in Seq(Spans) /\ Len(s) \in Nat /\ DOMAIN s = 1..Len(s) /\ s[i] \in Spans
  BY LenProperties, ElementOfSeq DEF Placed
<1>2. CASE IsLeaf(s, i)
  BY <1>1, <1>2 DEF Below
<1>3. CASE ~IsLeaf(s, i)
  <2> DEFINE left == s[i - 1 - Size(s[i - 1])]
             right == s[i - 1]
  <2>1. i > 1 /\ Parted(s[i], left, right)
    BY <1>3 DEF Branched
  <2>2. i \in Nat /\ i - 1 \in 1..(i - 1) /\ i - 1 \in DOMAIN s
    BY <1>1, <2>1
  <2> HIDE DEF left, right
  <2>3. Size(s[i]) = Size(left) + Size(right) + 1 /\ Size(left) \in Nat \ {0} /\ Size(right) \in Nat \ {0}
    BY <1>1, <2>1, PartedFacts
  <2>4. Size(s[i]) <= i
    BY DEF Placed
  <2>5. i - 1 - Size(right) \in 1..(i - 1) /\ i - 1 - Size(right) < i - 1
    BY <2>2, <2>3, <2>4
  <2>6. i - 1 - Size(s[i - 1]) \in 1..(i - 1) /\ i - 1 - Size(s[i - 1]) < i - 1
    BY <2>5 DEF right
  <2>7. Below(s, i) = {i - 1, i - 1 - Size(s[i - 1])}
    BY <1>3 DEF Below
  <2>8. 1..(i - 1) \subseteq DOMAIN s
    BY <1>1, <2>2
  <2> QED
    BY <2>2, <2>6, <2>7, <2>8
<1> QED
  BY <1>2, <1>3

(***************************************************************************)
(* The trees of the two halves and a node for the span make the tree of    *)
(* the span: what construct_tree does with the constituents of two         *)
(* children. Each node is below one other, each EDU is one leaf, and the   *)
(* leaves come in order.                                                   *)
(***************************************************************************)
LEMMA Joined ==
    ASSUME NEW L, NEW R, NEW f \in Nat, NEW m \in Nat, NEW l \in Nat,
           PostOrder(L, f, m), PostOrder(R, m + 1, l), Parted(<<f, l>>, <<f, m>>, <<m + 1, l>>)
    PROVE  PostOrder(L \o R \o <<<<f, l>>>>, f, l)
<1> DEFINE T == L \o R \o <<<<f, l>>>>
           p == Len(L)
           q == Len(R)
<1>1. /\ L \in Seq(Spans) /\ R \in Seq(Spans) /\ p \in Nat /\ q \in Nat /\ p >= 1 /\ q >= 1
      /\ DOMAIN L = 1..p /\ DOMAIN R = 1..q /\ f <= m /\ m + 1 <= l
      /\ p = 2 * (m - f) + 1 /\ q = 2 * (l - (m + 1)) + 1
      /\ L[1] = <<f, f>> /\ R[1] = <<m + 1, m + 1>> /\ L[p] = <<f, m>> /\ R[q] = <<m + 1, l>>
  BY DEF PostOrder, Placed, Size
<1>2. /\ T \in Seq(Spans) /\ Len(T) = p + q + 1 /\ DOMAIN T = 1..(p + q + 1)
      /\ \A i \in 1..p : T[i] = L[i]
      /\ \A i \in 1..q : T[p + i] = R[i]
      /\ T[p + q + 1] = <<f, l>>
  <2> DEFINE U == L \o R
             V == <<<<f, l>>>>
  <2>1. V \in Seq(Spans) /\ Len(V) = 1 /\ V[1] = <<f, l>>
    BY DEF Spans
  <2>2. /\ U \in Seq(Spans) /\ Len(U) = p + q
        /\ \A i \in 1..(p + q) : U[i] = IF i <= p THEN L[i] ELSE R[i - p]
    BY <1>1, ConcatProperties
  <2> HIDE DEF U, V
  <2>3. /\ U \o V \in Seq(Spans) /\ Len(U \o V) = p + q + 1
        /\ \A i \in 1..(p + q + 1) : (U \o V)[i] = IF i <= p + q THEN U[i] ELSE V[i - (p + q)]
    <3>1. /\ U \o V \in Seq(Spans) /\ Len(U \o V) = Len(U) + Len(V)
          /\ \A i \in 1..(Len(U) + Len(V)) : (U \o V)[i] = IF i <= Len(U) THEN U[i] ELSE V[i - Len(U)]
      <4>1. U \in Seq(Spans) /\ V \in Seq(Spans)
        BY <2>1, <2>2
      <4> QED
        BY ONLY <4>1, ConcatProperties
    <3>2. Len(U) = p + q /\ Len(V) = 1
      BY <2>1, <2>2
    <3> HIDE DEF p, q
    <3> QED
      BY <3>1, <3>2
  <2> DEFINE W == U \o V
  <2>4. T = W
    BY DEF U, V
  <2> HIDE DEF T, p, q
  <2>5. W \in Seq(Spans) /\ Len(W) = p + q + 1
        /\ \A i \in 1..(p + q + 1) : W[i] = IF i <= p + q THEN U[i] ELSE V[i - (p + q)]
    BY <2>3
  <2> HIDE DEF W
  <2>6. \A i \in 1..p : i \in 1..(p + q) /\ i \in 1..(p + q + 1) /\ i <= p + q /\ i <= p
    BY <1>1
  <2>7. \A i \in 1..q : p + i \in 1..(p + q) /\ p + i \in 1..(p + q + 1) /\ p + i <= p + q /\ ~(p + i <= p) /\ (p + i) - p = i
    BY <1>1
  <2>8. p + q + 1 \in 1..(p + q + 1) /\ ~(p + q + 1 <= p + q) /\ (p + q + 1) - (p + q) = 1
    BY <1>1
  <2> QED
    BY <2>1, <2>2, <2>4, <2>5, <2>6, <2>7, <2>8, LenProperties
<1> DEFINE n == p + q + 1
<1>3. n \in Nat /\ n = 2 * (l - f) + 1
  BY <1>1
<1>4. ASSUME NEW i \in 1..n
      PROVE  (i \in 1..p) \/ (\E k \in 1..q : i = p + k) \/ i = n
  <2>1. CASE i > p /\ i # n
    <3>1. i - p \in 1..q /\ i = p + (i - p)
      BY <1>1, <2>1
    <3> QED
      BY <3>1
  <2> QED
    BY <1>1, <2>1
<1> HIDE DEF T, p, q
<1>5. /\ \A i \in 1..p : IsLeaf(T, i) <=> IsLeaf(L, i)
      /\ \A i \in 1..q : IsLeaf(T, p + i) <=> IsLeaf(R, i)
      /\ ~IsLeaf(T, n)
  BY <1>1, <1>2 DEF IsLeaf
<1>13. /\ n = p + q + 1 /\ n \in 1..n /\ 1 \in 1..p /\ n - 1 = p + q /\ n > 1 /\ n - 1 - q = p /\ p \in 1..p /\ q \in 1..q
       /\ Len(T) = n /\ DOMAIN T = 1..n /\ T[n] = <<f, l>> /\ ~IsLeaf(T, n)
  BY <1>1, <1>2, <1>5
<1>17. (\A k \in 1..q : p + k \in 1..n) /\ (\A k \in 1..p : k \in 1..n)
  <2>1. p \in Nat /\ q \in Nat /\ n = p + q + 1
    BY <1>1
  <2> HIDE DEF n
  <2> QED
    BY <2>1
<1> HIDE DEF n
<1>6. /\ Size(<<f, l>>) = n /\ Size(R[q]) = q /\ Size(L[p]) = p
  BY <1>1, <1>3 DEF Size
<1>7. Placed(T, f, l)
  <2>1. T[1] = <<f, f>> /\ T[n] = <<f, l>> /\ Len(T) = Size(<<f, l>>)
    BY <1>1, <1>2, <1>6, <1>13
  <2>2. ASSUME NEW i \in 1..n PROVE f <= T[i][1] /\ T[i][1] <= T[i][2] /\ T[i][2] <= l /\ Size(T[i]) <= i
    <3>1. CASE i \in 1..p
      <4>1. f <= L[i][1] /\ L[i][1] <= L[i][2] /\ L[i][2] <= m /\ Size(L[i]) <= i /\ L[i] \in Spans
        BY <1>1, <3>1, ElementOfSeq DEF PostOrder, Placed, p
      <4>2. L[i][2] \in Nat
        BY <4>1 DEF Spans
      <4>3. L[i][2] <= l
        BY <1>1, <4>1, <4>2
      <4> QED
        BY <1>2, <3>1, <4>1, <4>3
    <3>2. ASSUME NEW k \in 1..q, i = p + k PROVE f <= T[i][1] /\ T[i][1] <= T[i][2] /\ T[i][2] <= l /\ Size(T[i]) <= i
      <4>1. m + 1 <= R[k][1] /\ R[k][1] <= R[k][2] /\ R[k][2] <= l /\ Size(R[k]) <= k /\ R[k] \in Spans
        BY <1>1, ElementOfSeq DEF PostOrder, Placed, q
      <4>2. R[k][1] \in Nat /\ R[k][2] \in Nat /\ Size(R[k]) \in Int
        BY <4>1 DEF Spans, Size
      <4>3. f <= R[k][1] /\ Size(R[k]) <= p + k
        BY <1>1, <4>1, <4>2
      <4> QED
        BY <1>2, <3>2, <4>1, <4>3
    <3>3. CASE i = n
      <4>1. T[i][1] = f /\ T[i][2] = l /\ Size(T[i]) = n
        <5>1. T[i] = <<f, l>>
          BY <1>13, <3>3
        <5>2. Size(T[i]) = n
          BY <1>6, <5>1
        <5> QED
          BY <5>1, <5>2
      <4> QED
        BY <1>1, <1>3, <3>3, <4>1
    <3> QED
      BY <1>4, <3>1, <3>2, <3>3
  <2> QED
    <3>1. T \in Seq(Spans) /\ f <= l /\ T[Len(T)] = <<f, l>>
      BY <1>1, <1>2, <1>13
    <3>2. \A i \in DOMAIN T : f <= T[i][1] /\ T[i][1] <= T[i][2] /\ T[i][2] <= l /\ Size(T[i]) <= i
      BY <1>13, <2>2
    <3> QED
      BY <2>1, <3>1, <3>2 DEF Placed
<1>8. Consecutive(T)
  <2> SUFFICES ASSUME NEW i \in 1..n, i > 1, IsLeaf(T, i) PROVE T[i][1] = T[i - 1][2] + 1
    BY <1>13 DEF Consecutive
  <2>1. CASE i \in 1..p
    <3>1. i - 1 \in 1..p
      BY <1>1, <2>1
    <3>2. L[i][1] = L[i - 1][2] + 1
      BY <1>1, <1>5, <2>1 DEF PostOrder, Consecutive
    <3> QED
      BY <1>2, <2>1, <3>1, <3>2
  <2>2. ASSUME NEW k \in 1..q, i = p + k PROVE T[i][1] = T[i - 1][2] + 1
    <3>1. CASE k = 1
      <4>1. i - 1 = p /\ i = p + 1 /\ 1 \in 1..q
        BY <1>1, <2>2, <3>1
      <4>2. T[i] = R[1] /\ T[i - 1] = L[p]
        BY <1>2, <1>13, <4>1
      <4>3. T[i][1] = m + 1 /\ T[i - 1][2] = m
        BY <1>1, <4>2
      <4> QED
        BY <4>3
    <3>2. CASE k # 1
      <4>1. k - 1 \in 1..q /\ i - 1 = p + (k - 1) /\ k > 1
        BY <1>1, <2>2, <3>2
      <4>2. R[k][1] = R[k - 1][2] + 1
        BY <1>1, <1>5, <2>2, <4>1 DEF PostOrder, Consecutive
      <4> QED
        BY <1>2, <2>2, <4>1, <4>2
    <3> QED
      BY <3>1, <3>2
  <2>3. CASE i = n
    BY <1>5, <2>3
  <2> QED
    BY <1>4, <2>1, <2>2, <2>3
<1>14. \A i : ~IsLeaf(T, i) => Below(T, i) = {i - 1, i - 1 - Size(T[i - 1])}
  BY DEF Below
<1>9. ASSUME NEW i \in 1..p
      PROVE  Below(T, i) = Below(L, i) /\ Below(L, i) \subseteq 1..p
             /\ (~IsLeaf(T, i) => i > 1 /\ Parted(T[i], T[i - 1 - Size(T[i - 1])], T[i - 1]))
  <2>1. Placed(L, f, m) /\ Branched(L) /\ i \in DOMAIN L /\ i \in Nat
    BY <1>1 DEF PostOrder
  <2>2. Below(L, i) \subseteq 1..(i - 1) /\ 1..(i - 1) \subseteq 1..p
    BY <1>1, <2>1, BelowFacts
  <2>3. CASE IsLeaf(T, i)
    BY <1>5, <2>2, <2>3 DEF Below
  <2>4. CASE ~IsLeaf(T, i)
    <3>1. ~IsLeaf(L, i)
      BY <1>5, <2>4
    <3>2. i - 1 \in 1..p /\ i - 1 - Size(L[i - 1]) \in 1..p
      BY <1>1, <2>1, <3>1, BelowFacts
    <3>3. T[i - 1] = L[i - 1] /\ T[i - 1 - Size(T[i - 1])] = L[i - 1 - Size(L[i - 1])] /\ T[i] = L[i]
      BY <1>2, <3>2
    <3>4. i > 1 /\ Parted(L[i], L[i - 1 - Size(L[i - 1])], L[i - 1])
      BY <2>1, <3>1 DEF Branched
    <3> QED
      BY <2>2, <2>4, <3>1, <3>3, <3>4 DEF Below
  <2> QED
    BY <2>3, <2>4
<1>10. ASSUME NEW k \in 1..q
      PROVE  Below(T, p + k) = {p + c : c \in Below(R, k)} /\ Below(R, k) \subseteq 1..q
             /\ (~IsLeaf(T, p + k) => p + k > 1 /\ Parted(T[p + k], T[(p + k) - 1 - Size(T[(p + k) - 1])], T[(p + k) - 1]))
  <2>1. Placed(R, m + 1, l) /\ Branched(R) /\ k \in DOMAIN R /\ k \in Nat
    BY <1>1 DEF PostOrder
  <2>2. Below(R, k) \subseteq 1..(k - 1) /\ 1..(k - 1) \subseteq 1..q
    BY <1>1, <2>1, BelowFacts
  <2>3. CASE IsLeaf(T, p + k)
    BY <1>5, <2>2, <2>3 DEF Below
  <2>4. CASE ~IsLeaf(T, p + k)
    <3>1. ~IsLeaf(R, k)
      BY <1>5, <2>4
    <3> DEFINE c == k - 1 - Size(R[k - 1])
    <3>2. k - 1 \in 1..q /\ c \in 1..q /\ Below(R, k) = {k - 1, c}
      BY <1>1, <2>1, <3>1, BelowFacts
    <3>3. (p + k) - 1 = p + (k - 1) /\ T[(p + k) - 1] = R[k - 1] /\ T[p + k] = R[k]
      <4>1. p \in Nat /\ k \in Nat
        BY <1>1, <2>1
      <4>2. (p + k) - 1 = p + (k - 1)
        BY <4>1
      <4>3. T[p + (k - 1)] = R[k - 1] /\ T[p + k] = R[k]
        BY <1>2, <3>2
      <4> QED
        BY <4>2, <4>3
    <3>4. Size(R[k - 1]) \in Int
      <4>1. R[k - 1] \in Spans
        BY <1>1, <3>2, ElementOfSeq DEF q
      <4> QED
        BY <4>1 DEF Spans, Size
    <3>5. (p + k) - 1 - Size(T[(p + k) - 1]) = p + c
      BY <1>1, <2>1, <3>3, <3>4
    <3> HIDE DEF c
    <3>6. T[p + c] = R[c]
      BY <1>2, <3>2
    <3>7. k > 1 /\ Parted(R[k], R[c], R[k - 1])
      BY <2>1, <3>1 DEF Branched, c
    <3>8. Below(T, p + k) = {p + (k - 1), p + c}
      <4>1. Below(T, p + k) = {(p + k) - 1, (p + k) - 1 - Size(T[(p + k) - 1])}
        BY <1>14, <2>4
      <4> QED
        BY <3>3, <3>5, <4>1
    <3>9. p + k > 1
      BY <1>1, <2>1
    <3> QED
      BY <2>2, <3>2, <3>3, <3>5, <3>6, <3>7, <3>8, <3>9
  <2> QED
    BY <2>3, <2>4
<1>11. Below(T, n) = {p, p + q} /\ n > 1 /\ Parted(T[n], T[n - 1 - Size(T[n - 1])], T[n - 1])
  <2>1. T[n - 1] = R[q] /\ Size(T[n - 1]) = q
    BY <1>2, <1>6, <1>13
  <2>2. n - 1 - Size(T[n - 1]) = p /\ T[p] = <<f, m>> /\ T[n - 1] = <<m + 1, l>>
    BY <1>1, <1>2, <1>13, <2>1
  <2>3. Below(T, n) = {n - 1, n - 1 - Size(T[n - 1])}
    BY <1>13 DEF Below
  <2> QED
    BY <1>13, <2>2, <2>3
<1>12. Branched(T)
  <2> SUFFICES ASSUME NEW i \in 1..n, ~IsLeaf(T, i) PROVE i > 1 /\ Parted(T[i], T[i - 1 - Size(T[i - 1])], T[i - 1])
    BY <1>13 DEF Branched
  <2> QED
    <3>1. CASE i \in 1..p
      BY <1>9, <3>1
    <3>2. ASSUME NEW k \in 1..q, i = p + k PROVE i > 1 /\ Parted(T[i], T[i - 1 - Size(T[i - 1])], T[i - 1])
      <4>1. ~IsLeaf(T, p + k)
        BY <3>2
      <4>2. p + k > 1 /\ Parted(T[p + k], T[(p + k) - 1 - Size(T[(p + k) - 1])], T[(p + k) - 1])
        BY <1>10, <4>1
      <4> QED
        BY <3>2, <4>2
    <3> QED
      BY <1>4, <1>11, <3>1, <3>2
<1>15. Hung(T)
  <2>1. ASSUME NEW i \in 1..n, i < n PROVE \E j \in 1..n : i \in Below(T, j)
    <3>1. CASE i \in 1..p
      <4>1. CASE i = p
        BY <1>11, <1>13, <4>1
      <4>2. CASE i # p
        <5>1. i \in DOMAIN L /\ i < Len(L)
          BY <1>1, <3>1, <4>2 DEF p
        <5>2. PICK j \in 1..p : i \in Below(L, j)
          BY <1>1, <5>1 DEF PostOrder, Hung
        <5>3. j \in 1..n
          BY <1>17, <5>2
        <5> QED
          BY <1>9, <5>2, <5>3
      <4> QED
        BY <4>1, <4>2
    <3>2. ASSUME NEW k \in 1..q, i = p + k PROVE \E j \in 1..n : i \in Below(T, j)
      <4>1. CASE k = q
        BY <1>11, <1>13, <3>2, <4>1
      <4>2. CASE k # q
        <5>1. k \in DOMAIN R /\ k < Len(R)
          BY <1>1, <4>2 DEF q
        <5>2. PICK j \in 1..q : k \in Below(R, j)
          BY <1>1, <5>1 DEF PostOrder, Hung
        <5>3. p + j \in 1..n
          BY <1>17, <5>2
        <5>4. i \in Below(T, p + j)
          BY <1>10, <3>2, <5>2
        <5> QED
          BY <5>3, <5>4
      <4> QED
        BY <4>1, <4>2
    <3> QED
      BY <1>4, <2>1, <3>1, <3>2
  <2>2. ASSUME NEW i \in 1..n, NEW j \in 1..n, NEW c, c \in Below(T, i), c \in Below(T, j) PROVE i = j
    <3>1. \A k \in 1..p : c \in Below(T, k) => k \in DOMAIN L /\ c \in Below(L, k) /\ c \in Int /\ c < p
      <4> SUFFICES ASSUME NEW k \in 1..p, c \in Below(T, k) PROVE c \in Below(L, k) /\ c \in Int /\ c < p
        BY <1>1
      <4>1. c \in Below(L, k)
        BY <1>9
      <4>2. Below(L, k) \subseteq 1..(k - 1)
        BY <1>1, BelowFacts DEF PostOrder
      <4> QED
        BY <1>1, <4>1, <4>2
    <3>2. \A k \in 1..q : c \in Below(T, p + k) => k \in DOMAIN R /\ c - p \in Below(R, k) /\ c \in Int /\ p < c /\ c < p + q
      <4> SUFFICES ASSUME NEW k \in 1..q, c \in Below(T, p + k) PROVE c - p \in Below(R, k) /\ c \in Int /\ p < c /\ c < p + q
        BY <1>1
      <4>1. PICK d \in Below(R, k) : c = p + d
        BY <1>10
      <4>2. Below(R, k) \subseteq 1..(k - 1)
        BY <1>1, BelowFacts DEF PostOrder
      <4>3. d \in 1..(k - 1) /\ p \in Nat /\ q \in Nat
        BY <1>1, <4>1, <4>2
      <4>4. p + d \in Int /\ (p + d) - p = d /\ p < p + d /\ p + d < p + q
        BY <4>3
      <4> QED
        BY <4>1, <4>4
    <3>3. c \in Below(T, n) => c = p \/ c = p + q
      BY <1>11
    <3>4. (i \in 1..p /\ j \in 1..p) \/ (i = n /\ j = n) \/ (\E k, d \in 1..q : i = p + k /\ j = p + d)
      <4>1. ~(i \in 1..p /\ j = n) /\ ~(i = n /\ j \in 1..p)
        BY <1>1, <2>2, <3>1, <3>3
      <4>2. ASSUME NEW k \in 1..q PROVE ~(i = p + k /\ j = n) /\ ~(i = n /\ j = p + k)
        <5> SUFFICES ASSUME c \in Below(T, p + k), c \in Below(T, n) PROVE FALSE
          BY <2>2
        <5>1. c \in Int /\ p < c /\ c < p + q
          BY <3>2
        <5>2. c = p \/ c = p + q
          BY <3>3
        <5>3. p \in Nat /\ q \in Nat
          BY <1>1
        <5> QED
          BY <5>1, <5>2, <5>3
      <4>3. ASSUME NEW k \in 1..q PROVE ~(i = p + k /\ j \in 1..p) /\ ~(i \in 1..p /\ j = p + k)
        <5> SUFFICES ASSUME NEW x \in 1..p, c \in Below(T, p + k), c \in Below(T, x) PROVE FALSE
          BY <2>2
        <5>1. c \in Int /\ p < c
          BY <3>2
        <5>2. c < p
          BY <3>1
        <5>3. p \in Nat
          BY <1>1
        <5> QED
          BY <5>1, <5>2, <5>3
      <4> QED
        BY <1>4, <4>1, <4>2, <4>3
    <3>5. CASE i \in 1..p /\ j \in 1..p
      <4>1. i \in DOMAIN L /\ j \in DOMAIN L /\ c \in Below(L, i) /\ c \in Below(L, j)
        BY <2>2, <3>1, <3>5
      <4> QED
        BY <4>1 DEF PostOrder, Hung
    <3>6. ASSUME NEW k \in 1..q, NEW d \in 1..q, i = p + k, j = p + d PROVE i = j
      <4>1. k \in DOMAIN R /\ d \in DOMAIN R /\ c - p \in Below(R, k) /\ c - p \in Below(R, d)
        BY <2>2, <3>2, <3>6
      <4>2. k = d
        BY <4>1 DEF PostOrder, Hung
      <4> QED
        BY <3>6, <4>2
    <3> QED
      BY <3>4, <3>5, <3>6
  <2> QED
    BY <1>13, <2>1, <2>2 DEF Hung
<1>16. LeavesOnce(T, f, l)
  <2>1. \A e \in f..m : \E i \in 1..p : L[i] = <<e, e>>
    BY <1>1 DEF PostOrder, LeavesOnce
  <2>2. \A e \in (m + 1)..l : \E i \in 1..q : R[i] = <<e, e>>
    BY <1>1 DEF PostOrder, LeavesOnce
  <2>3. ASSUME NEW e \in f..l PROVE \E i \in 1..n : T[i] = <<e, e>>
    <3>1. CASE e <= m
      <4>0. e \in f..m
        BY <1>1, <3>1
      <4>1. PICK i \in 1..p : L[i] = <<e, e>>
        BY <2>1, <4>0
      <4>2. i \in 1..n
        BY <1>17, <4>1
      <4> QED
        BY <1>2, <4>1, <4>2
    <3>2. CASE ~(e <= m)
      <4>0. e \in (m + 1)..l
        BY <1>1, <3>2
      <4>1. PICK i \in 1..q : R[i] = <<e, e>>
        BY <2>2, <4>0
      <4>2. p + i \in 1..n
        BY <1>17, <4>1
      <4> QED
        BY <1>2, <4>1, <4>2
    <3> QED
      BY <3>1, <3>2
  <2>4. ASSUME NEW i \in 1..n, NEW j \in 1..n, IsLeaf(T, i), T[i] = T[j] PROVE i = j
    <3>1. IsLeaf(T, j) /\ i # n /\ j # n
      BY <1>13, <2>4 DEF IsLeaf
    <3>2. \A k \in 1..p : IsLeaf(T, k) => k \in DOMAIN L /\ IsLeaf(L, k) /\ T[k] = L[k] /\ L[k][1] \in Nat /\ L[k][1] <= m
      <4> SUFFICES ASSUME NEW k \in 1..p, IsLeaf(T, k) PROVE L[k][1] \in Nat /\ L[k][1] <= m
        BY <1>1, <1>2, <1>5
      <4>1. k \in DOMAIN L /\ L[k] \in Spans
        BY <1>1, ElementOfSeq DEF p
      <4>2. L[k][1] <= L[k][2] /\ L[k][2] <= m
        BY <4>1 DEF PostOrder, Placed
      <4>3. L[k][1] \in Nat /\ L[k][2] \in Nat
        BY <4>1 DEF Spans
      <4> QED
        BY <4>2, <4>3
    <3>3. \A k \in 1..q : IsLeaf(T, p + k) => k \in DOMAIN R /\ IsLeaf(R, k) /\ T[p + k] = R[k] /\ R[k][1] \in Nat /\ m < R[k][1]
      <4> SUFFICES ASSUME NEW k \in 1..q, IsLeaf(T, p + k) PROVE R[k][1] \in Nat /\ m < R[k][1]
        BY <1>1, <1>2, <1>5
      <4>1. k \in DOMAIN R /\ R[k] \in Spans
        BY <1>1, ElementOfSeq DEF q
      <4>2. m + 1 <= R[k][1]
        BY <4>1 DEF PostOrder, Placed
      <4>3. R[k][1] \in Nat
        BY <4>1 DEF Spans
      <4> QED
        BY <4>2, <4>3
    <3>4. CASE i \in 1..p
      <4>1. j \in 1..p
        BY <1>4, <2>4, <3>1, <3>2, <3>3, <3>4
      <4> QED
        BY <2>4, <3>1, <3>2, <3>4, <4>1 DEF PostOrder, LeavesOnce
    <3>5. ASSUME NEW k \in 1..q, i = p + k PROVE i = j
      <4>1. PICK d \in 1..q : j = p + d
        BY <1>4, <2>4, <3>1, <3>2, <3>3, <3>5
      <4>2. k \in DOMAIN R /\ d \in DOMAIN R /\ IsLeaf(R, k) /\ R[k] = R[d]
        BY <2>4, <3>1, <3>3, <3>5, <4>1
      <4>3. k = d
        BY <4>2 DEF PostOrder, LeavesOnce
      <4> QED
        BY <3>5, <4>1, <4>3
    <3> QED
      BY <1>4, <3>1, <3>4, <3>5
  <2> QED
    BY <1>13, <2>3, <2>4 DEF LeavesOnce
<1> QED
  BY <1>7, <1>8, <1>12, <1>15, <1>16 DEF PostOrder, T

(***************************************************************************)
(* What the decoders emit: relations between a part of the unit and the    *)
(* part after it.                                                          *)
(***************************************************************************)
ValidRelations ==
    /\ edus \in Nat \ {0} /\ relations \in Seq([first : Nat, split : Nat, last : Nat])
    /\ \A k \in DOMAIN relations :
          relations[k].first <= relations[k].split /\ relations[k].split < relations[k].last /\ relations[k].last < edus

(***************************************************************************)
(* The relation that span_map gives for a span is one over that span, and  *)
(* there is one if any was emitted.                                        *)
(***************************************************************************)
LEMMA RelationFound ==
    ASSUME ValidRelations, NEW first, NEW last
    PROVE  /\ RelationOver(first, last) # 0 =>
                 /\ RelationOver(first, last) \in DOMAIN relations
                 /\ relations[RelationOver(first, last)].first = first
                 /\ relations[RelationOver(first, last)].last = last
           /\ (\E k \in DOMAIN relations : relations[k].first = first /\ relations[k].last = last)
                 => RelationOver(first, last) # 0
<1> DEFINE over == {k \in DOMAIN relations : relations[k].first = first /\ relations[k].last = last}
<1>1. Len(relations) \in Nat /\ DOMAIN relations = 1..Len(relations)
  BY LenProperties DEF ValidRelations
<1>2. CASE over = {}
  BY <1>2 DEF RelationOver
<1>3. CASE over # {}
  <2>1. over \subseteq Nat /\ \A k \in over : k <= Len(relations)
    BY <1>1
  <2> HIDE DEF over
  <2>2. \E n \in over : \A k \in over : k <= n
    BY <1>1, <1>3, <2>1, Greatest
  <2>3. Max(over) \in over
    <3>1. \E n \in over : \A k \in over : n >= k
      BY <2>1, <2>2
    <3> QED
      BY <3>1 DEF Max
  <2>4. RelationOver(first, last) = Max(over)
    BY <1>3 DEF RelationOver, over
  <2>5. Max(over) \in DOMAIN relations /\ relations[Max(over)].first = first /\ relations[Max(over)].last = last
    BY <2>3 DEF over
  <2>6. Max(over) # 0
    BY <1>1, <2>5
  <2> QED
    BY <2>4, <2>5, <2>6
<1> QED
  BY <1>2, <1>3

(***************************************************************************)
(* It parts the span into two.                                             *)
(***************************************************************************)
LEMMA RelationParts ==
    ASSUME ValidRelations, NEW a \in Nat, NEW b \in Nat, RelationOver(a, b) # 0
    PROVE  LET m == relations[RelationOver(a, b)].split
           IN  /\ RelationOver(a, b) \in DOMAIN relations
               /\ m \in Nat /\ a <= m /\ m < b /\ b < edus /\ Parted(<<a, b>>, <<a, m>>, <<m + 1, b>>)
<1> DEFINE k == RelationOver(a, b)
<1>1. k \in DOMAIN relations /\ relations[k].first = a /\ relations[k].last = b
  BY RelationFound
<1>2. relations[k] \in [first : Nat, split : Nat, last : Nat]
  BY <1>1, LenProperties, ElementOfSeq DEF ValidRelations
<1>3. relations[k].split \in Nat /\ a <= relations[k].split /\ relations[k].split < b /\ b < edus
  BY <1>1, <1>2 DEF ValidRelations
<1>4. Parted(<<a, b>>, <<a, relations[k].split>>, <<relations[k].split + 1, b>>)
  BY <1>1, <1>3 DEF Parted
<1> QED
  BY <1>1, <1>3, <1>4

\* A set of spans in which each of several EDUs has a relation and both its halves.
Closed(C) ==
    \A span \in C : /\ span \in Spans /\ span[1] <= span[2] /\ span[2] < edus
                    /\ span[1] < span[2] => \E left, right \in C : Parted(span, left, right)

(***************************************************************************)
(* Where every span that is reached has a relation, construct_tree ends    *)
(* with the tree of the first one, whatever its size.                      *)
(***************************************************************************)
LEMMA ConstituentsInOrder ==
    ASSUME ValidRelations, edus > 1, NEW C, Closed(C), NEW root \in C, root = <<relations[1].first, relations[1].last>>
    PROVE  PostOrder(Constituents, root[1], root[2])
<1> DEFINE D == (0..edus - 1) \X (0..edus - 1)
           A == Seq(Spans)
           One(g, span) ==
              LET k == RelationOver(span[1], span[2])
              IN  IF span[1] = span[2] THEN <<span>>
                  ELSE IF k = 0 THEN <<>>
                  ELSE g[<<span[1], relations[k].split>>] \o g[<<relations[k].split + 1, span[2]>>] \o <<span>>
           F == [g \in [D -> A] |-> [span \in D |-> One(g, span)]]
           measure == [span \in D |-> IF span[1] <= span[2] THEN span[2] - span[1] ELSE 0]
<1>1. edus \in Nat
  BY DEF ValidRelations
<1>2. measure \in [D -> Nat]
  BY <1>1
<1>3. ASSUME NEW span \in D, RelationOver(span[1], span[2]) # 0
      PROVE  LET m == relations[RelationOver(span[1], span[2])].split
             IN  /\ <<span[1], m>> \in D /\ <<m + 1, span[2]>> \in D
                 /\ measure[<<span[1], m>>] < measure[span] /\ measure[<<m + 1, span[2]>>] < measure[span]
  <2> DEFINE m == relations[RelationOver(span[1], span[2])].split
  <2>1. m \in Nat /\ span[1] <= m /\ m < span[2]
    <3>1. span[1] \in Nat /\ span[2] \in Nat
      BY <1>1
    <3> QED
      BY <1>3, <3>1, RelationParts
  <2> HIDE DEF m
  <2>2. <<span[1], m>> \in D /\ <<m + 1, span[2]>> \in D
    BY <1>1, <2>1
  <2>3. measure[<<span[1], m>>] < measure[span] /\ measure[<<m + 1, span[2]>>] < measure[span]
    BY <1>1, <2>1, <2>2
  <2> QED
    BY <2>2, <2>3 DEF m
<1>4. F \in [[D -> A] -> [D -> A]]
  <2> SUFFICES ASSUME NEW g \in [D -> A], NEW span \in D PROVE One(g, span) \in A
    OBVIOUS
  <2>1. <<span>> \in A /\ <<>> \in A
    BY <1>1 DEF Spans
  <2>2. CASE RelationOver(span[1], span[2]) # 0
    <3> DEFINE left == g[<<span[1], relations[RelationOver(span[1], span[2])].split>>]
               right == g[<<relations[RelationOver(span[1], span[2])].split + 1, span[2]>>]
    <3>1. left \in A /\ right \in A
      <4> HIDE DEF A, D
      <4> QED
        BY <1>3, <2>2
    <3> HIDE DEF left, right
    <3>2. left \o right \in A
      BY <3>1, ConcatProperties
    <3>3. left \o right \o <<span>> \in A
      BY <2>1, <3>2, ConcatProperties
    <3> QED
      BY <2>1, <3>3 DEF left, right
  <2> QED
    BY <2>1, <2>2
<1>5. ASSUME NEW n \in Nat, NEW g \in [D -> A], NEW h \in [D -> A], \A x \in D : measure[x] < n => g[x] = h[x],
             NEW x \in D, measure[x] <= n
      PROVE  F[g][x] = F[h][x]
  <2>1. F[g][x] = One(g, x) /\ F[h][x] = One(h, x)
    BY <1>5
  <2>2. CASE RelationOver(x[1], x[2]) # 0
    <3> DEFINE l == <<x[1], relations[RelationOver(x[1], x[2])].split>>
               r == <<relations[RelationOver(x[1], x[2])].split + 1, x[2]>>
    <3>1. l \in D /\ r \in D /\ measure[l] < measure[x] /\ measure[r] < measure[x]
      BY <1>3, <2>2
    <3>2. measure[l] \in Nat /\ measure[r] \in Nat /\ measure[x] \in Nat
      BY <1>2, <3>1
    <3> HIDE DEF measure, D, l, r
    <3>3. measure[l] < n /\ measure[r] < n
      BY <1>5, <3>1, <3>2
    <3>4. g[l] = h[l] /\ g[r] = h[r]
      BY <1>5, <3>1, <3>3
    <3>5. One(g, x) = One(h, x)
      BY <3>4 DEF l, r
    <3> QED
      BY <2>1, <3>5
  <2> QED
    BY <2>1, <2>2
<1>6. \E f \in [D -> A] : F[f] = f
  <2>1. A # {}
    <3>1. <<>> \in A
      OBVIOUS
    <3> HIDE DEF A
    <3> QED
      BY <3>1
  <2> HIDE DEF D, A, F, measure
  <2>2. Contracting(D, A, measure, F)
    BY <1>2, <1>4, <1>5, <2>1 DEF Contracting
  <2>3. HasFixedPoint(D, A, F)
    BY <2>2, FixedPoint
  <2> QED
    BY <2>3 DEF HasFixedPoint
<1> DEFINE Body(g) == [span \in D |-> One(g, span)]
           below == CHOOSE g : g = Body(g)
<1>7. below = Body(below)
  <2>1. PICK f \in [D -> A] : F[f] = f
    BY <1>6
  <2>2. F[f] = Body(f)
    OBVIOUS
  <2> HIDE DEF Body
  <2> QED
    BY <2>1, <2>2
<1>8. Constituents = below[root]
  <2>1. edus # 1
    BY <1>1
  <2> QED
    BY <2>1 DEF Constituents
<1> HIDE DEF below
<1>9. \A span \in D : below[span] = One(below, span)
  BY <1>7
<1> DEFINE Ordered == {n \in Nat : \A span \in C : span[2] - span[1] < n => PostOrder(below[span], span[1], span[2])}
<1>10. 0 \in Ordered
  <2>1. \A span \in C : span[2] - span[1] \in Nat
    BY DEF Closed, Spans
  <2> QED
    BY <2>1
<1>11. ASSUME NEW n \in Nat, n \in Ordered PROVE n + 1 \in Ordered
  <2> SUFFICES ASSUME NEW span \in C, span[2] - span[1] < n + 1 PROVE PostOrder(below[span], span[1], span[2])
    OBVIOUS
  <2>1. span \in Spans /\ span[1] \in Nat /\ span[2] \in Nat /\ span[1] <= span[2] /\ span[2] < edus /\ span = <<span[1], span[2]>>
    BY DEF Closed, Spans
  <2>2. span \in D
    BY <1>1, <2>1
  <2>3. CASE span[1] = span[2]
    <3>1. below[span] = <<<<span[1], span[1]>>>>
      BY <1>9, <2>1, <2>2, <2>3
    <3> QED
      BY <2>1, <2>3, <3>1, OneLeaf
  <2>4. CASE span[1] # span[2]
    <3>1. PICK left \in C, right \in C : Parted(span, left, right)
      BY <2>1, <2>4 DEF Closed
    <3>2. PICK m \in Nat : span[1] <= m /\ m < span[2] /\ left = <<span[1], m>> /\ right = <<m + 1, span[2]>>
      BY <2>1, <3>1, PartedFacts
    <3>3. m = relations[RelationOver(span[1], span[2])].split /\ RelationOver(span[1], span[2]) # 0
      <4>1. RelationOver(span[1], span[2]) \in DOMAIN relations
            /\ left = <<span[1], relations[RelationOver(span[1], span[2])].split>>
        BY <3>1 DEF Parted
      <4>2. DOMAIN relations = 1..Len(relations) /\ Len(relations) \in Nat
        BY LenProperties DEF ValidRelations
      <4> QED
        BY <3>2, <4>1, <4>2
    <3>4. below[span] = below[left] \o below[right] \o <<<<span[1], span[2]>>>>
      BY <1>9, <2>1, <2>2, <2>4, <3>2, <3>3
    <3>5. left[1] = span[1] /\ left[2] = m /\ right[1] = m + 1 /\ right[2] = span[2]
      BY <3>2
    <3>6. left[2] - left[1] < n /\ right[2] - right[1] < n
      BY <2>1, <3>2, <3>5
    <3>7. PostOrder(below[left], span[1], m) /\ PostOrder(below[right], m + 1, span[2])
      BY <1>11, <3>5, <3>6
    <3> QED
      BY <2>1, <3>1, <3>2, <3>4, <3>7, Joined
  <2> QED
    BY <2>3, <2>4
<1>12. Nat \subseteq Ordered
  <2> HIDE DEF Ordered
  <2> QED
    BY <1>10, <1>11, Induct
<1>13. root[2] - root[1] \in Nat /\ (root[2] - root[1]) + 1 \in Nat
  BY DEF Closed, Spans
<1> QED
  BY <1>8, <1>12, <1>13

(***************************************************************************)
(* The leaves up to a node are the EDUs up to the end of its span.         *)
(***************************************************************************)
LEMMA LeavesCounted ==
    ASSUME NEW s, NEW f, NEW l, PostOrder(s, f, l), NEW i \in DOMAIN s
    PROVE  Leaves(s, i) = s[i][2] - f + 1
<1> DEFINE N == Len(s)
           leaf(k) == {j \in 1..k : IsLeaf(s, j)}
           Counted == {k \in Nat : k + 1 <= N => IsFiniteSet(leaf(k + 1)) /\ Cardinality(leaf(k + 1)) = s[k + 1][2] - f + 1}
<1>1. /\ N \in Nat /\ DOMAIN s = 1..N /\ f \in Nat /\ s[1] = <<f, f>>
      /\ \A k \in 1..N : s[k] \in Spans /\ s[k][1] \in Nat /\ s[k][2] \in Nat
      /\ \A k \in 1..N : f <= s[k][2]
  <2>1. s \in Seq(Spans) /\ f \in Nat /\ s[1] = <<f, f>>
    BY DEF PostOrder, Placed
  <2>2. N \in Nat /\ DOMAIN s = 1..N /\ \A k \in 1..N : s[k] \in Spans
    BY <2>1, LenProperties, ElementOfSeq
  <2>3. \A k \in 1..N : s[k][1] \in Nat /\ s[k][2] \in Nat
    BY <2>2 DEF Spans
  <2>4. ASSUME NEW k \in 1..N PROVE f <= s[k][2]
    <3>1. f <= s[k][1] /\ s[k][1] <= s[k][2]
      BY <2>2 DEF PostOrder, Placed
    <3>2. s[k][1] \in Nat /\ s[k][2] \in Nat
      BY <2>3
    <3> QED
      BY <2>1, <3>1, <3>2
  <2> QED
    BY <2>1, <2>2, <2>3, <2>4
<1>2. 0 \in Counted
  <2>1. IsLeaf(s, 1) /\ 1..1 = {1}
    BY <1>1 DEF IsLeaf
  <2>2. leaf(1) = {1}
    BY <2>1
  <2>3. IsFiniteSet(leaf(1)) /\ Cardinality(leaf(1)) = 1
    BY <2>2, FS_Singleton
  <2>4. s[1][2] - f + 1 = 1
    BY <1>1
  <2> HIDE DEF leaf
  <2> QED
    BY <2>3, <2>4
<1>3. ASSUME NEW k \in Nat, k \in Counted PROVE k + 1 \in Counted
  <2> DEFINE i1 == k + 1
             i2 == (k + 1) + 1
  <2> SUFFICES ASSUME i2 <= N PROVE IsFiniteSet(leaf(i2)) /\ Cardinality(leaf(i2)) = s[i2][2] - f + 1
    OBVIOUS
  <2>1. i1 \in 1..N /\ i2 \in 1..N /\ i2 - 1 = i1 /\ i1 \in Nat /\ i2 > 1 /\ i2 \in Nat
    BY <1>1
  <2>2. IsFiniteSet(leaf(i1)) /\ Cardinality(leaf(i1)) = s[i1][2] - f + 1
    BY <1>3, <2>1
  <2>3. 1..i2 = (1..i1) \cup {i2} /\ i2 \notin 1..i1
    BY <2>1
  <2> HIDE DEF i1, i2
  <2>4. CASE IsLeaf(s, i2)
    <3>1. leaf(i2) = leaf(i1) \cup {i2} /\ i2 \notin leaf(i1)
      BY <2>3, <2>4
    <3> HIDE DEF leaf
    <3>2. IsFiniteSet(leaf(i2)) /\ Cardinality(leaf(i2)) = Cardinality(leaf(i1)) + 1
      BY <2>2, <3>1, FS_AddElement
    <3>3. s[i2][1] = s[i1][2] + 1 /\ s[i2][1] = s[i2][2]
      BY <1>1, <2>1, <2>4 DEF PostOrder, Consecutive, IsLeaf
    <3> QED
      BY <1>1, <2>1, <2>2, <3>2, <3>3
  <2>5. CASE ~IsLeaf(s, i2)
    <3>1. leaf(i2) = leaf(i1)
      BY <2>3, <2>5
    <3> HIDE DEF leaf
    <3>2. Parted(s[i2], s[i2 - 1 - Size(s[i2 - 1])], s[i2 - 1])
      BY <1>1, <2>1, <2>5 DEF PostOrder, Branched
    <3>3. s[i1][2] = s[i2][2]
      <4>0. s[i2] \in Spans
        BY <1>1, <2>1
      <4> DEFINE left == s[i2 - 1 - Size(s[i2 - 1])]
      <4>2. Parted(s[i2], left, s[i2 - 1])
        BY <3>2
      <4> HIDE DEF left
      <4>1. PICK m \in Nat : s[i2 - 1] = <<m + 1, s[i2][2]>>
        BY <4>0, <4>2, PartedFacts
      <4> QED
        BY <2>1, <4>1
    <3> QED
      BY <2>2, <3>1, <3>3
  <2> QED
    BY <2>4, <2>5
<1>4. Nat \subseteq Counted
  <2> HIDE DEF Counted
  <2> QED
    BY <1>2, <1>3, Induct
<1>5. i - 1 \in Nat /\ (i - 1) + 1 = i /\ i <= N
  BY <1>1
<1>6. Cardinality(leaf(i)) = s[i][2] - f + 1
  <2> HIDE DEF leaf
  <2> QED
    BY <1>4, <1>5
<1> QED
  BY <1>6 DEF Leaves

\* The nodes of an analysis.
Trees == [span : Seq(Spans), parent : Seq(Nat), split : Seq(Nat)]
\* The numbering of the walk, by the constituents alone.
Numbered(t, s) ==
    /\ DOMAIN t.span = DOMAIN s /\ Len(t.span) = Len(s) /\ DOMAIN t.parent = DOMAIN s /\ DOMAIN t.split = DOMAIN s
    /\ \A i \in DOMAIN s :
          /\ t.span[i] = <<s[i][1] + 1, s[i][2] + 1>>
          /\ \A j \in DOMAIN s : i \in Below(s, j) => t.parent[i] = j
          /\ (\A j \in DOMAIN s : i \notin Below(s, j)) => t.parent[i] = 0
          /\ ~IsLeaf(s, i) => t.split[i] = relations[RelationOver(s[i][1], s[i][2])].split

(***************************************************************************)
(* So the walk of du_to_analysis, which counts leaves, gives every node    *)
(* the span that the decoder had for it, one further as it counts from 1.  *)
(***************************************************************************)
LEMMA WalkNumbers ==
    ASSUME NEW s, NEW l, PostOrder(s, 0, l), ValidRelations
    PROVE  Numbered(Walk(s), s) /\ Walk(s) \in Trees
<1> DEFINE N == Len(s)
           One(g, i) == IF IsLeaf(s, i) THEN 1 ELSE 1 + g[i - 1] + g[i - 1 - g[i - 1]]
           Body(g) == [i \in DOMAIN s |-> One(g, i)]
           z == [i \in DOMAIN s |-> Size(s[i])]
           r == CHOOSE g : g = Body(g)
<1>1. N \in Nat /\ DOMAIN s = 1..N /\ \A i \in 1..N : s[i] \in Spans /\ s[i][1] \in Nat /\ s[i][2] \in Nat /\ s[i][1] <= s[i][2]
  <2>1. s \in Seq(Spans)
    BY DEF PostOrder, Placed
  <2>2. N \in Nat /\ DOMAIN s = 1..N /\ \A k \in 1..N : s[k] \in Spans
    BY <2>1, LenProperties, ElementOfSeq
  <2>3. \A k \in 1..N : s[k][1] \in Nat /\ s[k][2] \in Nat
    BY <2>2 DEF Spans
  <2>4. \A k \in 1..N : s[k][1] <= s[k][2]
    BY <2>2 DEF PostOrder, Placed
  <2> QED
    BY <2>2, <2>3, <2>4
<1>2. ASSUME NEW i \in 1..N, ~IsLeaf(s, i)
      PROVE  /\ i - 1 \in 1..N /\ i - 1 - Size(s[i - 1]) \in 1..N /\ i - 1 - Size(s[i - 1]) < i - 1
             /\ Size(s[i]) = 1 + Size(s[i - 1]) + Size(s[i - 1 - Size(s[i - 1])])
  <2>1. Placed(s, 0, l) /\ Branched(s) /\ i \in DOMAIN s
    BY <1>1 DEF PostOrder
  <2>2. i - 1 \in 1..N /\ i - 1 - Size(s[i - 1]) \in 1..N /\ i - 1 - Size(s[i - 1]) < i - 1
    BY <1>1, <1>2, <2>1, BelowFacts
  <2> DEFINE left == s[i - 1 - Size(s[i - 1])]
             right == s[i - 1]
  <2>3. Parted(s[i], left, right)
    BY <1>2, <2>1 DEF Branched
  <2> HIDE DEF left, right
  <2>4. Size(s[i]) = Size(left) + Size(right) + 1 /\ Size(left) \in Nat /\ Size(right) \in Nat
    BY <1>1, <2>3, PartedFacts
  <2>5. Size(s[i]) = 1 + Size(right) + Size(left)
    BY <2>4
  <2> QED
    BY <2>2, <2>5 DEF left, right
<1>3. ASSUME NEW i \in 1..N, IsLeaf(s, i) PROVE Size(s[i]) = 1
  BY <1>1, <1>3 DEF IsLeaf, Size
<1>4. z = Body(z)
  <2> SUFFICES ASSUME NEW i \in 1..N PROVE Size(s[i]) = One(z, i)
    BY <1>1
  <2>1. CASE IsLeaf(s, i)
    BY <1>3, <2>1
  <2>2. CASE ~IsLeaf(s, i)
    <3>1. z[i - 1] = Size(s[i - 1]) /\ z[i - 1 - Size(s[i - 1])] = Size(s[i - 1 - Size(s[i - 1])])
      BY <1>1, <1>2, <2>2
    <3> HIDE DEF z
    <3> QED
      BY <1>2, <2>2, <3>1
  <2> QED
    BY <2>1, <2>2
<1>5. r = Body(r)
  <2> HIDE DEF Body, z
  <2> QED
    BY <1>4
<1> DEFINE WalkOf(size) ==
              LET Children(i) == IF IsLeaf(s, i) THEN {} ELSE {i - 1, i - 1 - size[i - 1]}
                  Span(i) == <<Leaves(s, i) - ((size[i] + 1) \div 2) + 1, Leaves(s, i)>>
                  Decision(i) == RelationOver(Span(i)[1] - 1, Span(i)[2] - 1)
              IN  [span |-> [i \in DOMAIN s |-> Span(i)],
                   parent |-> [i \in DOMAIN s |->
                                  IF \E j \in DOMAIN s : i \in Children(j)
                                      THEN CHOOSE j \in DOMAIN s : i \in Children(j) ELSE 0],
                   split |-> [i \in DOMAIN s |->
                                  IF IsLeaf(s, i) \/ Decision(i) = 0 THEN 0 ELSE relations[Decision(i)].split]]
<1>6. Walk(s) = WalkOf(r)
  BY DEF Walk
<1> HIDE DEF r
<1>7. \A i \in 1..N : r[i] = One(r, i)
  BY <1>1, <1>5
<1> DEFINE Same == {n \in Nat : \A i \in 1..N : i <= n => r[i] = Size(s[i])}
<1>8. 0 \in Same
  BY <1>1
<1>9. ASSUME NEW n \in Nat, n \in Same PROVE n + 1 \in Same
  <2> SUFFICES ASSUME NEW i \in 1..N, i <= n + 1 PROVE r[i] = Size(s[i])
    OBVIOUS
  <2>1. CASE IsLeaf(s, i)
    BY <1>3, <1>7, <2>1
  <2>2. CASE ~IsLeaf(s, i)
    <3> DEFINE c == i - 1 - Size(s[i - 1])
    <3>1. i - 1 \in 1..N /\ c \in 1..N /\ c < i - 1 /\ Size(s[i]) = 1 + Size(s[i - 1]) + Size(s[c])
      BY <1>2, <2>2
    <3> HIDE DEF c
    <3>2. i - 1 <= n /\ c <= n
      BY <1>1, <3>1
    <3>3. r[i - 1] = Size(s[i - 1]) /\ r[c] = Size(s[c])
      BY <1>9, <3>1, <3>2
    <3>4. r[i] = 1 + r[i - 1] + r[i - 1 - r[i - 1]]
      BY <1>7, <2>2
    <3>5. i - 1 - r[i - 1] = c
      BY <3>3 DEF c
    <3> QED
      BY <3>1, <3>3, <3>4, <3>5
  <2> QED
    BY <2>1, <2>2
<1>10. \A i \in 1..N : r[i] = Size(s[i])
  <2>1. Nat \subseteq Same
    <3> HIDE DEF Same
    <3> QED
      BY <1>8, <1>9, Induct
  <2> QED
    BY <1>1, <2>1
<1>11. ASSUME NEW i \in 1..N
       PROVE  /\ Leaves(s, i) = s[i][2] + 1 /\ Leaves(s, i) - ((r[i] + 1) \div 2) + 1 = s[i][1] + 1
              /\ Below(s, i) = IF IsLeaf(s, i) THEN {} ELSE {i - 1, i - 1 - r[i - 1]}
  <2>1. Leaves(s, i) = s[i][2] - 0 + 1
    BY <1>1, LeavesCounted
  <2>2. s[i][1] \in Nat /\ s[i][2] \in Nat /\ s[i][1] <= s[i][2] /\ r[i] = 2 * (s[i][2] - s[i][1]) + 1
    BY <1>1, <1>10 DEF Size
  <2>3. (r[i] + 1) \div 2 = s[i][2] - s[i][1] + 1
    BY <2>2
  <2>4. ~IsLeaf(s, i) => r[i - 1] = Size(s[i - 1])
    BY <1>2, <1>10
  <2> QED
    <3>1. Below(s, i) = IF IsLeaf(s, i) THEN {} ELSE {i - 1, i - 1 - r[i - 1]}
      BY <2>4 DEF Below
    <3>2. Leaves(s, i) = s[i][2] + 1
      BY <2>1, <2>2
    <3> DEFINE half == (r[i] + 1) \div 2
    <3>3. half = s[i][2] - s[i][1] + 1
      BY <2>3
    <3> HIDE DEF half
    <3>4. Leaves(s, i) - half + 1 = s[i][1] + 1
      <4>1. \A a, b \in Nat : (b + 1) - (b - a + 1) + 1 = a + 1
        OBVIOUS
      <4>2. s[i][1] \in Nat /\ s[i][2] \in Nat
        BY <2>2
      <4> QED
        BY <3>2, <3>3, <4>1, <4>2
    <3> QED
      BY <3>1, <3>2, <3>4 DEF half
<1> DEFINE t == WalkOf(r)
           Children(i) == IF IsLeaf(s, i) THEN {} ELSE {i - 1, i - 1 - r[i - 1]}
           Span(i) == <<Leaves(s, i) - ((r[i] + 1) \div 2) + 1, Leaves(s, i)>>
           Decision(i) == RelationOver(Span(i)[1] - 1, Span(i)[2] - 1)
<1>12. /\ t.span = [i \in DOMAIN s |-> Span(i)]
       /\ t.parent = [i \in DOMAIN s |-> IF \E j \in DOMAIN s : i \in Children(j)
                                          THEN CHOOSE j \in DOMAIN s : i \in Children(j) ELSE 0]
       /\ t.split = [i \in DOMAIN s |-> IF IsLeaf(s, i) \/ Decision(i) = 0 THEN 0 ELSE relations[Decision(i)].split]
  OBVIOUS
<1> HIDE DEF t
<1>13. /\ \A i \in 1..N : Span(i) = <<s[i][1] + 1, s[i][2] + 1>>
       /\ \A i \in 1..N : Children(i) = Below(s, i)
  BY <1>11
<1> HIDE DEF Span, Children
<1>14. DOMAIN t.span = DOMAIN s /\ Len(t.span) = Len(s)
  BY <1>1, <1>12
<1>15. \A i \in DOMAIN s : t.span[i] = <<s[i][1] + 1, s[i][2] + 1>>
  BY <1>1, <1>12, <1>13
<1>16. ASSUME NEW i \in DOMAIN s, NEW j \in DOMAIN s, i \in Below(s, j) PROVE t.parent[i] = j
  <2> DEFINE k == CHOOSE x \in DOMAIN s : i \in Children(x)
  <2>1. j \in DOMAIN s /\ i \in Children(j)
    BY <1>1, <1>13, <1>16
  <2>2. k \in DOMAIN s /\ i \in Children(k)
    BY <2>1
  <2>3. t.parent[i] = k
    BY <1>12, <2>1
  <2> HIDE DEF k
  <2>4. i \in Below(s, k)
    BY <1>1, <1>13, <2>2
  <2>5. k = j
    BY <1>16, <2>2, <2>4 DEF PostOrder, Hung
  <2> QED
    BY <2>3, <2>5
<1>17. ASSUME NEW i \in DOMAIN s, \A j \in DOMAIN s : i \notin Below(s, j) PROVE t.parent[i] = 0
  BY <1>1, <1>12, <1>13, <1>17
<1>18. ASSUME NEW i \in DOMAIN s, ~IsLeaf(s, i) PROVE t.split[i] = relations[RelationOver(s[i][1], s[i][2])].split
  <2>1. s[i][1] + 1 - 1 = s[i][1] /\ s[i][2] + 1 - 1 = s[i][2]
    BY <1>1
  <2>2. Span(i)[1] - 1 = s[i][1] /\ Span(i)[2] - 1 = s[i][2]
    BY <1>1, <1>13, <2>1
  <2>3. Decision(i) = RelationOver(s[i][1], s[i][2])
    BY <2>2
  <2>4. RelationOver(s[i][1], s[i][2]) # 0
    <3>1. Parted(s[i], s[i - 1 - Size(s[i - 1])], s[i - 1])
      BY <1>18 DEF PostOrder, Branched
    <3> QED
      BY <3>1, LenProperties DEF Parted, ValidRelations
  <2> QED
    BY <1>12, <1>18, <2>3, <2>4
<1>19. Walk(s) = t
  BY <1>6 DEF t
<1>20. Numbered(t, s)
  BY <1>1, <1>12, <1>14, <1>15, <1>16, <1>17, <1>18 DEF Numbered
<1>21. t \in Trees
  <2>1. t = [span |-> t.span, parent |-> t.parent, split |-> t.split]
    BY DEF t
  <2>2. t.span \in [1..N -> Spans] /\ DOMAIN t.parent = 1..N /\ DOMAIN t.split = 1..N
    <3>1. ASSUME NEW i \in 1..N PROVE t.span[i] \in Spans
      <4>1. t.span[i] = <<s[i][1] + 1, s[i][2] + 1>> /\ s[i][1] \in Nat /\ s[i][2] \in Nat
        BY <1>1, <1>15
      <4> QED
        BY <4>1 DEF Spans
    <3> QED
      BY <1>1, <1>12, <3>1
  <2>3. \A i \in 1..N : t.parent[i] \in Nat
    BY <1>1, <1>16, <1>17
  <2>4. ASSUME NEW i \in 1..N PROVE t.split[i] \in Nat
    <3>1. t.split[i] = IF IsLeaf(s, i) \/ Decision(i) = 0 THEN 0 ELSE relations[Decision(i)].split
      BY <1>1, <1>12
    <3>2. Decision(i) # 0 => Decision(i) \in DOMAIN relations
      BY RelationFound
    <3> HIDE DEF Decision
    <3>3. \A k \in DOMAIN relations : relations[k].split \in Nat
      <4>1. relations \in Seq([first : Nat, split : Nat, last : Nat])
        BY DEF ValidRelations
      <4>2. \A k \in DOMAIN relations : relations[k] \in [first : Nat, split : Nat, last : Nat]
        BY <4>1, LenProperties, ElementOfSeq
      <4> QED
        BY <4>2
    <3> QED
      BY <3>1, <3>2, <3>3
  <2>5. t.span \in Seq(Spans) /\ t.parent \in Seq(Nat) /\ t.split \in Seq(Nat)
    <3>1. t.parent \in [1..N -> Nat] /\ t.split \in [1..N -> Nat]
      BY <1>1, <1>12, <2>2, <2>3, <2>4
    <3>2. \A S, f : f \in [1..N -> S] => f \in Seq(S)
      BY <1>1
    <3> QED
      BY <2>2, <3>1, <3>2
  <2> QED
    BY <2>1, <2>5 DEF Trees
<1> QED
  BY <1>19, <1>20, <1>21

\* Every node has a parent or none, a decision or none, and a span of the unit's EDUs.
Framed(t, n) ==
    /\ DOMAIN t.parent = DOMAIN t.span /\ DOMAIN t.split = DOMAIN t.span
    /\ \A i \in DOMAIN t.span : 1 <= t.span[i][1] /\ t.span[i][1] <= t.span[i][2] /\ t.span[i][2] <= n

(***************************************************************************)
(* And its nodes are a tree over the EDUs whose decisions name the ends of *)
(* the left children.                                                      *)
(***************************************************************************)
LEMMA TreeOfConstituents ==
    ASSUME ValidRelations, NEW n \in Nat \ {0}, NEW s, PostOrder(s, 0, n - 1), NEW t, Numbered(t, s)
    PROVE  IsTreeOver(t, n) /\ Len(t.span) = 2 * n - 1 /\ Framed(t, n) /\ \A i \in DOMAIN t.span : SplitsNamed(t, i)
<1> DEFINE N == Len(s)
<1>1. /\ N \in Nat \ {0} /\ N = 2 * n - 1 /\ DOMAIN s = 1..N /\ s[N] = <<0, n - 1>>
      /\ \A i \in 1..N : s[i] \in Spans /\ s[i][1] \in Nat /\ s[i][2] \in Nat
  <2>1. s \in Seq(Spans) /\ N = Size(<<0, n - 1>>) /\ s[N] = <<0, n - 1>>
    BY DEF PostOrder, Placed
  <2>2. N \in Nat /\ DOMAIN s = 1..N /\ \A k \in 1..N : s[k] \in Spans
    BY <2>1, LenProperties, ElementOfSeq
  <2>3. \A k \in 1..N : s[k][1] \in Nat /\ s[k][2] \in Nat
    BY <2>2 DEF Spans
  <2>4. N = 2 * n - 1
    BY <2>1 DEF Size
  <2>5. N # 0
    BY <2>2, <2>4
  <2> QED
    BY <2>1, <2>2, <2>3, <2>4, <2>5
<1>0. N = Len(s)
  OBVIOUS
<1> HIDE DEF N
<1>2. /\ DOMAIN t.span = 1..N /\ Len(t.span) = N
      /\ \A i \in 1..N : t.span[i] = <<s[i][1] + 1, s[i][2] + 1>>
      /\ \A i, j \in 1..N : i \in Below(s, j) => t.parent[i] = j
      /\ \A i \in 1..N : (\A j \in 1..N : i \notin Below(s, j)) => t.parent[i] = 0
      /\ \A i \in 1..N : ~IsLeaf(s, i) => t.split[i] = relations[RelationOver(s[i][1], s[i][2])].split
  BY <1>1 DEF Numbered, N
<1>3. ASSUME NEW i \in 1..N PROVE Below(s, i) \subseteq 1..(i - 1) /\ Below(s, i) \subseteq 1..N
  <2>1. Below(s, i) \subseteq 1..(i - 1)
    BY <1>1, BelowFacts DEF PostOrder
  <2>2. 1..(i - 1) \subseteq 1..N
    BY <1>1
  <2> QED
    BY <2>1, <2>2
<1>4. ASSUME NEW i \in 1..N PROVE ChildrenOf(t, i) = Below(s, i)
  <2>1. ChildrenOf(t, i) = {j \in 1..N : t.parent[j] = i}
    BY <1>2 DEF ChildrenOf
  <2>2. ASSUME NEW j \in 1..N, t.parent[j] = i PROVE j \in Below(s, i)
    <3>1. i # 0
      BY <1>1
    <3>2. PICK k \in 1..N : j \in Below(s, k)
      BY <1>2, <2>2, <3>1
    <3> QED
      BY <1>2, <2>2, <3>2
  <2> QED
    BY <1>2, <1>3, <2>1, <2>2
<1>5. RootsOf(t) = {N}
  <2>1. RootsOf(t) = {j \in 1..N : t.parent[j] = 0}
    BY <1>2 DEF RootsOf, ChildrenOf
  <2>2. N \in 1..N /\ t.parent[N] = 0
    BY <1>1, <1>2, <1>3
  <2>3. ASSUME NEW i \in 1..N, i # N PROVE t.parent[i] # 0
    <3>0. i < Len(s) /\ i \in DOMAIN s
      BY <1>0, <1>1, <2>3
    <3>1. PICK j \in 1..N : i \in Below(s, j)
      BY <1>1, <3>0 DEF PostOrder, Hung
    <3>2. t.parent[i] = j
      BY <1>2, <3>1
    <3>3. j # 0
      BY <3>1
    <3> QED
      BY <3>2, <3>3
  <2> QED
    BY <2>1, <2>2, <2>3
<1>6. t.span[N] = <<1, n>> /\ N \in 1..N
  <2>1. 0 + 1 = 1 /\ (n - 1) + 1 = n
    OBVIOUS
  <2> QED
    BY <1>1, <1>2, <2>1
<1>7. ASSUME NEW i \in 1..N, ~IsLeaf(s, i)
      PROVE  \E left, right \in 1..N, a, b, m \in Nat :
                /\ left # right /\ ChildrenOf(t, i) = {left, right} /\ a <= m /\ m < b
                /\ t.span[i] = <<a + 1, b + 1>> /\ t.span[left] = <<a + 1, m + 1>> /\ t.span[right] = <<m + 2, b + 1>>
                /\ t.split[i] = m
  <2> DEFINE left == i - 1 - Size(s[i - 1])
             right == i - 1
             a == s[i][1]
             b == s[i][2]
             m == relations[RelationOver(s[i][1], s[i][2])].split
  <2>1. left \in 1..N /\ right \in 1..N /\ left # right /\ Below(s, i) = {right, left}
    BY <1>1, <1>7, BelowFacts DEF PostOrder
  <2>2. Parted(s[i], s[left], s[right])
    BY <1>1, <1>7 DEF PostOrder, Branched
  <2> HIDE DEF left, right
  <2>3. a \in Nat /\ b \in Nat /\ m \in Nat /\ a <= m /\ m < b /\ s[left] = <<a, m>> /\ s[right] = <<m + 1, b>>
    BY <1>1, <2>2 DEF Parted
  <2>4. t.split[i] = m
    BY <1>2, <1>7
  <2>5. t.span[i] = <<a + 1, b + 1>>
    BY <1>2
  <2> HIDE DEF a, b, m
  <2>6. s[left][1] = a /\ s[left][2] = m /\ s[right][1] = m + 1 /\ s[right][2] = b /\ (m + 1) + 1 = m + 2
    BY <2>3
  <2>7. t.span[left] = <<a + 1, m + 1>> /\ t.span[right] = <<m + 2, b + 1>>
    BY <1>2, <2>1, <2>6
  <2>8. ChildrenOf(t, i) = {left, right}
    BY <1>4, <2>1
  <2> QED
    BY <2>1, <2>3, <2>4, <2>5, <2>7, <2>8
<1>8. ASSUME NEW i \in 1..N PROVE Divided(t, i)
  <2>1. CASE IsLeaf(s, i)
    <3>1. ChildrenOf(t, i) = {}
      BY <1>4, <2>1 DEF Below
    <3>2. t.span[i][1] = t.span[i][2]
      BY <1>2, <2>1 DEF IsLeaf
    <3> QED
      BY <3>1, <3>2 DEF Divided
  <2>2. CASE ~IsLeaf(s, i)
    <3>1. PICK left \in 1..N, right \in 1..N, a \in Nat, b \in Nat, m \in Nat :
                /\ left # right /\ ChildrenOf(t, i) = {left, right} /\ a <= m /\ m < b
                /\ t.span[i] = <<a + 1, b + 1>> /\ t.span[left] = <<a + 1, m + 1>> /\ t.span[right] = <<m + 2, b + 1>>
                /\ t.split[i] = m
      BY <1>7, <2>2
    <3>2. /\ t.span[i][1] = a + 1 /\ t.span[i][2] = b + 1 /\ t.span[left][1] = a + 1 /\ t.span[left][2] = m + 1
          /\ t.span[right][1] = m + 2 /\ t.span[right][2] = b + 1
      BY <3>1
    <3>3. ASSUME NEW e \in (a + 1)..(b + 1)
          PROVE  OneOf({j \in {left, right} : t.span[j][1] <= e /\ e <= t.span[j][2]})
      <4>1. CASE e <= m + 1
        <5>1. {j \in {left, right} : t.span[j][1] <= e /\ e <= t.span[j][2]} = {left}
          BY <3>1, <3>2, <4>1
        <5> QED
          BY <5>1 DEF OneOf
      <4>2. CASE ~(e <= m + 1)
        <5>1. {j \in {left, right} : t.span[j][1] <= e /\ e <= t.span[j][2]} = {right}
          BY <3>1, <3>2, <4>2
        <5> QED
          BY <5>1 DEF OneOf
      <4> QED
        BY <4>1, <4>2
    <3>4. \A j \in {left, right} : t.span[i][1] <= t.span[j][1] /\ t.span[j][1] <= t.span[j][2] /\ t.span[j][2] <= t.span[i][2]
      BY <3>1, <3>2
    <3> QED
      BY <3>1, <3>2, <3>3, <3>4 DEF Divided
  <2> QED
    BY <2>1, <2>2
<1>9. ASSUME NEW e \in 1..n PROVE OneOf({i \in 1..N : t.span[i] = <<e, e>>})
  <2>1. e - 1 \in 0..(n - 1) /\ (e - 1) + 1 = e
    OBVIOUS
  <2>2. PICK i \in 1..N : s[i] = <<e - 1, e - 1>>
    BY <1>1, <2>1 DEF PostOrder, LeavesOnce
  <2>3. t.span[i] = <<e, e>> /\ IsLeaf(s, i)
    BY <1>2, <2>1, <2>2 DEF IsLeaf
  <2>4. ASSUME NEW j \in 1..N, t.span[j] = <<e, e>> PROVE j = i
    <3>1. s[j][1] + 1 = e /\ s[j][2] + 1 = e /\ s[j][1] \in Nat /\ s[j][2] \in Nat /\ s[j] \in Spans
      <4>1. s[j][1] \in Nat /\ s[j][2] \in Nat /\ s[j] \in Spans
        BY <1>1
      <4>2. <<s[j][1] + 1, s[j][2] + 1>> = <<e, e>>
        BY <1>2, <2>4
      <4> QED
        BY <4>1, <4>2
    <3>2. s[j][1] = e - 1 /\ s[j][2] = e - 1
      BY <3>1
    <3>3. s[j] = s[i]
      BY <2>2, <3>1, <3>2 DEF Spans
    <3> QED
      BY <1>1, <2>3, <3>3 DEF PostOrder, LeavesOnce
  <2>5. {k \in 1..N : t.span[k] = <<e, e>>} = {i}
    BY <2>3, <2>4
  <2> QED
    BY <2>5 DEF OneOf
<1>9a. ASSUME NEW i \in 1..N PROVE t.parent[i] = 0 \/ t.parent[i] \in 1..N
  <2>1. CASE \E j \in 1..N : i \in Below(s, j)
    BY <1>2, <2>1
  <2>2. CASE \A j \in 1..N : i \notin Below(s, j)
    BY <1>2, <2>2
  <2> QED
    BY <2>1, <2>2
<1>10. IsTreeOver(t, n)
  BY <1>2, <1>5, <1>6, <1>8, <1>9, <1>9a DEF IsTreeOver
<1>11. ASSUME NEW i \in 1..N PROVE SplitsNamed(t, i)
  <2>1. CASE IsLeaf(s, i)
    <3>1. ChildrenOf(t, i) = {}
      BY <1>4, <2>1 DEF Below
    <3> QED
      BY <3>1 DEF SplitsNamed
  <2>2. CASE ~IsLeaf(s, i)
    <3>1. PICK left \in 1..N, right \in 1..N, a \in Nat, b \in Nat, m \in Nat :
                /\ left # right /\ ChildrenOf(t, i) = {left, right} /\ a <= m /\ m < b
                /\ t.span[i] = <<a + 1, b + 1>> /\ t.span[left] = <<a + 1, m + 1>> /\ t.span[right] = <<m + 2, b + 1>>
                /\ t.split[i] = m
      BY <1>7, <2>2
    <3>2. /\ t.span[i][1] = a + 1 /\ t.span[left][2] = m + 1 /\ t.span[right][1] = m + 2 /\ (m + 1) - 1 = m
      BY <3>1
    <3> QED
      BY <3>1, <3>2 DEF SplitsNamed
  <2> QED
    BY <2>1, <2>2
<1>12. Framed(t, n)
  <2>1. DOMAIN t.parent = DOMAIN t.span /\ DOMAIN t.split = DOMAIN t.span
    BY DEF Numbered
  <2>2. ASSUME NEW i \in 1..N PROVE 1 <= t.span[i][1] /\ t.span[i][1] <= t.span[i][2] /\ t.span[i][2] <= n
    <3>1. s[i][1] <= s[i][2] /\ s[i][2] <= n - 1
      BY <1>1 DEF PostOrder, Placed
    <3>2. t.span[i][1] = s[i][1] + 1 /\ t.span[i][2] = s[i][2] + 1 /\ s[i][1] \in Nat /\ s[i][2] \in Nat
      BY <1>1, <1>2
    <3> QED
      BY <3>1, <3>2
  <2> QED
    BY <1>2, <2>1, <2>2 DEF Framed
<1> QED
  BY <1>1, <1>2, <1>10, <1>11, <1>12

\* A binary tree over n EDUs with its decisions.
Binary(t, n) ==
    /\ t \in Trees /\ IsTreeOver(t, n) /\ Len(t.span) = 2 * n - 1 /\ Framed(t, n)
    /\ \A i \in DOMAIN t.span : SplitsNamed(t, i)

\* What is in a sequence, and the spans that have a relation.
Held(s, x) == \E k \in DOMAIN s : s[k] = x
Emitted(a, b) == \E k \in DOMAIN relations : relations[k].first = a /\ relations[k].last = b
(***************************************************************************)
(* A span that needs no relation, waits for it or has it.                  *)
(***************************************************************************)
Handled(a, b) == a = b \/ Held(pending, <<a, b>>) \/ Emitted(a, b)

(***************************************************************************)
(* The stacks of parsing_net.py: what waits has more than one EDU, no half *)
(* of a relation is forgotten, and the first relation is over the unit.    *)
(***************************************************************************)
TopDown ==
    /\ pending \in Seq(Spans)
    /\ \A k \in DOMAIN pending : pending[k][1] < pending[k][2] /\ pending[k][2] < edus
    /\ \A k \in DOMAIN relations :
          Handled(relations[k].first, relations[k].split) /\ Handled(relations[k].split + 1, relations[k].last)
    /\ edus > 1 => IF relations = <<>> THEN pending = <<<<0, edus - 1>>>>
                                       ELSE relations[1].first = 0 /\ relations[1].last = edus - 1
(***************************************************************************)
(* The stack of parsing_net_bottom_up.py: spans that follow each other     *)
(* from the first EDU to the last one shifted; the first relation is over  *)
(* two EDUs.                                                               *)
(***************************************************************************)
BottomUp ==
    /\ pending \in Seq(Spans) /\ shifted \in Nat /\ shifted <= edus
    /\ \A k \in DOMAIN pending : pending[k][1] <= pending[k][2] /\ pending[k][2] < shifted
    /\ \A k \in 1..(Len(pending) - 1) : pending[k + 1][1] = pending[k][2] + 1
    /\ IF pending = <<>> THEN shifted = 0 ELSE pending[1][1] = 0 /\ pending[Len(pending)][2] = shifted - 1
    /\ IF relations = <<>> THEN \A k \in DOMAIN pending : pending[k][1] = pending[k][2]
                           ELSE relations[1].last = relations[1].first + 1
(***************************************************************************)
(* The inductive invariant of a decoder.                                   *)
(***************************************************************************)
DecoderInv ==
    /\ stage \in {"idle", "decode", "converted", "refused"}
    /\ stage = "idle" => edus = 0 /\ relations = <<>> /\ pending = <<>> /\ shifted = 0
    /\ stage # "idle" => /\ ValidRelations
                         /\ decoder = "top-down" => TopDown
                         /\ decoder = "bottom-up" => BottomUp
    /\ stage = "converted" => Binary(tree, edus)
    /\ decoder = "top-down" => stage # "refused"

(***************************************************************************)
(* What a concatenation holds.                                             *)
(***************************************************************************)
LEMMA ConcatHolds ==
    ASSUME NEW S, NEW s \in Seq(S), NEW t \in Seq(S), NEW x
    PROVE  Held(s \o t, x) <=> Held(s, x) \/ Held(t, x)
<1> DEFINE p == Len(s)
           q == Len(t)
           u == s \o t
<1>1. /\ p \in Nat /\ q \in Nat /\ DOMAIN s = 1..p /\ DOMAIN t = 1..q /\ DOMAIN u = 1..(p + q)
      /\ \A i \in 1..(p + q) : u[i] = IF i <= p THEN s[i] ELSE t[i - p]
  <2>1. u \in Seq(S) /\ Len(u) = p + q /\ \A i \in 1..(p + q) : u[i] = IF i <= p THEN s[i] ELSE t[i - p]
    BY ConcatProperties
  <2> HIDE DEF u
  <2> QED
    BY <2>1, LenProperties
<1> HIDE DEF p, q, u
<1>2. ASSUME NEW i \in 1..(p + q), u[i] = x PROVE Held(s, x) \/ Held(t, x)
  <2>1. CASE i <= p
    <3>1. i \in 1..p /\ s[i] = x
      BY <1>1, <1>2, <2>1
    <3> QED
      BY <1>1, <3>1 DEF Held
  <2>2. CASE ~(i <= p)
    <3>1. i - p \in 1..q /\ t[i - p] = x
      BY <1>1, <1>2, <2>2
    <3> QED
      BY <1>1, <3>1 DEF Held
  <2> QED
    BY <2>1, <2>2
<1>3. ASSUME NEW i \in 1..p, s[i] = x PROVE Held(u, x)
  <2>1. i \in 1..(p + q) /\ u[i] = x
    BY <1>1, <1>3
  <2> QED
    BY <1>1, <2>1 DEF Held
<1>4. ASSUME NEW i \in 1..q, t[i] = x PROVE Held(u, x)
  <2>1. p + i \in 1..(p + q) /\ ~(p + i <= p) /\ (p + i) - p = i
    BY <1>1
  <2>2. u[p + i] = x
    BY <1>1, <1>4, <2>1
  <2> QED
    BY <1>1, <2>1, <2>2 DEF Held
<1>5. Held(u, x) <=> Held(s, x) \/ Held(t, x)
  BY <1>1, <1>2, <1>3, <1>4 DEF Held
<1> QED
  BY <1>5 DEF u

(***************************************************************************)
(* A stack without its top, and the top.                                   *)
(***************************************************************************)
LEMMA FrontFacts ==
    ASSUME NEW S, NEW s \in Seq(S), s # <<>>
    PROVE  /\ Len(s) \in Nat \ {0} /\ Front(s) \in Seq(S) /\ Len(Front(s)) = Len(s) - 1
           /\ \A i \in 1..(Len(s) - 1) : Front(s)[i] = s[i]
           /\ Last(s) = s[Len(s)] /\ Last(s) \in S
<1>1. Len(s) \in Nat \ {0} /\ \A i \in 1..Len(s) : s[i] \in S
  BY EmptySeq, ElementOfSeq
<1>2. \A i \in 1..(Len(s) - 1) : s[i] \in S /\ 1 + i - 1 = i
  BY <1>1
<1>3. Front(s) = SubSeq(s, 1, Len(s) - 1)
  BY DEF Front
<1>4. /\ SubSeq(s, 1, Len(s) - 1) \in Seq(S)
      /\ Len(SubSeq(s, 1, Len(s) - 1)) = IF 1 <= Len(s) - 1 THEN (Len(s) - 1) - 1 + 1 ELSE 0
      /\ \A i \in 1..((Len(s) - 1) - 1 + 1) : SubSeq(s, 1, Len(s) - 1)[i] = s[1 + i - 1]
  <2>1. Len(s) - 1 \in Int /\ 1 \in Int
    BY <1>1
  <2> QED
    BY <1>2, <2>1, SubSeqProperties
<1>5. Last(s) = s[Len(s)]
  BY DEF Last
<1> DEFINE n == Len(s)
<1>6. n \in Nat \ {0} /\ Len(SubSeq(s, 1, n - 1)) = IF 1 <= n - 1 THEN (n - 1) - 1 + 1 ELSE 0
  BY <1>1, <1>4
<1>7. Last(s) \in S
  BY <1>1, <1>5
<1> HIDE DEF n
<1>8. Len(SubSeq(s, 1, n - 1)) = n - 1 /\ (n - 1) - 1 + 1 = n - 1 /\ \A i \in 1..(n - 1) : 1 + i - 1 = i
  BY <1>6
<1>9. \A i \in 1..(n - 1) : SubSeq(s, 1, n - 1)[i] = s[i]
  BY <1>4, <1>8 DEF n
<1> QED
  BY <1>1, <1>3, <1>4, <1>5, <1>7, <1>8, <1>9 DEF n

(***************************************************************************)
(* Decoding that is over gives a tree over the EDUs or, bottom up and with *)
(* more than two EDUs, one that is refused: the tree of its first relation *)
(* has two leaves.                                                         *)
(***************************************************************************)
LEMMA Converts ==
    ASSUME ValidRelations, decoder = "top-down" => TopDown, decoder = "bottom-up" => BottomUp, Decoded
    PROVE  /\ ~Refused => Binary(Walk(Constituents), edus)
           /\ decoder = "top-down" => ~Refused
<1> DEFINE s == Constituents
<1>1. edus \in Nat \ {0}
  BY DEF ValidRelations
<1>2. ASSUME NEW f, NEW l, PostOrder(s, f, l) PROVE Leaves(s, Len(s)) = l - f + 1
  <2>1. Len(s) \in DOMAIN s /\ s[Len(s)] = <<f, l>>
    <3>1. s \in Seq(Spans) /\ s[Len(s)] = <<f, l>> /\ Len(s) = 2 * (l - f) + 1 /\ f \in Nat /\ l \in Nat /\ f <= l
      BY <1>2 DEF PostOrder, Placed, Size
    <3> HIDE DEF s
    <3> QED
      BY <3>1, LenProperties
  <2> HIDE DEF s
  <2> QED
    BY <1>2, <2>1, LeavesCounted
<1>3. PostOrder(s, 0, edus - 1) => ~Refused /\ Binary(Walk(s), edus)
  <2> SUFFICES ASSUME PostOrder(s, 0, edus - 1) PROVE ~Refused /\ Binary(Walk(s), edus)
    OBVIOUS
  <2>1. Leaves(s, Len(s)) = edus
    BY <1>1, <1>2
  <2>2. ~Refused
    BY <2>1 DEF Refused
  <2> HIDE DEF s
  <2>3. Numbered(Walk(s), s) /\ Walk(s) \in Trees
    BY WalkNumbers
  <2>4. /\ IsTreeOver(Walk(s), edus) /\ Len(Walk(s).span) = 2 * edus - 1 /\ Framed(Walk(s), edus)
        /\ \A i \in DOMAIN Walk(s).span : SplitsNamed(Walk(s), i)
    BY <1>1, <2>3, TreeOfConstituents
  <2> QED
    BY <2>2, <2>3, <2>4 DEF Binary
<1>4. CASE edus = 1
  <2>1. s = <<<<0, 0>>>> /\ edus - 1 = 0
    BY <1>4 DEF Constituents
  <2> HIDE DEF s
  <2>2. PostOrder(s, 0, edus - 1)
    BY <2>1, OneLeaf
  <2> QED
    BY <1>3, <2>2 DEF s
<1>5. CASE edus > 1 /\ decoder = "top-down"
  <2> DEFINE C == {span \in Spans : span[1] <= span[2] /\ span[2] < edus /\ (span[1] = span[2] \/ Emitted(span[1], span[2]))}
  <2>1. TopDown /\ pending = <<>>
    BY <1>5 DEF Decoded
  <2>2. relations # <<>> /\ relations[1].first = 0 /\ relations[1].last = edus - 1
    BY <1>5, <2>1 DEF TopDown
  <2>3. \A a, b : Handled(a, b) => a = b \/ Emitted(a, b)
    BY <2>1 DEF Handled, Held
  <2>4. Closed(C)
    <3> SUFFICES ASSUME NEW span \in C, span[1] < span[2] PROVE \E left, right \in C : Parted(span, left, right)
      BY DEF Closed
    <3>1. span[1] \in Nat /\ span[2] \in Nat /\ span = <<span[1], span[2]>> /\ Emitted(span[1], span[2])
      BY DEF Spans
    <3> DEFINE k == RelationOver(span[1], span[2])
               m == relations[k].split
    <3>2. k # 0
      BY <3>1, RelationFound DEF Emitted
    <3>3. /\ k \in DOMAIN relations /\ relations[k].first = span[1] /\ relations[k].last = span[2]
          /\ m \in Nat /\ span[1] <= m /\ m < span[2] /\ span[2] < edus
          /\ Parted(span, <<span[1], m>>, <<m + 1, span[2]>>)
      BY <3>1, <3>2, RelationParts, RelationFound
    <3>4. Handled(span[1], m) /\ Handled(m + 1, span[2])
      BY <2>1, <3>3 DEF TopDown
    <3> HIDE DEF k, m
    <3>5. <<span[1], m>> \in C
      BY <1>1, <2>3, <3>1, <3>3, <3>4 DEF Spans
    <3>6. <<m + 1, span[2]>> \in C
      BY <1>1, <2>3, <3>1, <3>3, <3>4 DEF Spans
    <3> QED
      BY <3>3, <3>5, <3>6
  <2>5. <<0, edus - 1>> \in C
    <3>1. 1 \in DOMAIN relations
      BY <2>2, EmptySeq, LenProperties DEF ValidRelations
    <3>2. Emitted(0, edus - 1)
      BY <2>2, <3>1 DEF Emitted
    <3> QED
      BY <1>1, <3>2 DEF Spans
  <2> HIDE DEF C, s
  <2>6. PostOrder(s, 0, edus - 1)
    <3> DEFINE root == <<0, edus - 1>>
    <3>1. root \in C /\ root = <<relations[1].first, relations[1].last>> /\ root[1] = 0 /\ root[2] = edus - 1
      BY <2>2, <2>5
    <3> HIDE DEF root
    <3>2. PostOrder(s, root[1], root[2])
      BY <1>5, <2>4, <3>1, ConstituentsInOrder DEF s
    <3> QED
      BY <3>1, <3>2
  <2> QED
    BY <1>3, <2>6 DEF s
<1>6. CASE edus > 1 /\ decoder = "bottom-up"
  <2>1. BottomUp /\ shifted = edus /\ Len(pending) = 1
    BY <1>6 DEF Decoded
  <2>2. pending[1] \in Spans /\ pending[1][1] = 0 /\ pending[1][2] = edus - 1
    <3>1. pending \in Seq(Spans) /\ pending # <<>> /\ 1 \in 1..Len(pending)
      <4>1. pending \in Seq(Spans)
        BY <2>1 DEF BottomUp
      <4>2. pending # <<>>
        BY <2>1
      <4> QED
        BY <2>1, <4>1, <4>2
    <3> QED
      BY <2>1, <3>1, ElementOfSeq DEF BottomUp
  <2>3. relations # <<>>
    <3>1. 1 \in DOMAIN pending
      <4>1. pending \in Seq(Spans) /\ Len(pending) = 1
        BY <2>1 DEF BottomUp
      <4>2. DOMAIN pending = 1..Len(pending)
        BY <4>1, LenProperties
      <4> QED
        BY <4>1, <4>2
    <3>2. pending[1][1] # pending[1][2]
      BY <1>1, <1>6, <2>2
    <3> QED
      BY <2>1, <3>1, <3>2 DEF BottomUp
  <2> DEFINE i == relations[1].first
  <2>4. 1 \in DOMAIN relations /\ relations[1].last = i + 1 /\ i \in Nat /\ i + 1 < edus
        /\ RelationOver(i, i + 1) # 0
    <3>1. 1 \in DOMAIN relations
      BY <2>3, EmptySeq, LenProperties DEF ValidRelations
    <3>2. relations[1] \in [first : Nat, split : Nat, last : Nat]
      <4>1. relations \in Seq([first : Nat, split : Nat, last : Nat])
        BY DEF ValidRelations
      <4>2. 1 \in 1..Len(relations)
        BY <3>1, <4>1, LenProperties
      <4> QED
        BY <4>1, <4>2, ElementOfSeq
    <3>3. relations[1].last = i + 1 /\ relations[1].last < edus
      BY <2>1, <2>3, <3>1 DEF BottomUp, ValidRelations
    <3>4. RelationOver(i, i + 1) # 0
      BY <3>1, <3>3, RelationFound
    <3> QED
      BY <3>1, <3>2, <3>3, <3>4
  <2> HIDE DEF i
  <2> DEFINE C == {<<i, i + 1>>} \cup {<<e, e>> : e \in 0..(edus - 1)}
  <2>5. Closed(C)
    <3>1. ASSUME NEW e \in 0..(edus - 1) PROVE <<e, e>> \in Spans /\ e <= e /\ e < edus /\ ~(e < e)
      BY <1>1 DEF Spans
    <3> DEFINE m == relations[RelationOver(i, i + 1)].split
    <3>2. m \in Nat /\ i <= m /\ m < i + 1 /\ Parted(<<i, i + 1>>, <<i, m>>, <<m + 1, i + 1>>)
      BY <2>4, RelationParts
    <3> HIDE DEF m
    <3>3. m = i
      BY <2>4, <3>2
    <3>4. <<i, m>> \in C /\ <<m + 1, i + 1>> \in C
      <4>1. i \in 0..(edus - 1) /\ i + 1 \in 0..(edus - 1)
        BY <1>1, <2>4
      <4> QED
        BY <3>3, <4>1
    <3>5. <<i, i + 1>> \in Spans /\ i <= i + 1
      BY <2>4 DEF Spans
    <3> SUFFICES ASSUME NEW span \in C
                 PROVE  /\ span \in Spans /\ span[1] <= span[2] /\ span[2] < edus
                        /\ span[1] < span[2] => \E left, right \in C : Parted(span, left, right)
      BY DEF Closed
    <3>6. CASE span = <<i, i + 1>>
      <4>1. span[1] = i /\ span[2] = i + 1
        BY <3>6
      <4> QED
        BY <2>4, <3>2, <3>4, <3>5, <3>6, <4>1
    <3>7. ASSUME NEW e \in 0..(edus - 1), span = <<e, e>>
          PROVE  /\ span \in Spans /\ span[1] <= span[2] /\ span[2] < edus
                 /\ span[1] < span[2] => \E left, right \in C : Parted(span, left, right)
      BY <3>1, <3>7
    <3> QED
      BY <3>6, <3>7
  <2>6. PostOrder(s, i, i + 1)
    <3> DEFINE root == <<i, i + 1>>
    <3>1. root \in C /\ root = <<relations[1].first, relations[1].last>> /\ root[1] = i /\ root[2] = i + 1
      BY <2>4 DEF i
    <3> HIDE DEF root, C
    <3>2. PostOrder(s, root[1], root[2])
      BY <1>6, <2>5, <3>1, ConstituentsInOrder DEF s
    <3> QED
      BY <3>1, <3>2
  <2>7. Leaves(s, Len(s)) = 2
    BY <1>2, <2>4, <2>6
  <2>8. ~Refused => edus = 2 /\ i = 0
    BY <1>1, <2>4, <2>7 DEF Refused
  <2> HIDE DEF s
  <2>9. ~Refused => Binary(Walk(s), edus)
    BY <1>3, <2>6, <2>8
  <2> QED
    BY <1>6, <2>9 DEF s
<1> QED
  BY <1>1, <1>4, <1>5, <1>6 DEF Decoded


(***************************************************************************)
(* Decoding starts with a span that waits for its relation, or with an     *)
(* empty stack.                                                            *)
(***************************************************************************)
LEMMA Begins == ASSUME DecoderInv, NEW n \in Nat \ {0}, Begin(n) PROVE DecoderInv'
<1>1. /\ edus' = n /\ stage' = "decode" /\ relations' = <<>> /\ shifted' = 0 /\ tree' = tree /\ decoder' = decoder
      /\ pending' = IF decoder = "top-down" /\ n > 1 THEN <<<<0, n - 1>>>> ELSE <<>>
  BY DEF Begin, DecoderInv
<1>2. <<>> \in Seq([first : Nat, split : Nat, last : Nat]) /\ <<>> \in Seq(Spans) /\ DOMAIN <<>> = {} /\ Len(<<>>) = 0
  OBVIOUS
<1>3. ValidRelations'
  BY <1>1, <1>2 DEF ValidRelations
<1>4. decoder = "top-down" => TopDown'
  <2> SUFFICES ASSUME decoder = "top-down" PROVE TopDown'
    OBVIOUS
  <2>1. CASE n > 1
    <3>1. pending' = <<<<0, n - 1>>>>
      BY <1>1, <2>1
    <3>2. pending' \in Seq(Spans) /\ DOMAIN pending' = {1} /\ pending'[1] = <<0, n - 1>>
      BY <2>1, <3>1 DEF Spans
    <3>3. pending'[1][1] < pending'[1][2] /\ pending'[1][2] < n
      BY <2>1, <3>2
    <3> QED
      BY <1>1, <1>2, <3>1, <3>2, <3>3 DEF TopDown
  <2>2. CASE ~(n > 1)
    BY <1>1, <1>2, <2>2 DEF TopDown
  <2> QED
    BY <2>1, <2>2
<1>5. decoder = "bottom-up" => BottomUp'
  BY <1>1, <1>2 DEF BottomUp
<1> QED
  BY <1>1, <1>3, <1>4, <1>5 DEF DecoderInv

(***************************************************************************)
(* What one more relation, over a part of the unit, changes.               *)
(***************************************************************************)
LEMMA OneMoreRelation ==
    ASSUME ValidRelations, edus' = edus, NEW f \in Nat, NEW m \in Nat, NEW l \in Nat, f <= m, m < l, l < edus,
           relations' = Append(relations, Relation(f, m, l))
    PROVE  /\ ValidRelations'
           /\ \A a, b : Emitted(a, b)' <=> Emitted(a, b) \/ (a = f /\ b = l)
           /\ \A k \in DOMAIN relations' : k \in DOMAIN relations \/ relations'[k] = Relation(f, m, l)
           /\ \A k \in DOMAIN relations : k \in DOMAIN relations' /\ relations'[k] = relations[k]
           /\ relations' # <<>>
           /\ relations = <<>> => 1 \in DOMAIN relations' /\ relations'[1] = Relation(f, m, l)
           /\ relations # <<>> => 1 \in DOMAIN relations
<1> DEFINE r == Relation(f, m, l)
           n == Len(relations)
<1>1. relations \in Seq([first : Nat, split : Nat, last : Nat]) /\ n \in Nat /\ DOMAIN relations = 1..n
  BY LenProperties DEF ValidRelations
<1>2. r \in [first : Nat, split : Nat, last : Nat] /\ r.first = f /\ r.split = m /\ r.last = l
  BY DEF Relation
<1> HIDE DEF r
<1>3. relations' \in Seq([first : Nat, split : Nat, last : Nat]) /\ Len(relations') = n + 1 /\ DOMAIN relations' = 1..(n + 1)
      /\ (\A i \in 1..n : relations'[i] = relations[i]) /\ relations'[n + 1] = r
  <2>1. relations' = Append(relations, r)
    BY DEF r
  <2> QED
    BY <1>1, <1>2, <2>1
<1> HIDE DEF n
<1>4. \A k \in 1..(n + 1) : k \in 1..n \/ k = n + 1
  BY <1>1
<1>5. n + 1 \in 1..(n + 1) /\ 1..n \subseteq 1..(n + 1)
  BY <1>1
<1>6. ValidRelations'
  BY <1>1, <1>2, <1>3, <1>4 DEF ValidRelations
<1>7. \A a, b : Emitted(a, b)' <=> Emitted(a, b) \/ (a = f /\ b = l)
  BY <1>1, <1>2, <1>3, <1>4, <1>5 DEF Emitted
<1>8. relations = <<>> => n = 0
  BY DEF n
<1>9. relations # <<>> => n # 0
  BY <1>1 DEF n
<1>10. relations # <<>> => 1 \in DOMAIN relations
  BY <1>1, <1>9
<1>11. relations = <<>> => 1 \in DOMAIN relations' /\ relations'[1] = r
  BY <1>3, <1>8
<1>12. relations' # <<>>
  <2>1. Len(relations') # 0
    BY <1>1, <1>3
  <2> QED
    BY <2>1
<1> QED
  BY <1>1, <1>3, <1>4, <1>5, <1>6, <1>7, <1>10, <1>11, <1>12 DEF r

(***************************************************************************)
(* The halves that are pushed are those of more than one EDU.              *)
(***************************************************************************)
LEMMA HalvesFacts ==
    ASSUME NEW a \in Nat, NEW m \in Nat, NEW b \in Nat, a <= m, m < b
    PROVE  /\ Halves(<<a, b>>, m) \in Seq(Spans)
           /\ \A x : Held(Halves(<<a, b>>, m), x) <=> (x = <<a, m>> /\ a < m) \/ (x = <<m + 1, b>> /\ m + 1 < b)
<1> DEFINE right == IF m + 1 < b THEN <<<<m + 1, b>>>> ELSE <<>>
           left == IF a < m THEN <<<<a, m>>>> ELSE <<>>
<1>1. Halves(<<a, b>>, m) = right \o left
  BY DEF Halves
<1>2. right \in Seq(Spans) /\ left \in Seq(Spans)
  BY DEF Spans
<1>3. \A y, x : Held(<<y>>, x) <=> x = y
  BY DEF Held
<1>4. \A x : ~Held(<<>>, x)
  BY DEF Held
<1>5. \A x : (Held(right, x) <=> x = <<m + 1, b>> /\ m + 1 < b) /\ (Held(left, x) <=> x = <<a, m>> /\ a < m)
  BY <1>3, <1>4
<1> HIDE DEF left, right
<1>6. right \o left \in Seq(Spans) /\ \A x : Held(right \o left, x) <=> Held(right, x) \/ Held(left, x)
  BY <1>2, ConcatProperties, ConcatHolds
<1> QED
  BY <1>1, <1>5, <1>6

(***************************************************************************)
(* A span leaves the top-down stack with its relation, and its halves come *)
(* on the stack or are done.                                               *)
(***************************************************************************)
LEMMA Splits == ASSUME DecoderInv, Split PROVE DecoderInv'
<1> DEFINE span == Last(pending)
<1>1. /\ stage = "decode" /\ decoder = "top-down" /\ pending # <<>>
      /\ decoder' = decoder /\ stage' = stage /\ edus' = edus /\ shifted' = shifted /\ tree' = tree
      /\ ValidRelations /\ TopDown
  BY DEF Split, DecoderInv
<1> DEFINE n == Len(pending)
<1>3. /\ pending \in Seq(Spans) /\ n \in Nat \ {0} /\ DOMAIN pending = 1..n
      /\ Front(pending) \in Seq(Spans) /\ Len(Front(pending)) = n - 1 /\ DOMAIN Front(pending) = 1..(n - 1)
      /\ (\A i \in 1..(n - 1) : Front(pending)[i] = pending[i]) /\ span = pending[n] /\ span \in Spans
  BY <1>1, FrontFacts, LenProperties DEF TopDown
<1>4. PICK a \in Nat, b \in Nat : span = <<a, b>> /\ a < b /\ b < edus /\ edus \in Nat \ {0}
  <2>1. n \in DOMAIN pending
    BY <1>3
  <2>2. span[1] < span[2] /\ span[2] < edus
    BY <1>1, <1>3, <2>1 DEF TopDown
  <2>3. span[1] \in Nat /\ span[2] \in Nat /\ span = <<span[1], span[2]>>
    BY <1>3 DEF Spans
  <2> HIDE DEF span, n
  <2> QED
    BY <1>1, <2>2, <2>3 DEF ValidRelations
<1>2. PICK m \in a..(b - 1) : relations' = Append(relations, Relation(a, m, b)) /\ pending' = Front(pending) \o Halves(<<a, b>>, m)
  <2>1. PICK m \in span[1]..(span[2] - 1) :
            relations' = Append(relations, Relation(span[1], m, span[2])) /\ pending' = Front(pending) \o Halves(span, m)
    BY DEF Split
  <2>2. span[1] = a /\ span[2] = b
    BY <1>4
  <2> HIDE DEF span
  <2> QED
    BY <1>4, <2>1, <2>2
<1> HIDE DEF span, n
<1>5. m \in Nat /\ a <= m /\ m < b
  BY <1>2, <1>4
<1> DEFINE r == Relation(a, m, b)
<1>6. r.first = a /\ r.split = m /\ r.last = b
  BY DEF Relation
<1>7. /\ ValidRelations'
      /\ \A x, y : Emitted(x, y)' <=> Emitted(x, y) \/ (x = a /\ y = b)
      /\ \A k \in DOMAIN relations' : k \in DOMAIN relations \/ relations'[k] = r
      /\ \A k \in DOMAIN relations : k \in DOMAIN relations' /\ relations'[k] = relations[k]
      /\ relations' # <<>>
      /\ relations = <<>> => 1 \in DOMAIN relations' /\ relations'[1] = r
      /\ relations # <<>> => 1 \in DOMAIN relations
  BY <1>1, <1>2, <1>4, <1>5, OneMoreRelation
<1> HIDE DEF r
<1>8. /\ Halves(<<a, b>>, m) \in Seq(Spans)
      /\ \A x : Held(Halves(<<a, b>>, m), x) <=> (x = <<a, m>> /\ a < m) \/ (x = <<m + 1, b>> /\ m + 1 < b)
  BY <1>4, <1>5, HalvesFacts
<1>9. /\ pending' \in Seq(Spans)
      /\ \A x : Held(pending', x) <=> Held(Front(pending), x) \/ (x = <<a, m>> /\ a < m) \/ (x = <<m + 1, b>> /\ m + 1 < b)
  <2>1. pending' = Front(pending) \o Halves(<<a, b>>, m)
    BY <1>2, <1>4
  <2>2. pending' \in Seq(Spans)
    BY <1>3, <1>8, <2>1, ConcatProperties
  <2>3. \A x : Held(pending', x) <=> Held(Front(pending), x) \/ Held(Halves(<<a, b>>, m), x)
    BY <1>3, <1>8, <2>1, ConcatHolds
  <2> QED
    BY <1>8, <2>2, <2>3
<1>10. /\ \A x : Held(Front(pending), x) => Held(pending, x)
       /\ \A x : Held(pending, x) => Held(Front(pending), x) \/ x = <<a, b>>
  <2>1. \A i \in 1..n : i \in 1..(n - 1) \/ i = n
    BY <1>3
  <2>2. 1..(n - 1) \subseteq 1..n
    BY <1>3
  <2> QED
    BY <1>3, <1>4, <2>1, <2>2 DEF Held
<1>11. \A x, y : Handled(x, y) => Handled(x, y)'
  BY <1>7, <1>9, <1>10 DEF Handled, Held
<1>12. Handled(a, m)' /\ Handled(m + 1, b)'
  <2>1. a = m \/ Held(pending', <<a, m>>)
    BY <1>4, <1>5, <1>9
  <2>2. m + 1 = b \/ Held(pending', <<m + 1, b>>)
    BY <1>4, <1>5, <1>9
  <2> QED
    BY <2>1, <2>2 DEF Handled, Held
<1>13. \A k \in DOMAIN pending' : pending'[k][1] < pending'[k][2] /\ pending'[k][2] < edus
  <2>1. \A x : Held(pending, x) => x[1] < x[2] /\ x[2] < edus
    BY <1>1 DEF TopDown, Held
  <2>2. <<m + 1, b>>[1] = m + 1 /\ <<m + 1, b>>[2] = b /\ <<a, m>>[1] = a /\ <<a, m>>[2] = m /\ m < edus
    BY <1>4, <1>5
  <2>3. \A x : Held(pending', x) => x[1] < x[2] /\ x[2] < edus
    BY <1>4, <1>9, <1>10, <2>1, <2>2
  <2> QED
    BY <2>3 DEF Held
<1>14. ASSUME NEW k \in DOMAIN relations'
       PROVE  Handled(relations[k].first, relations[k].split)' /\ Handled(relations[k].split + 1, relations[k].last)'
  <2>1. CASE relations'[k] = r
    <3>1. relations'[k].first = a /\ relations'[k].split = m /\ relations'[k].last = b
      BY <1>6, <2>1
    <3> QED
      BY <1>12, <3>1 DEF Handled, Emitted, Held
  <2>2. CASE k \in DOMAIN relations
    <3>1. PICK x, y, z : /\ relations[k].first = x /\ relations[k].split = y /\ relations[k].last = z
                         /\ Handled(x, y) /\ Handled(y + 1, z)
      BY <1>1, <2>2 DEF TopDown
    <3>2. relations'[k].first = x /\ relations'[k].split = y /\ relations'[k].last = z
      BY <1>7, <2>2, <3>1
    <3>3. (x = y \/ Held(pending', <<x, y>>) \/ \E i \in DOMAIN relations' : relations'[i].first = x /\ relations'[i].last = y)
          /\ (y + 1 = z \/ Held(pending', <<y + 1, z>>)
                \/ \E i \in DOMAIN relations' : relations'[i].first = y + 1 /\ relations'[i].last = z)
      BY <1>11, <3>1 DEF Handled, Emitted, Held
    <3> QED
      BY <3>2, <3>3 DEF Handled, Emitted, Held
  <2> QED
    BY <1>7, <2>1, <2>2
<1>15. relations'[1].first = 0 /\ relations'[1].last = edus - 1
  <2>0. edus > 1
    BY <1>4
  <2>1. CASE relations = <<>>
    <3>1. pending = <<<<0, edus - 1>>>>
      BY <1>1, <2>0, <2>1 DEF TopDown
    <3>2. n = 1 /\ span = <<0, edus - 1>>
      BY <1>3, <3>1 DEF n
    <3>3. a = 0 /\ b = edus - 1
      BY <1>4, <3>2
    <3> QED
      BY <1>6, <1>7, <2>1, <3>3
  <2>2. CASE relations # <<>>
    BY <1>1, <1>7, <2>0, <2>2 DEF TopDown
  <2> QED
    BY <2>1, <2>2
<1>16. TopDown'
  <2>1. (\A k \in DOMAIN relations :
          Handled(relations[k].first, relations[k].split) /\ Handled(relations[k].split + 1, relations[k].last))'
    BY <1>14
  <2> QED
    BY <1>1, <1>7, <1>9, <1>13, <1>15, <2>1 DEF TopDown
<1> QED
  BY <1>1, <1>7, <1>16 DEF DecoderInv

(***************************************************************************)
(* Shifting appends one EDU to the spans that cover the text so far.       *)
(***************************************************************************)
LEMMA Shifts == ASSUME DecoderInv, Shift PROVE DecoderInv'
<1> DEFINE n == Len(pending)
           x == <<shifted, shifted>>
<1>1. /\ stage = "decode" /\ decoder = "bottom-up" /\ edus > 1 /\ shifted < edus
      /\ decoder' = decoder /\ stage' = stage /\ edus' = edus /\ relations' = relations /\ tree' = tree
      /\ pending' = Append(pending, x) /\ shifted' = shifted + 1
      /\ ValidRelations /\ BottomUp
  BY DEF Shift, DecoderInv
<1>2. ValidRelations' /\ edus \in Nat
  BY <1>1 DEF ValidRelations
<1>3. /\ pending \in Seq(Spans) /\ shifted \in Nat /\ n \in Nat /\ DOMAIN pending = 1..n /\ x \in Spans
      /\ (pending # <<>> => n # 0) /\ (pending = <<>> => n = 0)
  BY <1>1, LenProperties, EmptySeq DEF BottomUp, Spans
<1>4. x[1] = shifted /\ x[2] = shifted
  OBVIOUS
<1> HIDE DEF n, x
<1>5. /\ pending' \in Seq(Spans) /\ Len(pending') = n + 1 /\ DOMAIN pending' = 1..(n + 1) /\ pending'[n + 1] = x
      /\ \A i \in 1..n : pending'[i] = pending[i]
  BY <1>1, <1>3 DEF n
<1>6. \A k \in 1..n : pending[k] \in Spans /\ pending[k][1] \in Nat /\ pending[k][2] \in Nat /\ pending[k][1] <= pending[k][2]
                      /\ pending[k][2] < shifted
  <2>1. \A k \in 1..n : pending[k] \in Spans
    BY <1>3, ElementOfSeq DEF n
  <2> QED
    BY <1>1, <1>3, <2>1 DEF BottomUp, Spans
<1>7. \A k \in 1..(n + 1) : pending'[k][1] <= pending'[k][2] /\ pending'[k][2] < shifted + 1
  <2> SUFFICES ASSUME NEW k \in 1..(n + 1) PROVE pending'[k][1] <= pending'[k][2] /\ pending'[k][2] < shifted + 1
    OBVIOUS
  <2>1. CASE k = n + 1
    BY <1>3, <1>4, <1>5, <2>1
  <2>2. CASE k # n + 1
    <3>1. k \in 1..n
      BY <1>3, <2>2
    <3> QED
      BY <1>3, <1>5, <1>6, <3>1
  <2> QED
    BY <2>1, <2>2
<1>8. ASSUME NEW k \in 1..n PROVE pending'[k + 1][1] = pending'[k][2] + 1
  <2>1. CASE k = n
    <3>1. pending # <<>> /\ pending[n][2] = shifted - 1
      BY <1>1, <1>3, <2>1 DEF BottomUp, n
    <3> QED
      BY <1>3, <1>4, <1>5, <2>1, <3>1
  <2>2. CASE k # n
    <3>1. k \in 1..(n - 1) /\ k + 1 \in 1..n
      BY <1>3, <2>2
    <3>2. pending[k + 1][1] = pending[k][2] + 1
      BY <1>1, <3>1 DEF BottomUp, n
    <3> QED
      BY <1>5, <3>1, <3>2
  <2> QED
    BY <2>1, <2>2
<1>9. pending'[1][1] = 0 /\ pending'[n + 1][2] = (shifted + 1) - 1 /\ pending' # <<>>
  <2>1. CASE pending = <<>>
    BY <1>1, <1>3, <1>4, <1>5, <2>1 DEF BottomUp
  <2>2. CASE pending # <<>>
    <3>1. 1 \in 1..n /\ pending[1][1] = 0
      BY <1>1, <1>3, <2>2 DEF BottomUp
    <3> QED
      BY <1>3, <1>4, <1>5, <3>1
  <2> QED
    BY <2>1, <2>2
<1>10. relations = <<>> => \A k \in 1..(n + 1) : pending'[k][1] = pending'[k][2]
  <2> SUFFICES ASSUME relations = <<>>, NEW k \in 1..(n + 1) PROVE pending'[k][1] = pending'[k][2]
    OBVIOUS
  <2>1. \A i \in 1..n : pending[i][1] = pending[i][2]
    BY <1>1, <1>3 DEF BottomUp
  <2>2. k \in 1..n \/ k = n + 1
    BY <1>3
  <2> QED
    BY <1>4, <1>5, <2>1, <2>2
<1>11. (n + 1) - 1 = n /\ shifted + 1 \in Nat /\ shifted + 1 <= edus
  BY <1>1, <1>2, <1>3
<1>12. relations # <<>> => relations'[1].last = relations'[1].first + 1
  BY <1>1 DEF BottomUp
<1>13. BottomUp'
  BY <1>1, <1>5, <1>7, <1>8, <1>9, <1>10, <1>11, <1>12 DEF BottomUp
<1> QED
  BY <1>1, <1>2, <1>13 DEF DecoderInv

(***************************************************************************)
(* Reducing joins the last two spans of the bottom-up stack, which are     *)
(* neighbours; the first time, they are two EDUs.                          *)
(***************************************************************************)
LEMMA Reduces == ASSUME DecoderInv, Reduce PROVE DecoderInv'
<1> DEFINE n == Len(pending)
<1>1. /\ stage = "decode" /\ decoder = "bottom-up" /\ n >= 2
      /\ decoder' = decoder /\ stage' = stage /\ edus' = edus /\ shifted' = shifted /\ tree' = tree
      /\ ValidRelations /\ BottomUp
  BY DEF Reduce, DecoderInv
<1>2. /\ pending \in Seq(Spans) /\ n \in Nat /\ DOMAIN pending = 1..n /\ pending # <<>>
      /\ \A k \in 1..n : pending[k] \in Spans /\ pending[k][1] \in Nat /\ pending[k][2] \in Nat
      /\ \A k \in 1..n : pending[k][1] <= pending[k][2] /\ pending[k][2] < shifted
      /\ shifted \in Nat /\ shifted <= edus /\ edus \in Nat
  <2>1. pending \in Seq(Spans) /\ n \in Nat /\ DOMAIN pending = 1..n /\ pending # <<>>
    BY <1>1, LenProperties, EmptySeq DEF BottomUp
  <2>2. \A k \in 1..n : pending[k] \in Spans
    BY <2>1, ElementOfSeq
  <2> QED
    BY <1>1, <2>1, <2>2 DEF BottomUp, Spans, ValidRelations
<1>3. PICK a \in Nat, m \in Nat, c \in Nat, b \in Nat : pending[n - 1] = <<a, m>> /\ pending[n] = <<c, b>>
  <2>1. pending[n - 1] \in Spans /\ pending[n] \in Spans
    BY <1>1, <1>2
  <2> QED
    BY <2>1 DEF Spans
<1>4. a <= m /\ c = m + 1 /\ c <= b /\ b < shifted /\ b = shifted - 1
  <2>1. n - 1 \in 1..n /\ n \in 1..n /\ n - 1 \in 1..(n - 1) /\ (n - 1) + 1 = n
    BY <1>1, <1>2
  <2>2. pending[n][1] = pending[n - 1][2] + 1
    BY <1>1, <2>1 DEF BottomUp
  <2>3. pending[n][2] = shifted - 1
    BY <1>1, <1>2 DEF BottomUp
  <2>4. pending[n - 1][1] = a /\ pending[n - 1][2] = m /\ pending[n][1] = c /\ pending[n][2] = b
    BY <1>3
  <2> HIDE DEF n
  <2> QED
    BY <1>2, <2>1, <2>2, <2>3, <2>4
<1> DEFINE front == Front(Front(pending))
           x == <<a, b>>
<1>5. /\ Last(pending) = <<c, b>> /\ Last(Front(pending)) = <<a, m>>
      /\ front \in Seq(Spans) /\ Len(front) = n - 2 /\ \A i \in 1..(n - 2) : front[i] = pending[i]
  <2> DEFINE one == Front(pending)
  <2>1. one \in Seq(Spans) /\ Len(one) = n - 1 /\ (\A i \in 1..(n - 1) : one[i] = pending[i]) /\ Last(pending) = pending[n]
    BY <1>2, FrontFacts
  <2> HIDE DEF one, n
  <2>2. one # <<>> /\ n - 1 \in 1..(n - 1) /\ (n - 1) - 1 = n - 2 /\ 1..(n - 2) \subseteq 1..(n - 1)
    BY <1>1, <1>2, <2>1, EmptySeq
  <2>3. Front(one) \in Seq(Spans) /\ Len(Front(one)) = Len(one) - 1 /\ (\A i \in 1..(Len(one) - 1) : Front(one)[i] = one[i])
        /\ Last(one) = one[Len(one)]
    BY <2>1, <2>2, FrontFacts
  <2>4. Len(one) - 1 = n - 2 /\ Last(one) = one[n - 1] /\ one[n - 1] = pending[n - 1]
    BY <2>1, <2>2, <2>3
  <2>5. \A i \in 1..(n - 2) : Front(one)[i] = pending[i]
    BY <2>1, <2>2, <2>3, <2>4
  <2> QED
    BY <1>3, <2>1, <2>3, <2>4, <2>5 DEF one
<1>6. relations' = Append(relations, Relation(a, m, b)) /\ pending' = Append(front, x)
  <2>1. LET right == Last(pending)
            left == Last(Front(pending))
        IN  /\ relations' = Append(relations, Relation(left[1], left[2], right[2]))
            /\ pending' = Append(Front(Front(pending)), <<left[1], right[2]>>)
    BY DEF Reduce
  <2> QED
    BY <1>5, <2>1
<1>7. /\ ValidRelations' /\ relations' # <<>>
      /\ relations = <<>> => relations'[1] = Relation(a, m, b)
      /\ relations # <<>> => relations'[1] = relations[1]
  <2>1. m < b /\ b < edus
    BY <1>2, <1>4
  <2> HIDE DEF n, front, x
  <2> QED
    BY <1>1, <1>4, <1>6, <2>1, OneMoreRelation
<1> HIDE DEF n, front, x
<1>8. /\ pending' \in Seq(Spans) /\ Len(pending') = n - 1 /\ DOMAIN pending' = 1..(n - 1) /\ pending'[n - 1] = x
      /\ \A i \in 1..(n - 2) : pending'[i] = pending[i]
  <2>1. x \in Spans /\ n - 2 \in Nat /\ (n - 2) + 1 = n - 1
    BY <1>1, <1>2 DEF x, Spans
  <2> QED
    BY <1>5, <1>6, <2>1
<1>9. x[1] = a /\ x[2] = b
  BY DEF x
<1>10. \A k \in 1..(n - 1) : pending'[k][1] <= pending'[k][2] /\ pending'[k][2] < shifted
  <2> SUFFICES ASSUME NEW k \in 1..(n - 1) PROVE pending'[k][1] <= pending'[k][2] /\ pending'[k][2] < shifted
    OBVIOUS
  <2>1. CASE k = n - 1
    BY <1>4, <1>8, <1>9, <2>1
  <2>2. CASE k # n - 1
    <3>1. k \in 1..(n - 2) /\ k \in 1..n
      BY <1>2, <2>2
    <3> QED
      BY <1>2, <1>8, <3>1
  <2> QED
    BY <2>1, <2>2
<1>11. ASSUME NEW k \in 1..((n - 1) - 1) PROVE pending'[k + 1][1] = pending'[k][2] + 1
  <2>1. k \in 1..(n - 2) /\ k \in 1..(n - 1) /\ k \in Nat
    BY <1>1, <1>2
  <2>2. pending[k + 1][1] = pending[k][2] + 1
    BY <1>1, <2>1 DEF BottomUp, n
  <2>3. CASE k = n - 2
    <3>1. k + 1 = n - 1
      BY <1>2, <2>3
    <3>2. pending[k + 1][1] = a
      BY <1>3, <3>1
    <3> QED
      BY <1>8, <1>9, <2>1, <2>2, <3>1, <3>2
  <2>4. CASE k # n - 2
    <3>1. k + 1 \in 1..(n - 2)
      BY <1>2, <2>1, <2>4
    <3> QED
      BY <1>8, <2>1, <2>2, <3>1
  <2> QED
    BY <2>3, <2>4
<1>12. pending'[1][1] = 0 /\ pending'[n - 1][2] = shifted - 1 /\ pending' # <<>>
  <2>1. pending[1][1] = 0
    BY <1>1, <1>2 DEF BottomUp
  <2>2. CASE n = 2
    <3>1. n - 1 = 1
      BY <2>2
    <3>2. a = 0
      BY <1>3, <2>1, <3>1
    <3> QED
      <4>1. pending'[1] = x /\ pending'[n - 1] = x /\ Len(pending') = 1
        BY <1>8, <3>1
      <4>2. pending' # <<>>
        BY <4>1
      <4> QED
        BY <1>4, <1>9, <3>2, <4>1, <4>2
  <2>3. CASE n # 2
    <3>1. 1 \in 1..(n - 2) /\ n - 1 > 0
      BY <1>1, <1>2, <2>3
    <3> QED
      BY <1>4, <1>8, <1>9, <2>1, <3>1
  <2> QED
    BY <2>2, <2>3
<1>13. relations'[1].last = relations'[1].first + 1
  <2>1. CASE relations = <<>>
    <3>1. a = m /\ c = b
      <4>1. \A k \in DOMAIN pending : pending[k][1] = pending[k][2]
        BY <1>1, <2>1 DEF BottomUp
      <4>2. n - 1 \in DOMAIN pending /\ n \in DOMAIN pending
        BY <1>1, <1>2
      <4>3. pending[n - 1][1] = pending[n - 1][2] /\ pending[n][1] = pending[n][2]
        BY <4>1, <4>2
      <4> QED
        BY <1>3, <4>3
    <3>2. b = a + 1
      BY <1>4, <3>1
    <3> QED
      BY <1>7, <2>1, <3>2 DEF Relation
  <2>2. CASE relations # <<>>
    BY <1>1, <1>7, <2>2 DEF BottomUp
  <2> QED
    BY <2>1, <2>2
<1>14. BottomUp'
  BY <1>1, <1>2, <1>7, <1>8, <1>10, <1>11, <1>12, <1>13 DEF BottomUp
<1> QED
  BY <1>1, <1>7, <1>14 DEF DecoderInv

(***************************************************************************)
(* Conversion keeps the tree it makes, or refuses it.                      *)
(***************************************************************************)
LEMMA Conversion == ASSUME DecoderInv, Convert PROVE DecoderInv'
<1>1. /\ stage = "decode" /\ Decoded /\ ValidRelations
      /\ decoder = "top-down" => TopDown
      /\ decoder = "bottom-up" => BottomUp
      /\ decoder' = decoder /\ edus' = edus /\ pending' = pending /\ shifted' = shifted /\ relations' = relations
  BY DEF Convert, DecoderInv
<1>2. /\ ValidRelations'
      /\ decoder = "top-down" => TopDown'
      /\ decoder = "bottom-up" => BottomUp'
  BY <1>1 DEF ValidRelations, TopDown, BottomUp, Handled, Emitted, Held
<1>3. CASE Refused
  <2>1. stage' = "refused"
    BY <1>3 DEF Convert
  <2>2. decoder # "top-down"
    BY <1>1, <1>3, Converts
  <2> QED
    BY <1>1, <1>2, <2>1, <2>2 DEF DecoderInv
<1>4. CASE ~Refused
  <2>1. stage' = "converted" /\ tree' = Walk(Constituents)
    BY <1>4 DEF Convert
  <2>2. Binary(Walk(Constituents), edus)
    BY <1>1, <1>4, Converts
  <2>3. Binary(tree', edus')
    BY <1>1, <2>1, <2>2
  <2>4. Binary(tree, edus)'
    BY <2>3 DEF Binary, Framed, IsTreeOver, Divided, SplitsNamed, RootsOf, ChildrenOf, OneOf
  <2> QED
    BY <1>1, <1>2, <2>1, <2>4 DEF DecoderInv
<1> QED
  BY <1>3, <1>4

-----------------------------------------------------------------------------
(***************************************************************************)
(* The document's tree.  Each number up to the last one belongs to one     *)
(* node of one unit; what hangs below it there is what hangs below it in   *)
(* any tree that keeps the units' nodes; so only the nodes above the       *)
(* units' roots are left: one of recombination, or the macro tree's.       *)
(***************************************************************************)
(***************************************************************************)
(* Each number up to the last total belongs to exactly one entry.          *)
(***************************************************************************)
LEMMA EntryFacts ==
    ASSUME NEW counts \in Seq(Nat), NEW k \in 1..Totals(counts)[Len(counts)]
    PROVE  /\ EntryOf(counts, k) \in 1..Len(counts)
           /\ Totals(counts)[EntryOf(counts, k) - 1] < k /\ k <= Totals(counts)[EntryOf(counts, k)]
           /\ \A u \in 1..Len(counts) :
                 Totals(counts)[u - 1] < k /\ k <= Totals(counts)[u] => u = EntryOf(counts, k)
<1> DEFINE T == Totals(counts)
           L == Len(counts)
           Holds(u) == T[u - 1] < k /\ k <= T[u]
<1>1. L \in Nat /\ T \in [0..L -> Nat] /\ T[0] = 0 /\ DOMAIN counts = 1..L
  BY TotalsFacts
<1>2. \A i, j \in 0..L : i <= j => T[i] <= T[j]
  BY TotalsMonotone
<1>3. k \in 1..T[L]
  OBVIOUS
<1>4. EntryOf(counts, k) = CHOOSE u \in 1..L : Holds(u)
  BY <1>1 DEF EntryOf
<1> HIDE DEF T, L
<1>5. k \in Nat /\ k > 0 /\ k <= T[L]
  BY <1>1, <1>3
<1> DEFINE R == {u \in Nat : u <= L /\ k <= T[u]}
<1>6. PICK u \in R : \A v \in R : u <= v
  <2>1. R \subseteq Nat /\ L \in R
    BY <1>1, <1>5
  <2> HIDE DEF R
  <2> QED
    BY <2>1, Least
<1>7. u \in Nat /\ u <= L /\ k <= T[u] /\ u # 0
  BY <1>1, <1>5, <1>6
<1>8. u \in 1..L /\ u - 1 \in 0..L /\ u - 1 \in Nat
  BY <1>1, <1>7
<1>9. ~(k <= T[u - 1])
  BY <1>1, <1>6, <1>8
<1>10. T[u - 1] \in Nat
  BY <1>1, <1>8
<1>11. Holds(u)
  BY <1>5, <1>7, <1>9, <1>10
<1>12. ASSUME NEW v \in 1..L, NEW w \in 1..L, Holds(v), Holds(w) PROVE ~(v < w)
  <2> SUFFICES ASSUME v < w PROVE FALSE
    OBVIOUS
  <2>1. v \in 0..L /\ w - 1 \in 0..L /\ v <= w - 1
    BY <1>1
  <2>2. T[v] <= T[w - 1] /\ T[v] \in Nat /\ T[w - 1] \in Nat
    BY <1>1, <1>2, <2>1
  <2>3. k <= T[v] /\ T[w - 1] < k
    BY <1>12
  <2> QED
    BY <1>5, <2>2, <2>3
<1>13. \A v, w \in 1..L : Holds(v) /\ Holds(w) => v = w
  <2> TAKE v, w \in 1..L
  <2>1. v \in Int /\ w \in Int
    BY <1>1
  <2> HIDE DEF Holds
  <2> QED
    BY <1>12, <2>1
<1> HIDE DEF Holds, R
<1>14. EntryOf(counts, k) \in 1..L /\ Holds(EntryOf(counts, k))
  BY <1>4, <1>8, <1>11
<1> QED
  BY <1>13, <1>14 DEF Holds, T, L

(***************************************************************************)
(* What a binary tree gives: its nodes, the ranges of its spans, parents   *)
(* and splits, and its one root.                                           *)
(***************************************************************************)
LEMMA BinaryFacts ==
    ASSUME NEW n \in Nat \ {0}, NEW t, Binary(t, n)
    PROVE  /\ Len(t.span) \in Nat \ {0} /\ DOMAIN t.span = 1..Len(t.span) /\ Len(t.span) = 2 * n - 1
           /\ \A i \in 1..Len(t.span) :
                 /\ t.span[i] \in Spans /\ t.span[i] = <<t.span[i][1], t.span[i][2]>>
                 /\ t.span[i][1] \in 1..n /\ t.span[i][2] \in 1..n /\ t.span[i][1] <= t.span[i][2]
                 /\ t.parent[i] \in 0..Len(t.span) /\ t.split[i] \in Nat
                 /\ Divided(t, i) /\ SplitsNamed(t, i)
<1> DEFINE N == Len(t.span)
<1>1. /\ t \in Trees /\ IsTreeOver(t, n) /\ N = 2 * n - 1 /\ Framed(t, n)
      /\ \A i \in DOMAIN t.span : SplitsNamed(t, i)
  BY DEF Binary
<1>2. t.span \in Seq(Spans) /\ t.parent \in Seq(Nat) /\ t.split \in Seq(Nat)
  BY <1>1 DEF Trees
<1>3. N \in Nat /\ DOMAIN t.span = 1..N /\ \A i \in 1..N : t.span[i] \in Spans
  BY <1>2, LenProperties, ElementOfSeq
<1>4. DOMAIN t.parent = 1..N /\ DOMAIN t.split = 1..N
  BY <1>1, <1>3 DEF Framed
<1>5. \A i \in 1..N : t.parent[i] \in Nat /\ t.split[i] \in Nat
  BY <1>2, <1>4, LenProperties, ElementOfSeq
<1>6. \A i \in 1..N : 1 <= t.span[i][1] /\ t.span[i][1] <= t.span[i][2] /\ t.span[i][2] <= n
  BY <1>1, <1>3 DEF Framed
<1>7. \A i \in 1..N : Divided(t, i) /\ (t.parent[i] # 0 => t.parent[i] \in 1..N)
  BY <1>1, <1>3 DEF IsTreeOver
<1> HIDE DEF N
<1>12. N # 0
  BY <1>1, <1>3
<1>13. ASSUME NEW i \in 1..N
       PROVE  /\ t.span[i] = <<t.span[i][1], t.span[i][2]>>
              /\ t.span[i][1] \in 1..n /\ t.span[i][2] \in 1..n /\ t.span[i][1] <= t.span[i][2]
  <2>1. t.span[i] = <<t.span[i][1], t.span[i][2]>> /\ t.span[i][1] \in Nat /\ t.span[i][2] \in Nat
    BY <1>3 DEF Spans
  <2>2. 1 <= t.span[i][1] /\ t.span[i][1] <= t.span[i][2] /\ t.span[i][2] <= n
    BY <1>6
  <2> QED
    BY <2>1, <2>2
<1>14. \A i \in 1..N : t.parent[i] \in 0..N
  BY <1>3, <1>5, <1>7
<1> QED
  BY <1>1, <1>3, <1>5, <1>7, <1>12, <1>13, <1>14 DEF N

(***************************************************************************)
(* Its one root is over all EDUs.                                          *)
(***************************************************************************)
LEMMA BinaryRoot ==
    ASSUME NEW n \in Nat \ {0}, NEW t, Binary(t, n)
    PROVE  \E r \in DOMAIN t.span : t.parent[r] = 0 /\ t.span[r] = <<1, n>> /\ \A i \in DOMAIN t.span : t.parent[i] = 0 => i = r
<1>1. PICK r \in DOMAIN t.span : RootsOf(t) = {r} /\ t.span[r] = <<1, n>>
  BY DEF Binary, IsTreeOver
<1>2. RootsOf(t) = {i \in DOMAIN t.span : t.parent[i] = 0}
  BY DEF RootsOf, ChildrenOf
<1>3. t.parent[r] = 0 /\ \A i \in DOMAIN t.span : t.parent[i] = 0 => i = r
  BY <1>1, <1>2
<1> QED
  BY <1>1, <1>3

(***************************************************************************)
(* Each EDU has its leaf.                                                  *)
(***************************************************************************)
LEMMA BinaryLeaf ==
    ASSUME NEW n \in Nat \ {0}, NEW t, Binary(t, n), NEW e \in 1..n
    PROVE  \E i \in DOMAIN t.span : t.span[i] = <<e, e>> /\ \A j \in DOMAIN t.span : t.span[j] = <<e, e>> => j = i
<1>1. OneOf({i \in DOMAIN t.span : t.span[i] = <<e, e>>})
  BY DEF Binary, IsTreeOver
<1>2. PICK i : {j \in DOMAIN t.span : t.span[j] = <<e, e>>} = {i}
  BY <1>1 DEF OneOf
<1> QED
  BY <1>2

(***************************************************************************)
(* It has as many leaves as EDUs.                                          *)
(***************************************************************************)
LEMMA LeavesAreEdus ==
    ASSUME NEW n \in Nat \ {0}, NEW t, Binary(t, n)
    PROVE  Cardinality({i \in DOMAIN t.span : IsEdu(t, i)}) = n
<1> DEFINE N == Len(t.span)
           Leaf == {i \in DOMAIN t.span : IsEdu(t, i)}
           f == [e \in 1..n |-> CHOOSE i \in 1..N : t.span[i] = <<e, e>>]
<1> HIDE DEF Leaf, f
<1>1. /\ DOMAIN t.span = 1..N
      /\ \A i \in 1..N : t.span[i] = <<t.span[i][1], t.span[i][2]>> /\ t.span[i][1] \in 1..n
      /\ \A e \in 1..n : \E i \in 1..N : t.span[i] = <<e, e>> /\ \A j \in 1..N : t.span[j] = <<e, e>> => j = i
  <2>1. DOMAIN t.span = 1..N
    BY BinaryFacts
  <2>2. ASSUME NEW i \in 1..N PROVE t.span[i] = <<t.span[i][1], t.span[i][2]>>
    BY BinaryFacts
  <2>2a. ASSUME NEW i \in 1..N PROVE t.span[i][1] \in 1..n
    BY BinaryFacts
  <2>3. ASSUME NEW e \in 1..n PROVE \E i \in 1..N : t.span[i] = <<e, e>> /\ \A j \in 1..N : t.span[j] = <<e, e>> => j = i
    BY <2>1, BinaryLeaf
  <2> QED
    BY <2>1, <2>2, <2>2a, <2>3
<1> HIDE DEF N
<1>2. ASSUME NEW e \in 1..n PROVE f[e] \in 1..N /\ t.span[f[e]] = <<e, e>> /\ \A i \in 1..N : t.span[i] = <<e, e>> => i = f[e]
  <2>1. PICK x \in 1..N : t.span[x] = <<e, e>> /\ \A i \in 1..N : t.span[i] = <<e, e>> => i = x
    BY <1>1
  <2>2. f[e] = CHOOSE i \in 1..N : t.span[i] = <<e, e>>
    BY DEF f
  <2>3. f[e] \in 1..N /\ t.span[f[e]] = <<e, e>>
    BY <2>1, <2>2
  <2> QED
    BY <2>1, <2>3
<1>3. f = [e \in 1..n |-> f[e]]
  BY DEF f
<1>4. \A e \in 1..n : f[e] \in Leaf
  BY <1>1, <1>2 DEF IsEdu, Leaf
<1>5. \A a, b \in 1..n : f[a] = f[b] => a = b
  <2> SUFFICES ASSUME NEW a \in 1..n, NEW b \in 1..n, f[a] = f[b] PROVE a = b
    OBVIOUS
  <2>1. <<a, a>> = <<b, b>>
    BY <1>2
  <2> QED
    BY <2>1
<1>6. ASSUME NEW i \in Leaf PROVE \E e \in 1..n : f[e] = i
  <2>1. i \in 1..N /\ t.span[i][1] = t.span[i][2]
    BY <1>1 DEF IsEdu, Leaf
  <2>2. t.span[i] = <<t.span[i][1], t.span[i][1]>> /\ t.span[i][1] \in 1..n
    BY <1>1, <2>1
  <2> QED
    BY <1>2, <2>1, <2>2
<1>7. f \in [1..n -> Leaf]
  BY <1>3, <1>4
<1>8. f \in Bijection(1..n, Leaf)
  BY <1>5, <1>6, <1>7 DEF Bijection, Injection, Surjection, IsInjective
<1>9. ExistsBijection(1..n, Leaf)
  BY <1>8 DEF ExistsBijection
<1>10. n \in Nat
  OBVIOUS
<1> QED
  BY <1>9, <1>10, FS_CountingElements DEF Leaf

\* The trees that a document's tree is made of: one of each part, and the macro tree of sections.
Ready ==
    /\ UnitCount \in Nat \ {0} /\ results \in Seq(Trees) /\ Len(results) >= UnitCount
    /\ \A u \in DOMAIN results : \E n \in Nat \ {0} : Binary(results[u], n)

(***************************************************************************)
(* So the counts are of the EDUs and nodes of the trees.                   *)
(***************************************************************************)
LEMMA CountsFacts ==
    ASSUME Ready
    PROVE  /\ NodeCount \in Seq(Nat) /\ LeafCount \in Seq(Nat) /\ Len(results) \in Nat
           /\ Len(NodeCount) = Len(results) /\ Len(LeafCount) = Len(results)
           /\ \A u \in 1..Len(results) : /\ LeafCount[u] \in Nat \ {0} /\ Binary(results[u], LeafCount[u])
                                         /\ NodeCount[u] = Len(results[u].span)
<1>1. Len(results) \in Nat /\ DOMAIN results = 1..Len(results)
  BY LenProperties DEF Ready
<1>2. ASSUME NEW u \in 1..Len(results)
      PROVE  LeafCount[u] \in Nat \ {0} /\ Binary(results[u], LeafCount[u]) /\ NodeCount[u] = Len(results[u].span)
  <2>1. PICK n \in Nat \ {0} : Binary(results[u], n)
    BY <1>1 DEF Ready
  <2>2. LeafCount[u] = n
    BY <1>1, <2>1, LeavesAreEdus DEF LeafCount
  <2> QED
    BY <1>1, <2>1, <2>2 DEF NodeCount
<1>3. \A u \in 1..Len(results) : NodeCount[u] \in Nat
  <2> TAKE u \in 1..Len(results)
  <2>1. LeafCount[u] \in Nat \ {0} /\ Binary(results[u], LeafCount[u]) /\ NodeCount[u] = Len(results[u].span)
    BY <1>2
  <2> QED
    BY <2>1, BinaryFacts
<1>4. DOMAIN NodeCount = 1..Len(results) /\ DOMAIN LeafCount = 1..Len(results)
  BY <1>1 DEF NodeCount, LeafCount
<1>5. NodeCount \in [1..Len(results) -> Nat] /\ LeafCount \in [1..Len(results) -> Nat]
  BY <1>2, <1>3, <1>4 DEF NodeCount, LeafCount
<1>6. \A f : f \in [1..Len(results) -> Nat] => f \in Seq(Nat) /\ Len(f) = Len(results)
  BY <1>1
<1> QED
  BY <1>1, <1>2, <1>5, <1>6

(***************************************************************************)
(* What is before a part, in nodes and in EDUs.                            *)
(***************************************************************************)
LEMMA OffsetFacts ==
    ASSUME Ready
    PROVE  /\ NodesBefore(1) = 0 /\ EdusBefore(1) = 0
           /\ \A u \in 1..(Len(results) + 1) : NodesBefore(u) \in Nat /\ EdusBefore(u) \in Nat
           /\ \A u \in 1..Len(results) : /\ NodesBefore(u + 1) = NodesBefore(u) + NodeCount[u]
                                         /\ EdusBefore(u + 1) = EdusBefore(u) + LeafCount[u]
           /\ \A u, v \in 1..(Len(results) + 1) :
                 u <= v => NodesBefore(u) <= NodesBefore(v) /\ EdusBefore(u) <= EdusBefore(v)
<1> DEFINE L == Len(results)
           T == Totals(NodeCount)
           E == Totals(LeafCount)
<1>1. NodeCount \in Seq(Nat) /\ LeafCount \in Seq(Nat) /\ L \in Nat /\ Len(NodeCount) = L /\ Len(LeafCount) = L
  BY CountsFacts
<1>2. /\ T \in [0..L -> Nat] /\ T[0] = 0 /\ \A i \in 1..L : T[i] = T[i - 1] + NodeCount[i]
      /\ \A i, j \in 0..L : i <= j => T[i] <= T[j]
  BY <1>1, TotalsFacts, TotalsMonotone
<1>3. /\ E \in [0..L -> Nat] /\ E[0] = 0 /\ \A i \in 1..L : E[i] = E[i - 1] + LeafCount[i]
      /\ \A i, j \in 0..L : i <= j => E[i] <= E[j]
  BY <1>1, TotalsFacts, TotalsMonotone
<1>4. \A u : NodesBefore(u) = T[u - 1] /\ EdusBefore(u) = E[u - 1]
  BY DEF NodesBefore, EdusBefore
<1> HIDE DEF L, T, E
<1>5. \A u \in 1..(L + 1) : u - 1 \in 0..L
  BY <1>1
<1>6. \A u \in 1..L : u \in 0..L /\ (u + 1) - 1 = u
  BY <1>1
<1>7. \A u, v \in 1..(L + 1) : u <= v => u - 1 <= v - 1
  BY <1>1
<1>8. 1 - 1 = 0
  OBVIOUS
<1> QED
  BY <1>2, <1>3, <1>4, <1>5, <1>6, <1>7, <1>8 DEF L

(***************************************************************************)
(* Every number up to the last belongs to one node of one unit, and every  *)
(* node of every unit has one.                                             *)
(***************************************************************************)
LEMMA NumbersFacts ==
    ASSUME Ready
    PROVE  /\ UnitsEnd \in Nat
           /\ \A i \in 1..UnitsEnd : /\ UnitOf(i) \in 1..UnitCount /\ LocalOf(i) \in 1..Len(results[UnitOf(i)].span)
                                     /\ i = NodesBefore(UnitOf(i)) + LocalOf(i)
           /\ \A u \in 1..UnitCount : \A l \in 1..Len(results[u].span) :
                 /\ NodesBefore(u) + l \in 1..UnitsEnd
                 /\ UnitOf(NodesBefore(u) + l) = u /\ LocalOf(NodesBefore(u) + l) = l
<1> DEFINE L == Len(results)
           M == UnitCount
           B(u) == NodesBefore(u)
<1>1. /\ L \in Nat /\ M \in Nat \ {0} /\ M <= L /\ NodeCount \in Seq(Nat) /\ Len(NodeCount) = L
      /\ \A u \in 1..L : NodeCount[u] = Len(results[u].span) /\ NodeCount[u] \in Nat
  <2>1. /\ L \in Nat /\ NodeCount \in Seq(Nat) /\ Len(NodeCount) = L
        /\ \A u \in 1..L : NodeCount[u] = Len(results[u].span)
    BY CountsFacts
  <2>2. \A u \in 1..L : NodeCount[u] \in Nat
    BY <2>1, ElementOfSeq
  <2> QED
    BY <2>1, <2>2 DEF Ready
<1>2. /\ B(1) = 0 /\ \A u \in 1..(L + 1) : B(u) \in Nat
      /\ \A u \in 1..L : B(u + 1) = B(u) + NodeCount[u]
      /\ \A u, v \in 1..(L + 1) : u <= v => B(u) <= B(v)
  BY OffsetFacts
<1>3. UnitsEnd = B(M + 1)
  BY DEF UnitsEnd
<1>4. \A u : Totals(NodeCount)[u - 1] = B(u)
  BY DEF NodesBefore
<1>5. \A u \in 1..L : Totals(NodeCount)[u] = B(u + 1)
  <2> TAKE u \in 1..L
  <2>1. (u + 1) - 1 = u
    BY <1>1
  <2> QED
    BY <1>4, <2>1
<1>6. \A i : LocalOf(i) = i - B(UnitOf(i))
  BY DEF LocalOf
<1>7. B(M + 1) \in Nat /\ B(L + 1) \in Nat /\ B(M + 1) <= B(L + 1) /\ Totals(NodeCount)[L] = B(L + 1)
  <2>1. M + 1 \in 1..(L + 1) /\ L + 1 \in 1..(L + 1) /\ M + 1 <= L + 1 /\ L \in 1..L
    BY <1>1
  <2> QED
    BY <1>2, <1>5, <2>1
<1>8. ASSUME NEW i \in 1..B(M + 1)
      PROVE  /\ UnitOf(i) \in 1..L /\ B(UnitOf(i)) < i /\ i <= B(UnitOf(i) + 1)
             /\ \A u \in 1..L : B(u) < i /\ i <= B(u + 1) => u = UnitOf(i)
  <2>1. i \in 1..Totals(NodeCount)[Len(NodeCount)]
    BY <1>1, <1>7
  <2>2. /\ UnitOf(i) \in 1..L
        /\ Totals(NodeCount)[UnitOf(i) - 1] < i /\ i <= Totals(NodeCount)[UnitOf(i)]
        /\ \A u \in 1..L : Totals(NodeCount)[u - 1] < i /\ i <= Totals(NodeCount)[u] => u = UnitOf(i)
    BY <1>1, <2>1, EntryFacts DEF UnitOf
  <2> HIDE DEF B
  <2> QED
    BY <1>4, <1>5, <2>2
<1> HIDE DEF L, M, B
<1>9. ASSUME NEW i \in 1..B(M + 1)
      PROVE  /\ UnitOf(i) \in 1..M /\ LocalOf(i) \in 1..Len(results[UnitOf(i)].span)
             /\ i = B(UnitOf(i)) + LocalOf(i)
  <2> DEFINE u == UnitOf(i)
  <2>1. u \in 1..L /\ B(u) < i /\ i <= B(u + 1) /\ LocalOf(i) = i - B(u)
    BY <1>6, <1>8
  <2> HIDE DEF u
  <2>2. u \in Nat /\ B(u) \in Nat /\ B(u + 1) = B(u) + NodeCount[u] /\ NodeCount[u] \in Nat /\ i \in Nat
    BY <1>1, <1>2, <1>7, <2>1
  <2>3. LocalOf(i) \in 1..NodeCount[u] /\ i = B(u) + LocalOf(i)
    BY <2>1, <2>2
  <2>4. u <= M
    <3> SUFFICES ASSUME ~(u <= M) PROVE FALSE
      OBVIOUS
    <3>1. M + 1 <= u /\ M + 1 \in 1..(L + 1) /\ u \in 1..(L + 1)
      BY <1>1, <2>1, <2>2
    <3>2. B(M + 1) <= B(u)
      BY <1>2, <3>1
    <3> QED
      BY <1>7, <2>1, <2>2, <3>2
  <2> QED
    BY <1>1, <2>1, <2>2, <2>3, <2>4 DEF u
<1>10. ASSUME NEW u \in 1..M, NEW l \in 1..Len(results[u].span)
       PROVE  B(u) + l \in 1..B(M + 1) /\ UnitOf(B(u) + l) = u /\ LocalOf(B(u) + l) = l
  <2>1. u \in 1..L /\ u \in 1..(L + 1) /\ u + 1 \in 1..(L + 1) /\ M + 1 \in 1..(L + 1) /\ u + 1 <= M + 1
    BY <1>1
  <2>2. /\ B(u) \in Nat /\ NodeCount[u] \in Nat /\ l \in 1..NodeCount[u] /\ B(u + 1) = B(u) + NodeCount[u]
        /\ B(u + 1) <= B(M + 1)
    BY <1>1, <1>2, <2>1
  <2>3. B(u) + l \in 1..B(M + 1) /\ B(u) < B(u) + l /\ B(u) + l <= B(u + 1)
    BY <1>7, <2>2
  <2>4. UnitOf(B(u) + l) = u
    BY <1>8, <2>1, <2>3
  <2>5. LocalOf(B(u) + l) = (B(u) + l) - B(u)
    BY <1>6, <2>4
  <2> QED
    BY <2>2, <2>3, <2>4, <2>5
<1> QED
  BY <1>3, <1>7, <1>9, <1>10 DEF M, B

(***************************************************************************)
(* Every EDU of the document belongs to one unit.                          *)
(***************************************************************************)
LEMMA EdusFacts ==
    ASSUME Ready, NEW e \in 1..EdusBefore(UnitCount + 1)
    PROVE  \E u \in 1..UnitCount : /\ EdusBefore(u) < e /\ e <= EdusBefore(u + 1)
                                   /\ \A v \in 1..UnitCount : EdusBefore(v) < e /\ e <= EdusBefore(v + 1) => v = u
<1> DEFINE L == Len(results)
           M == UnitCount
           B(u) == EdusBefore(u)
<1>1. /\ L \in Nat /\ M \in Nat \ {0} /\ M <= L /\ LeafCount \in Seq(Nat) /\ Len(LeafCount) = L
  BY CountsFacts DEF Ready
<1>2. /\ \A u \in 1..(L + 1) : B(u) \in Nat
      /\ \A u, v \in 1..(L + 1) : u <= v => B(u) <= B(v)
  BY OffsetFacts
<1>3. \A u : Totals(LeafCount)[u - 1] = B(u)
  BY DEF EdusBefore
<1>4. \A u \in 1..L : Totals(LeafCount)[u] = B(u + 1)
  <2> TAKE u \in 1..L
  <2>1. (u + 1) - 1 = u
    BY <1>1
  <2> QED
    BY <1>3, <2>1
<1>5. e \in 1..B(M + 1)
  OBVIOUS
<1>6. B(M + 1) \in Nat /\ B(L + 1) \in Nat /\ B(M + 1) <= B(L + 1) /\ Totals(LeafCount)[L] = B(L + 1)
  <2>1. M + 1 \in 1..(L + 1) /\ L + 1 \in 1..(L + 1) /\ M + 1 <= L + 1 /\ L \in 1..L
    BY <1>1
  <2> QED
    BY <1>2, <1>4, <2>1
<1> DEFINE u == EntryOf(LeafCount, e)
<1>7. /\ u \in 1..L /\ B(u) < e /\ e <= B(u + 1)
      /\ \A v \in 1..L : B(v) < e /\ e <= B(v + 1) => v = u
  <2>1. e \in 1..Totals(LeafCount)[Len(LeafCount)]
    BY <1>1, <1>5, <1>6
  <2>2. /\ u \in 1..L
        /\ Totals(LeafCount)[u - 1] < e /\ e <= Totals(LeafCount)[u]
        /\ \A v \in 1..L : Totals(LeafCount)[v - 1] < e /\ e <= Totals(LeafCount)[v] => v = u
    BY <1>1, <2>1, EntryFacts
  <2> HIDE DEF B, u
  <2> QED
    BY <1>3, <1>4, <2>2
<1> HIDE DEF L, M, B, u
<1>8. u <= M
  <2> SUFFICES ASSUME ~(u <= M) PROVE FALSE
    OBVIOUS
  <2>1. M + 1 <= u /\ M + 1 \in 1..(L + 1) /\ u \in 1..(L + 1)
    BY <1>1, <1>7
  <2>2. B(M + 1) <= B(u) /\ B(u) \in Nat
    BY <1>2, <2>1
  <2> QED
    BY <1>5, <1>6, <1>7, <2>2
<1>9. u \in 1..M /\ \A v \in 1..M : v \in 1..L
  BY <1>1, <1>7, <1>8
<1> QED
  BY <1>7, <1>9 DEF M, B

(***************************************************************************)
(* What the shifted trees have at a number.                                *)
(***************************************************************************)
LEMMA AllFacts ==
    ASSUME Ready, NEW i \in 1..UnitsEnd, NEW u, NEW l, u = UnitOf(i), l = LocalOf(i)
    PROVE  /\ AllSpans[i] = <<results[u].span[l][1] + EdusBefore(u), results[u].span[l][2] + EdusBefore(u)>>
           /\ AllParents[i] = IF results[u].parent[l] = 0 THEN 0 ELSE results[u].parent[l] + NodesBefore(u)
           /\ AllSplits[i] = results[u].split[l] + EdusBefore(u)
<1>1. u \in 1..UnitCount /\ l \in 1..Len(results[u].span)
  BY NumbersFacts
<1>2. l \in DOMAIN results[u].span
  <2>1. u \in DOMAIN results
    BY <1>1, CountsFacts, LenProperties DEF Ready
  <2>2. results[u] \in Trees
    BY <2>1, ElementOfSeq, LenProperties DEF Ready
  <2>3. results[u].span \in Seq(Spans)
    BY <2>2 DEF Trees
  <2> QED
    BY <1>1, <2>3, LenProperties
<1> DEFINE t == results[u]
           n == EdusBefore(u)
           b == NodesBefore(u)
<1>3. Shifted(u) = [span |-> [k \in DOMAIN t.span |-> <<t.span[k][1] + n, t.span[k][2] + n>>],
                    parent |-> [k \in DOMAIN t.span |-> IF t.parent[k] = 0 THEN 0 ELSE t.parent[k] + b],
                    split |-> [k \in DOMAIN t.span |-> t.split[k] + n]]
  BY DEF Shifted
<1>4. /\ AllSpans[i] = Shifted(u).span[l] /\ AllParents[i] = Shifted(u).parent[l]
      /\ AllSplits[i] = Shifted(u).split[l]
  BY DEF AllSpans, AllParents, AllSplits
<1> HIDE DEF t, n, b
<1>5. l \in DOMAIN t.span
  BY <1>2 DEF t
<1>6. /\ Shifted(u).span[l] = <<t.span[l][1] + n, t.span[l][2] + n>>
      /\ Shifted(u).parent[l] = IF t.parent[l] = 0 THEN 0 ELSE t.parent[l] + b
      /\ Shifted(u).split[l] = t.split[l] + n
  BY <1>3, <1>5
<1> QED
  BY <1>4, <1>6 DEF t, n, b

(***************************************************************************)
(* What is known of the node at a number.                                  *)
(***************************************************************************)
LEMMA NodeAt ==
    ASSUME Ready, NEW i \in 1..UnitsEnd, NEW u, NEW l, u = UnitOf(i), l = LocalOf(i)
    PROVE  /\ u \in 1..UnitCount /\ u \in 1..Len(results) /\ l \in 1..Len(results[u].span) /\ i = NodesBefore(u) + l
           /\ LeafCount[u] \in Nat \ {0} /\ Binary(results[u], LeafCount[u])
           /\ NodesBefore(u) \in Nat /\ EdusBefore(u) \in Nat
           /\ EdusBefore(u + 1) = EdusBefore(u) + LeafCount[u]
<1>1. u \in 1..UnitCount /\ l \in 1..Len(results[u].span) /\ i = NodesBefore(u) + l
  BY NumbersFacts
<1>2. u \in 1..Len(results) /\ u \in 1..(Len(results) + 1)
  BY <1>1, CountsFacts DEF Ready
<1>3. LeafCount[u] \in Nat \ {0} /\ Binary(results[u], LeafCount[u])
  BY <1>2, CountsFacts
<1>4. NodesBefore(u) \in Nat /\ EdusBefore(u) \in Nat /\ EdusBefore(u + 1) = EdusBefore(u) + LeafCount[u]
  BY <1>2, OffsetFacts
<1> QED
  BY <1>1, <1>2, <1>3, <1>4

(***************************************************************************)
(* Its parent is a node of the same unit or, if it is the unit's root,     *)
(* there is none.                                                          *)
(***************************************************************************)
LEMMA ParentAt ==
    ASSUME Ready, NEW j \in 1..UnitsEnd
    PROVE  IF results[UnitOf(j)].parent[LocalOf(j)] = 0
             THEN AllParents[j] = 0
             ELSE /\ AllParents[j] \in 1..UnitsEnd /\ UnitOf(AllParents[j]) = UnitOf(j)
                  /\ LocalOf(AllParents[j]) = results[UnitOf(j)].parent[LocalOf(j)]
<1> DEFINE v == UnitOf(j)
           m == LocalOf(j)
           t == results[v]
           b == NodesBefore(v)
<1>1. v \in 1..UnitCount /\ m \in 1..Len(t.span) /\ LeafCount[v] \in Nat \ {0} /\ Binary(t, LeafCount[v])
  BY NodeAt
<1>2. AllParents[j] = IF t.parent[m] = 0 THEN 0 ELSE t.parent[m] + b
  BY AllFacts
<1>3. b \in Nat
  BY NodeAt
<1> HIDE DEF t, b, v, m
<1>4. t.parent[m] \in 0..Len(t.span) /\ Len(t.span) \in Nat
  BY <1>1, BinaryFacts
<1>5. ASSUME NEW p \in 1..Len(t.span) PROVE b + p \in 1..UnitsEnd /\ UnitOf(b + p) = v /\ LocalOf(b + p) = p
  BY <1>1, NumbersFacts DEF t, b
<1>6. CASE t.parent[m] # 0
  <2>1. t.parent[m] \in 1..Len(t.span) /\ AllParents[j] = b + t.parent[m]
    BY <1>2, <1>3, <1>4, <1>6
  <2> QED
    BY <1>5, <1>6, <2>1 DEF t, b, v, m
<1>7. CASE t.parent[m] = 0
  BY <1>2, <1>7 DEF t, b, v, m
<1> QED
  BY <1>6, <1>7

\* A tree over more nodes, of which those of the units are the first.
Carries(t) ==
    /\ \E end \in Nat : DOMAIN t.span = 1..end /\ UnitsEnd <= end
    /\ \A i \in 1..UnitsEnd : t.span[i] = AllSpans[i] /\ ChildrenOf(t, i) = {j \in 1..UnitsEnd : AllParents[j] = i}

(***************************************************************************)
(* In it, what is below a node of a unit is what was below it in the       *)
(* unit's tree.                                                            *)
(***************************************************************************)
LEMMA PartChildren ==
    ASSUME Ready, NEW T, Carries(T), NEW i \in 1..UnitsEnd
    PROVE  /\ \A m \in ChildrenOf(results[UnitOf(i)], LocalOf(i)) : NodesBefore(UnitOf(i)) + m \in ChildrenOf(T, i)
           /\ \A j \in ChildrenOf(T, i) : /\ UnitOf(j) = UnitOf(i) /\ j \in 1..UnitsEnd
                                          /\ LocalOf(j) \in ChildrenOf(results[UnitOf(i)], LocalOf(i))
<1> DEFINE u == UnitOf(i)
           l == LocalOf(i)
           t == results[u]
           b == NodesBefore(u)
<1>1. ChildrenOf(T, i) = {j \in 1..UnitsEnd : AllParents[j] = i}
  BY DEF Carries
<1>2. u \in 1..UnitCount /\ l \in 1..Len(t.span) /\ Binary(t, LeafCount[u]) /\ LeafCount[u] \in Nat \ {0} /\ i = b + l /\ b \in Nat
  BY NodeAt
<1>3. DOMAIN t.span = 1..Len(t.span)
  BY <1>2, BinaryFacts
<1>4. ASSUME NEW m \in ChildrenOf(t, l) PROVE b + m \in ChildrenOf(T, i)
  <2>1. m \in 1..Len(t.span) /\ t.parent[m] = l /\ l # 0
    BY <1>2, <1>3 DEF ChildrenOf
  <2>2. b + m \in 1..UnitsEnd /\ UnitOf(b + m) = u /\ LocalOf(b + m) = m
    BY <1>2, <2>1, NumbersFacts
  <2>3. AllParents[b + m] = t.parent[m] + b
    <3> HIDE DEF l
    <3>1. AllParents[b + m] = IF t.parent[m] = 0 THEN 0 ELSE t.parent[m] + b
      BY <2>2, AllFacts
    <3> QED
      BY <2>1, <3>1
  <2>4. AllParents[b + m] = i
    BY <1>2, <2>1, <2>3
  <2> QED
    BY <1>1, <2>2, <2>4
<1>5. ASSUME NEW j \in ChildrenOf(T, i) PROVE UnitOf(j) = u /\ j \in 1..UnitsEnd /\ LocalOf(j) \in ChildrenOf(t, l)
  <2>1. j \in 1..UnitsEnd /\ AllParents[j] = i /\ AllParents[j] # 0
    BY <1>1
  <2>2. results[UnitOf(j)].parent[LocalOf(j)] # 0
    BY <2>1, ParentAt
  <2>3. UnitOf(j) = u /\ results[UnitOf(j)].parent[LocalOf(j)] = l
    BY <2>1, <2>2, ParentAt
  <2>4. LocalOf(j) \in 1..Len(results[UnitOf(j)].span)
    BY <2>1, NodeAt
  <2> QED
    BY <1>3, <2>1, <2>3, <2>4 DEF ChildrenOf
<1> QED
  BY <1>4, <1>5

(***************************************************************************)
(* So the children of a node of a unit still partition its span, and its   *)
(* decision still names its left child's last EDU.                         *)
(***************************************************************************)
LEMMA PartDivided ==
    ASSUME Ready, NEW T, Carries(T), NEW i \in 1..UnitsEnd
    PROVE  Divided(T, i) /\ (T.split[i] = AllSplits[i] => SplitsNamed(T, i))
<1> DEFINE u == UnitOf(i)
           l == LocalOf(i)
           t == results[u]
           b == NodesBefore(u)
           n == EdusBefore(u)
           c == ChildrenOf(t, l)
           C == ChildrenOf(T, i)
<1>1. /\ u \in 1..UnitCount /\ l \in 1..Len(t.span) /\ Binary(t, LeafCount[u]) /\ LeafCount[u] \in Nat \ {0}
      /\ b \in Nat /\ n \in Nat
  BY NodeAt
<1>2. c \subseteq 1..Len(t.span)
  BY <1>1, BinaryFacts DEF ChildrenOf
<1>3. (\A m \in c : b + m \in C) /\ \A j \in C : UnitOf(j) = u /\ LocalOf(j) \in c /\ j \in 1..UnitsEnd
  BY PartChildren
<1>4. ASSUME NEW m \in 1..Len(t.span)
      PROVE  /\ b + m \in 1..UnitsEnd /\ UnitOf(b + m) = u /\ LocalOf(b + m) = m
             /\ m \in Nat
             /\ t.span[m][1] \in Nat /\ t.span[m][2] \in Nat /\ t.split[m] \in Nat
             /\ t.span[m][1] >= 1 /\ t.span[m][2] >= 1
  <2>1. b + m \in 1..UnitsEnd /\ UnitOf(b + m) = u /\ LocalOf(b + m) = m
    BY <1>1, NumbersFacts
  <2>2. /\ t.span[m][1] \in 1..LeafCount[u] /\ t.span[m][2] \in 1..LeafCount[u] /\ t.split[m] \in Nat
    BY <1>1, BinaryFacts
  <2>3. \A x \in 1..LeafCount[u] : x \in Nat /\ x >= 1
    BY <1>1
  <2>4. m \in Nat
    OBVIOUS
  <2> QED
    BY <2>1, <2>2, <2>3, <2>4, Zenon
<1>5. ASSUME NEW j \in 1..UnitsEnd, UnitOf(j) = u
      PROVE  /\ T.span[j][1] = t.span[LocalOf(j)][1] + n /\ T.span[j][2] = t.span[LocalOf(j)][2] + n
             /\ j = b + LocalOf(j)
  <2>1. T.span[j] = <<t.span[LocalOf(j)][1] + n, t.span[LocalOf(j)][2] + n>>
    BY <1>5, AllFacts DEF Carries
  <2>2. j = b + LocalOf(j)
    BY <1>5, NumbersFacts
  <2> QED
    BY <2>1, <2>2
<1>6. AllSplits[i] = t.split[l] + n
  BY AllFacts
<1>7. Divided(t, l) /\ SplitsNamed(t, l)
  BY <1>1, BinaryFacts
<1>8. T.span[i][1] = t.span[l][1] + n /\ T.span[i][2] = t.span[l][2] + n
  BY <1>5
<1> HIDE DEF u, l, t, b, n
<1>9. \A j \in C : /\ LocalOf(j) \in c /\ j = b + LocalOf(j) /\ LocalOf(j) \in 1..Len(t.span)
                   /\ T.span[j][1] = t.span[LocalOf(j)][1] + n /\ T.span[j][2] = t.span[LocalOf(j)][2] + n
  BY <1>2, <1>3, <1>5
<1>10. \A m \in c : /\ b + m \in C /\ LocalOf(b + m) = m /\ m \in Nat
                    /\ T.span[b + m][1] = t.span[m][1] + n /\ T.span[b + m][2] = t.span[m][2] + n
  BY <1>2, <1>3, <1>4, <1>5
<1>11. C = {} <=> c = {}
  BY <1>9, <1>10
<1>12. Divided(T, i)
  <2>1. CASE c = {}
    <3>1. t.span[l][1] = t.span[l][2]
      BY <1>7, <2>1 DEF Divided
    <3> QED
      BY <1>8, <1>11, <2>1, <3>1 DEF Divided
  <2>2. CASE c # {}
    <3>1. /\ \E j, k \in c : j # k
          /\ \A j \in c : t.span[l][1] <= t.span[j][1] /\ t.span[j][1] <= t.span[j][2] /\ t.span[j][2] <= t.span[l][2]
          /\ \A e \in t.span[l][1]..t.span[l][2] : OneOf({j \in c : t.span[j][1] <= e /\ e <= t.span[j][2]})
      BY <1>7, <2>2 DEF Divided
    <3>2. \E j, k \in C : j # k
      <4>1. PICK j \in c, k \in c : j # k
        BY <3>1
      <4>2. b + j \in C /\ b + k \in C /\ b + j # b + k
        BY <1>1, <1>10, <4>1
      <4> QED
        BY <4>2
    <3>3. ASSUME NEW j \in C
          PROVE  T.span[i][1] <= T.span[j][1] /\ T.span[j][1] <= T.span[j][2] /\ T.span[j][2] <= T.span[i][2]
      <4> DEFINE m == LocalOf(j)
      <4>1. m \in c /\ m \in 1..Len(t.span) /\ T.span[j][1] = t.span[m][1] + n /\ T.span[j][2] = t.span[m][2] + n
        BY <1>9
      <4> HIDE DEF m
      <4>2. t.span[l][1] <= t.span[m][1] /\ t.span[m][1] <= t.span[m][2] /\ t.span[m][2] <= t.span[l][2]
        BY <3>1, <4>1
      <4>3. t.span[m][1] \in Nat /\ t.span[m][2] \in Nat /\ t.span[l][1] \in Nat /\ t.span[l][2] \in Nat
        BY <1>1, <1>4, <4>1
      <4>4. \A x, y \in Nat : x <= y => x + n <= y + n
        BY <1>1
      <4> QED
        BY <1>8, <4>1, <4>2, <4>3, <4>4, Zenon
    <3>4. ASSUME NEW e \in T.span[i][1]..T.span[i][2] PROVE OneOf({j \in C : T.span[j][1] <= e /\ e <= T.span[j][2]})
      <4>1. t.span[l][1] \in Nat /\ t.span[l][2] \in Nat
        BY <1>1, <1>4
      <4>2. e \in (t.span[l][1] + n)..(t.span[l][2] + n)
        BY <1>8
      <4>3. e - n \in t.span[l][1]..t.span[l][2] /\ e \in Int
        BY <1>1, <4>1, <4>2
      <4>4. PICK x : {j \in c : t.span[j][1] <= e - n /\ e - n <= t.span[j][2]} = {x}
        BY <3>1, <4>3 DEF OneOf
      <4>5. ASSUME NEW m \in c PROVE (t.span[m][1] <= e - n /\ e - n <= t.span[m][2]) <=> (t.span[m][1] + n <= e /\ e <= t.span[m][2] + n)
        <5>1. t.span[m][1] \in Nat /\ t.span[m][2] \in Nat
          BY <1>2, <1>4
        <5>2. \A a, z \in Nat : (a <= e - n /\ e - n <= z) <=> (a + n <= e /\ e <= z + n)
          BY <1>1, <4>3
        <5> QED
          BY <5>1, <5>2, Zenon
      <4>6. x \in c /\ t.span[x][1] <= e - n /\ e - n <= t.span[x][2]
        BY <4>4
      <4>7. b + x \in C /\ T.span[b + x][1] <= e /\ e <= T.span[b + x][2]
        BY <1>10, <4>5, <4>6
      <4>8. ASSUME NEW j \in C, T.span[j][1] <= e, e <= T.span[j][2] PROVE j = b + x
        <5>1. LocalOf(j) \in c /\ j = b + LocalOf(j) /\ t.span[LocalOf(j)][1] + n <= e /\ e <= t.span[LocalOf(j)][2] + n
          BY <1>9, <4>8
        <5>2. LocalOf(j) = x
          BY <4>4, <4>5, <5>1
        <5> QED
          BY <5>1, <5>2
      <4>9. {j \in C : T.span[j][1] <= e /\ e <= T.span[j][2]} = {b + x}
        BY <4>7, <4>8
      <4> QED
        BY <4>9 DEF OneOf
    <3> QED
      BY <1>11, <2>2, <3>2, <3>3, <3>4 DEF Divided
  <2> QED
    BY <2>1, <2>2
<1>13. ASSUME T.split[i] = AllSplits[i] PROVE SplitsNamed(T, i)
  <2> SUFFICES ASSUME NEW j \in C, T.span[j][1] = T.span[i][1] PROVE T.split[i] = T.span[j][2] - 1
    BY DEF SplitsNamed
  <2> DEFINE m == LocalOf(j)
  <2>1. m \in c /\ m \in 1..Len(t.span) /\ T.span[j][1] = t.span[m][1] + n /\ T.span[j][2] = t.span[m][2] + n
    BY <1>9
  <2> HIDE DEF m
  <2>2. t.span[m][1] \in Nat /\ t.span[m][2] \in Nat /\ t.span[l][1] \in Nat
    BY <1>1, <1>4, <2>1
  <2>3. t.span[m][1] = t.span[l][1]
    <3>1. \A x, y \in Nat : x + n = y + n => x = y
      BY <1>1
    <3> QED
      BY <1>8, <1>13, <2>1, <2>2, <3>1, Zenon
  <2>4. t.split[l] = t.span[m][2] - 1
    BY <1>7, <2>1, <2>3 DEF SplitsNamed
  <2> QED
    BY <1>1, <1>6, <1>13, <2>1, <2>2, <2>4
<1> QED
  BY <1>12, <1>13

(***************************************************************************)
(* The root of a unit's tree, in the numbers of the document, is over all  *)
(* EDUs of the unit.                                                       *)
(***************************************************************************)
LEMMA RootAt ==
    ASSUME Ready, NEW u \in 1..UnitCount
    PROVE  /\ UnitRoot(u) \in 1..UnitsEnd /\ UnitOf(UnitRoot(u)) = u /\ AllParents[UnitRoot(u)] = 0
           /\ AllSpans[UnitRoot(u)] = <<EdusBefore(u) + 1, EdusBefore(u + 1)>>
           /\ \A i \in 1..UnitsEnd : UnitOf(i) = u /\ AllParents[i] = 0 => i = UnitRoot(u)
<1> DEFINE t == results[u]
           b == NodesBefore(u)
           n == EdusBefore(u)
           k == LeafCount[u]
           r == CHOOSE i \in DOMAIN t.span : t.parent[i] = 0
<1>1. u \in 1..Len(results) /\ u \in 1..(Len(results) + 1)
  BY CountsFacts DEF Ready
<1>2. k \in Nat \ {0} /\ Binary(t, k)
  BY <1>1, CountsFacts
<1>3. b \in Nat /\ n \in Nat /\ EdusBefore(u + 1) = n + k
  BY <1>1, OffsetFacts
<1>4. \A l \in 1..Len(t.span) : b + l \in 1..UnitsEnd /\ UnitOf(b + l) = u /\ LocalOf(b + l) = l
  BY NumbersFacts
<1>5. UnitRoot(u) = b + r
  BY DEF UnitRoot
<1>6. ASSUME NEW i \in 1..UnitsEnd, UnitOf(i) = u
      PROVE  /\ LocalOf(i) \in 1..Len(t.span) /\ i = b + LocalOf(i)
             /\ AllSpans[i] = <<t.span[LocalOf(i)][1] + n, t.span[LocalOf(i)][2] + n>>
             /\ AllParents[i] = IF t.parent[LocalOf(i)] = 0 THEN 0 ELSE t.parent[LocalOf(i)] + b
  BY <1>6, NumbersFacts, AllFacts
<1> HIDE DEF t, b, n, k
<1>7. PICK s \in DOMAIN t.span : t.parent[s] = 0 /\ t.span[s] = <<1, k>> /\ \A i \in DOMAIN t.span : t.parent[i] = 0 => i = s
  BY <1>2, BinaryRoot
<1>8. DOMAIN t.span = 1..Len(t.span) /\ \A i \in 1..Len(t.span) : t.parent[i] \in Nat
  <2>1. DOMAIN t.span = 1..Len(t.span) /\ Len(t.span) \in Nat /\ \A i \in 1..Len(t.span) : t.parent[i] \in 0..Len(t.span)
    BY <1>2, BinaryFacts
  <2> QED
    BY <2>1
<1>9. r = s
  BY <1>7
<1> HIDE DEF r
<1>10. UnitRoot(u) \in 1..UnitsEnd /\ UnitOf(UnitRoot(u)) = u /\ LocalOf(UnitRoot(u)) = s
  BY <1>4, <1>5, <1>7, <1>8, <1>9
<1>11. t.span[s][1] = 1 /\ t.span[s][2] = k
  BY <1>7
<1>12. AllSpans[UnitRoot(u)] = <<n + 1, EdusBefore(u + 1)>>
  <2>1. AllSpans[UnitRoot(u)] = <<1 + n, k + n>>
    BY <1>6, <1>10, <1>11
  <2>2. 1 + n = n + 1 /\ k + n = n + k
    BY <1>2, <1>3
  <2> QED
    BY <1>3, <2>1, <2>2
<1>13. AllParents[UnitRoot(u)] = 0
  BY <1>6, <1>7, <1>10
<1>14. ASSUME NEW i \in 1..UnitsEnd, UnitOf(i) = u, AllParents[i] = 0 PROVE i = UnitRoot(u)
  <2>1. LocalOf(i) \in 1..Len(t.span) /\ i = b + LocalOf(i)
    BY <1>6, <1>14
  <2>2. t.parent[LocalOf(i)] = 0
    <3> SUFFICES ASSUME t.parent[LocalOf(i)] # 0 PROVE FALSE
      OBVIOUS
    <3>1. 0 = t.parent[LocalOf(i)] + b
      BY <1>6, <1>14
    <3>2. t.parent[LocalOf(i)] \in Nat
      BY <1>8, <2>1
    <3> QED
      BY <1>3, <3>1, <3>2
  <2> QED
    BY <1>5, <1>7, <1>8, <1>9, <2>1, <2>2
<1> QED
  BY <1>10, <1>12, <1>13, <1>14 DEF n

(***************************************************************************)
(* The spans of a unit's nodes lie within its EDUs, of which it has some.  *)
(***************************************************************************)
LEMMA SpanAt ==
    ASSUME Ready, NEW i \in 1..UnitsEnd
    PROVE  /\ AllSpans[i] = <<AllSpans[i][1], AllSpans[i][2]>>
           /\ AllSpans[i][1] \in Nat /\ AllSpans[i][2] \in Nat /\ AllSpans[i][1] <= AllSpans[i][2]
           /\ EdusBefore(UnitOf(i)) < AllSpans[i][1] /\ AllSpans[i][2] <= EdusBefore(UnitOf(i) + 1)
<1> DEFINE u == UnitOf(i)
           l == LocalOf(i)
           t == results[u]
           n == EdusBefore(u)
           k == LeafCount[u]
<1>1. /\ l \in 1..Len(t.span) /\ k \in Nat \ {0} /\ Binary(t, k) /\ n \in Nat
      /\ EdusBefore(u + 1) = n + k
  BY NodeAt
<1>2. AllSpans[i] = <<t.span[l][1] + n, t.span[l][2] + n>>
  BY AllFacts
<1> HIDE DEF u, l, t, n, k
<1>3. t.span[l][1] \in 1..k /\ t.span[l][2] \in 1..k /\ t.span[l][1] <= t.span[l][2]
  BY <1>1, BinaryFacts
<1>4. \A x, y \in 1..k : x <= y => /\ x + n \in Nat /\ y + n \in Nat /\ x + n <= y + n
                                   /\ n < x + n /\ y + n <= n + k
  BY <1>1
<1>5. /\ t.span[l][1] + n \in Nat /\ t.span[l][2] + n \in Nat /\ t.span[l][1] + n <= t.span[l][2] + n
      /\ n < t.span[l][1] + n /\ t.span[l][2] + n <= n + k
  BY <1>3, <1>4, Zenon
<1>6. AllSpans[i][1] = t.span[l][1] + n /\ AllSpans[i][2] = t.span[l][2] + n
  BY <1>2
<1> QED
  BY <1>1, <1>2, <1>5, <1>6, Zenon DEF n, u

(***************************************************************************)
(* Each EDU of the document has one leaf among the units' nodes.           *)
(***************************************************************************)
LEMMA PartLeaves ==
    ASSUME Ready, NEW e \in 1..EdusBefore(UnitCount + 1)
    PROVE  \E i \in 1..UnitsEnd : AllSpans[i] = <<e, e>> /\ \A j \in 1..UnitsEnd : AllSpans[j] = <<e, e>> => j = i
<1>1. PICK u \in 1..UnitCount : /\ EdusBefore(u) < e /\ e <= EdusBefore(u + 1)
                                /\ \A v \in 1..UnitCount : EdusBefore(v) < e /\ e <= EdusBefore(v + 1) => v = u
  BY EdusFacts
<1> DEFINE t == results[u]
           b == NodesBefore(u)
           n == EdusBefore(u)
           k == LeafCount[u]
<1>2. u \in 1..Len(results) /\ u \in 1..(Len(results) + 1) /\ UnitCount + 1 \in 1..(Len(results) + 1)
  BY CountsFacts DEF Ready
<1>3. k \in Nat \ {0} /\ Binary(t, k) /\ b \in Nat /\ n \in Nat /\ EdusBefore(u + 1) = n + k
  BY <1>2, CountsFacts, OffsetFacts
<1>4. e \in Nat
  <2>1. EdusBefore(UnitCount + 1) \in Nat
    BY <1>2, OffsetFacts
  <2> QED
    BY <2>1
<1>5. \A l \in 1..Len(t.span) : b + l \in 1..UnitsEnd /\ UnitOf(b + l) = u /\ LocalOf(b + l) = l
  BY NumbersFacts
<1>6. ASSUME NEW i \in 1..UnitsEnd, UnitOf(i) = u
      PROVE  /\ LocalOf(i) \in 1..Len(t.span) /\ i = b + LocalOf(i)
             /\ AllSpans[i] = <<t.span[LocalOf(i)][1] + n, t.span[LocalOf(i)][2] + n>>
  BY <1>6, NumbersFacts, AllFacts
<1>7. n < e /\ e <= n + k
  BY <1>1, <1>3
<1> HIDE DEF t, b, n, k
<1>8. e - n \in 1..k
  BY <1>3, <1>4, <1>7
<1>9. PICK l \in DOMAIN t.span : t.span[l] = <<e - n, e - n>> /\ \A j \in DOMAIN t.span : t.span[j] = <<e - n, e - n>> => j = l
  BY <1>3, <1>8, BinaryLeaf
<1>10. DOMAIN t.span = 1..Len(t.span)
  BY <1>3, BinaryFacts
<1>11. b + l \in 1..UnitsEnd /\ UnitOf(b + l) = u /\ LocalOf(b + l) = l
  BY <1>5, <1>9, <1>10
<1>12. AllSpans[b + l] = <<e, e>>
  <2>1. AllSpans[b + l] = <<t.span[l][1] + n, t.span[l][2] + n>>
    BY <1>6, <1>11
  <2>2. t.span[l][1] = e - n /\ t.span[l][2] = e - n /\ (e - n) + n = e
    BY <1>3, <1>4, <1>9
  <2> QED
    BY <2>1, <2>2
<1>13. ASSUME NEW j \in 1..UnitsEnd, AllSpans[j] = <<e, e>> PROVE j = b + l
  <2>1. AllSpans[j][1] = e /\ AllSpans[j][2] = e
    BY <1>13
  <2>2. UnitOf(j) \in 1..UnitCount /\ EdusBefore(UnitOf(j)) < e /\ e <= EdusBefore(UnitOf(j) + 1)
    BY <2>1, SpanAt, NumbersFacts
  <2>3. UnitOf(j) = u
    BY <1>1, <2>2
  <2> DEFINE m == LocalOf(j)
  <2>4. m \in 1..Len(t.span) /\ j = b + m /\ <<e, e>> = <<t.span[m][1] + n, t.span[m][2] + n>>
    BY <1>6, <1>13, <2>3
  <2> HIDE DEF m
  <2>5. /\ t.span[m] = <<t.span[m][1], t.span[m][2]>> /\ t.span[m][1] \in 1..k /\ t.span[m][2] \in 1..k
    BY <1>3, <2>4, BinaryFacts
  <2>6. t.span[m][1] + n = e /\ t.span[m][2] + n = e
    BY <2>4
  <2>7. \A x \in 1..k : x + n = e => x = e - n
    BY <1>3, <1>4
  <2>8. t.span[m][1] = e - n /\ t.span[m][2] = e - n
    BY <2>5, <2>6, <2>7, Zenon
  <2>9. t.span[m] = <<e - n, e - n>>
    BY <2>5, <2>8
  <2> QED
    BY <1>9, <1>10, <2>4, <2>9
<1> QED
  BY <1>11, <1>12, <1>13

(***************************************************************************)
(* What units a to b have of the document's EDUs: at least one, and more   *)
(* than one if they are several.                                           *)
(***************************************************************************)
LEMMA UnitEdus ==
    ASSUME Ready, NEW a \in 1..UnitCount, NEW b \in 1..UnitCount, a <= b
    PROVE  /\ EdusBefore(a) \in Nat /\ EdusBefore(b + 1) \in Nat /\ EdusBefore(a) + 1 <= EdusBefore(b + 1)
           /\ a # b => EdusBefore(a) + 1 # EdusBefore(b + 1)
<1> DEFINE L == Len(results)
           B(u) == EdusBefore(u)
<1>1. L \in Nat /\ UnitCount \in Nat /\ UnitCount <= L
  BY CountsFacts DEF Ready
<1>2. /\ a \in 1..L /\ b \in 1..L /\ a + 1 \in 1..(L + 1) /\ a \in 1..(L + 1) /\ b \in 1..(L + 1) /\ b + 1 \in 1..(L + 1)
      /\ a # b => a + 1 <= b
  BY <1>1
<1>3. LeafCount[a] \in Nat \ {0} /\ LeafCount[b] \in Nat \ {0}
  BY <1>2, CountsFacts
<1>4. /\ B(a) \in Nat /\ B(b) \in Nat /\ B(b + 1) \in Nat /\ B(a + 1) \in Nat
      /\ B(a + 1) = B(a) + LeafCount[a] /\ B(b + 1) = B(b) + LeafCount[b] /\ B(a) <= B(b)
      /\ a # b => B(a + 1) <= B(b)
  BY <1>2, OffsetFacts
<1> HIDE DEF B
<1>5. B(a) + 1 <= B(b + 1) /\ (a # b => B(a) + 1 # B(b + 1))
  BY <1>3, <1>4
<1> QED
  BY <1>4, <1>5 DEF B

(***************************************************************************)
(* An EDU of unit u is among those of units a to b just if u is one of     *)
(* these units.                                                            *)
(***************************************************************************)
LEMMA UnitWithin ==
    ASSUME Ready, NEW u \in 1..UnitCount, NEW a \in 1..UnitCount, NEW b \in 1..UnitCount,
           NEW e \in Nat, EdusBefore(u) < e, e <= EdusBefore(u + 1)
    PROVE  (EdusBefore(a) + 1 <= e <=> a <= u) /\ (e <= EdusBefore(b + 1) <=> u <= b)
<1> DEFINE L == Len(results)
           B(v) == EdusBefore(v)
<1>1. L \in Nat /\ UnitCount \in Nat /\ UnitCount <= L
  BY CountsFacts DEF Ready
<1>2. /\ a \in 1..(L + 1) /\ u \in 1..(L + 1) /\ u + 1 \in 1..(L + 1) /\ b + 1 \in 1..(L + 1)
      /\ u <= b => u + 1 <= b + 1
      /\ ~(a <= u) => u + 1 <= a
      /\ ~(u <= b) => b + 1 <= u
  BY <1>1
<1>3. /\ B(a) \in Nat /\ B(u) \in Nat /\ B(u + 1) \in Nat /\ B(b + 1) \in Nat
      /\ a <= u => B(a) <= B(u)
      /\ u + 1 <= b + 1 => B(u + 1) <= B(b + 1)
      /\ u + 1 <= a => B(u + 1) <= B(a)
      /\ b + 1 <= u => B(b + 1) <= B(u)
  BY <1>2, OffsetFacts
<1>4. B(u) < e /\ e <= B(u + 1)
  OBVIOUS
<1> HIDE DEF B
<1>5. B(a) + 1 <= e <=> a <= u
  BY <1>2, <1>3, <1>4
<1>6. e <= B(b + 1) <=> u <= b
  BY <1>2, <1>3, <1>4
<1> QED
  BY <1>5, <1>6 DEF B

(***************************************************************************)
(* Recombination gives one tree over all units.                            *)
(***************************************************************************)
LEMMA RecombinedIsWhole ==
    ASSUME Ready, ~hierarchical, UnitCount > 1
    PROVE  WholeTree(Recombined)
<1> DEFINE R == Recombined
           top == UnitsEnd + 1
           E == EdusBefore(UnitCount + 1)
<1>1. UnitsEnd \in Nat /\ UnitCount \in Nat \ {0} /\ \A i \in 1..UnitsEnd : AllParents[i] \in 0..UnitsEnd
  <2>1. \A i \in 1..UnitsEnd : AllParents[i] = 0 \/ AllParents[i] \in 1..UnitsEnd
    BY ParentAt
  <2> QED
    BY <2>1, NumbersFacts DEF Ready
<1>2. R = [span |-> [i \in 1..top |-> IF i = top THEN <<1, E>> ELSE AllSpans[i]],
           parent |-> [i \in 1..top |-> IF i = top THEN 0 ELSE IF AllParents[i] = 0 THEN top ELSE AllParents[i]],
           split |-> [i \in 1..top |-> IF i = top THEN 0 ELSE AllSplits[i]]]
  BY DEF Recombined
<1> HIDE DEF R, E
<1>3. \A i \in 1..top : i = top \/ i \in 1..UnitsEnd
  BY <1>1
<1>4. \A i \in 1..UnitsEnd : i \in 1..top /\ i # top /\ i # 0
  BY <1>1
<1>4a. top \in 1..top /\ top # 0 /\ top \in Nat
  BY <1>1
<1> HIDE DEF top
<1>5. DOMAIN R.span = 1..top /\ R.span[top] = <<1, E>> /\ R.parent[top] = 0
  BY <1>2, <1>4a
<1>6. ASSUME NEW i \in 1..UnitsEnd
      PROVE  /\ i \in DOMAIN R.span /\ R.span[i] = AllSpans[i] /\ R.split[i] = AllSplits[i]
             /\ R.parent[i] = IF AllParents[i] = 0 THEN top ELSE AllParents[i]
  BY <1>2, <1>4
<1>7. Carries(R)
  <2>1. UnitsEnd <= top
    BY <1>1 DEF top
  <2>2. ASSUME NEW i \in 1..UnitsEnd PROVE ChildrenOf(R, i) = {j \in 1..UnitsEnd : AllParents[j] = i}
    BY <1>3, <1>4, <1>5, <1>6 DEF ChildrenOf
  <2> QED
    BY <1>4a, <1>5, <1>6, <2>1, <2>2 DEF Carries
<1>8. ChildrenOf(R, top) = {j \in 1..UnitsEnd : AllParents[j] = 0}
  BY <1>1, <1>3, <1>4, <1>4a, <1>5, <1>6 DEF ChildrenOf
<1>9. RootsOf(R) = {top}
  BY <1>1, <1>3, <1>4, <1>4a, <1>5, <1>6 DEF ChildrenOf, RootsOf
<1>10. \A u \in 1..UnitCount : /\ UnitRoot(u) \in ChildrenOf(R, top) /\ UnitOf(UnitRoot(u)) = u
                               /\ R.span[UnitRoot(u)] = <<EdusBefore(u) + 1, EdusBefore(u + 1)>>
  BY <1>6, <1>8, RootAt
<1>11. \A j \in ChildrenOf(R, top) : UnitOf(j) \in 1..UnitCount /\ j = UnitRoot(UnitOf(j))
  BY <1>8, RootAt, NumbersFacts
<1>12. 1 \in 1..UnitCount /\ 2 \in 1..UnitCount /\ UnitCount \in 1..UnitCount
  BY <1>1
<1>13. /\ E \in Nat /\ EdusBefore(1) = 0 /\ 1 # E
  <2>1. EdusBefore(1) = 0
    BY OffsetFacts
  <2>2. EdusBefore(UnitCount + 1) \in Nat /\ EdusBefore(1) + 1 # EdusBefore(UnitCount + 1)
    BY <1>1, <1>12, UnitEdus
  <2> QED
    BY <2>1, <2>2 DEF E
<1>14. ASSUME NEW u \in 1..UnitCount
       PROVE  EdusBefore(u) \in Nat /\ EdusBefore(u + 1) \in Nat /\ EdusBefore(u) + 1 <= EdusBefore(u + 1) /\ EdusBefore(u + 1) <= E
  <2>1. u \in Nat /\ u <= u /\ u <= UnitCount
    BY <1>1
  <2>2. EdusBefore(u) \in Nat /\ EdusBefore(u + 1) \in Nat /\ EdusBefore(u) + 1 <= EdusBefore(u + 1)
    BY <2>1, UnitEdus
  <2>3. Len(results) \in Nat /\ UnitCount <= Len(results)
    BY CountsFacts DEF Ready
  <2>4. u + 1 \in 1..(Len(results) + 1) /\ UnitCount + 1 \in 1..(Len(results) + 1) /\ u + 1 <= UnitCount + 1
    BY <1>1, <2>1, <2>3
  <2>5. EdusBefore(u + 1) <= EdusBefore(UnitCount + 1)
    BY <2>4, OffsetFacts
  <2> QED
    BY <2>2, <2>5 DEF E
<1>15. Divided(R, top)
  <2>1. ChildrenOf(R, top) # {}
    BY <1>10, <1>12
  <2>2. \E j, k \in ChildrenOf(R, top) : j # k
    <3>1. UnitRoot(1) # UnitRoot(2)
      BY <1>10, <1>12
    <3> QED
      BY <1>10, <1>12, <3>1
  <2>3. ASSUME NEW j \in ChildrenOf(R, top)
        PROVE  R.span[top][1] <= R.span[j][1] /\ R.span[j][1] <= R.span[j][2] /\ R.span[j][2] <= R.span[top][2]
    <3>1. PICK u \in 1..UnitCount : j = UnitRoot(u)
      BY <1>11
    <3>2. R.span[j] = <<EdusBefore(u) + 1, EdusBefore(u + 1)>>
      BY <1>10, <3>1
    <3>3. 1 <= EdusBefore(u) + 1
      BY <1>14
    <3> QED
      BY <1>5, <1>14, <3>2, <3>3
  <2>4. ASSUME NEW e \in 1..E PROVE OneOf({j \in ChildrenOf(R, top) : R.span[j][1] <= e /\ e <= R.span[j][2]})
    <3>1. PICK u \in 1..UnitCount : /\ EdusBefore(u) < e /\ e <= EdusBefore(u + 1)
                                    /\ \A v \in 1..UnitCount : EdusBefore(v) < e /\ e <= EdusBefore(v + 1) => v = u
      BY EdusFacts DEF E
    <3>2. e \in Nat
      BY <1>13
    <3>3. \A v \in 1..UnitCount : EdusBefore(v) < e <=> EdusBefore(v) + 1 <= e
      BY <1>14, <3>2
    <3>4. \A v \in 1..UnitCount : /\ R.span[UnitRoot(v)][1] = EdusBefore(v) + 1
                                  /\ R.span[UnitRoot(v)][2] = EdusBefore(v + 1)
      BY <1>10
    <3>5. \A v \in 1..UnitCount : R.span[UnitRoot(v)][1] <= e /\ e <= R.span[UnitRoot(v)][2] <=> v = u
      BY <3>1, <3>3, <3>4
    <3>6. {j \in ChildrenOf(R, top) : R.span[j][1] <= e /\ e <= R.span[j][2]} = {UnitRoot(u)}
      BY <1>10, <1>11, <3>5
    <3> QED
      BY <3>6 DEF OneOf
  <2>5. R.span[top][1] = 1 /\ R.span[top][2] = E
    BY <1>5
  <2> QED
    BY <2>1, <2>2, <2>3, <2>4, <2>5 DEF Divided
<1>16. \A i \in DOMAIN R.span : Divided(R, i)
  BY <1>3, <1>5, <1>7, <1>15, PartDivided
<1>17. \A i \in DOMAIN R.span : R.parent[i] # 0 => R.parent[i] \in DOMAIN R.span
  <2>1. \A i \in 1..UnitsEnd : R.parent[i] \in 1..top
    <3> TAKE i \in 1..UnitsEnd
    <3>1. AllParents[i] = 0 \/ AllParents[i] \in 1..UnitsEnd
      BY <1>1
    <3> QED
      BY <1>4, <1>4a, <1>6, <3>1
  <2> QED
    BY <1>3, <1>5, <2>1
<1>18. ASSUME NEW e \in 1..E PROVE OneOf({i \in DOMAIN R.span : R.span[i] = <<e, e>>})
  <2>1. PICK i \in 1..UnitsEnd : AllSpans[i] = <<e, e>> /\ \A j \in 1..UnitsEnd : AllSpans[j] = <<e, e>> => j = i
    BY PartLeaves DEF E
  <2>2. <<1, E>> # <<e, e>>
    BY <1>13
  <2>3. {j \in DOMAIN R.span : R.span[j] = <<e, e>>} = {i}
    BY <1>3, <1>5, <1>6, <2>1, <2>2
  <2> QED
    BY <2>3 DEF OneOf
<1>19. IsTreeOver(R, E)
  BY <1>4a, <1>5, <1>9, <1>16, <1>17, <1>18 DEF IsTreeOver
<1>20. \A u \in 1..UnitCount : \E i \in DOMAIN R.span : R.span[i] = <<EdusBefore(u) + 1, EdusBefore(u + 1)>>
  BY <1>10 DEF ChildrenOf
<1>21. ASSUME NEW i \in DOMAIN R.span, R.parent[i] # 0 PROVE SplitsNamed(R, i)
  BY <1>3, <1>5, <1>6, <1>7, <1>21, PartDivided
<1>22. UnitCount # 1
  OBVIOUS
<1> QED
  BY <1>19, <1>20, <1>21, <1>22 DEF WholeTree, TotalEdus, E, R

(***************************************************************************)
(* A node with children is not one EDU.                                    *)
(***************************************************************************)
LEMMA ParentIsInner ==
    ASSUME NEW n \in Nat \ {0}, NEW t, Binary(t, n), NEW j \in DOMAIN t.span, NEW i \in DOMAIN t.span, t.parent[j] = i
    PROVE  ~IsEdu(t, i)
<1> SUFFICES ASSUME IsEdu(t, i) PROVE FALSE
  OBVIOUS
<1> DEFINE c == ChildrenOf(t, i)
           e == t.span[i][1]
<1>1. j \in c
  BY DEF ChildrenOf
<1>2. i \in 1..Len(t.span) /\ c \subseteq 1..Len(t.span)
  BY BinaryFacts DEF ChildrenOf
<1>3. Divided(t, i) /\ t.span[i][1] \in 1..n
  BY <1>2, BinaryFacts
<1>4. t.span[i][2] = e
  BY DEF IsEdu
<1>5. /\ \E x, y \in c : x # y
      /\ \A x \in c : e <= t.span[x][1] /\ t.span[x][1] <= t.span[x][2] /\ t.span[x][2] <= e
      /\ \A k \in e..e : OneOf({x \in c : t.span[x][1] <= k /\ k <= t.span[x][2]})
  BY <1>1, <1>3, <1>4 DEF Divided
<1>6. \A x \in c : t.span[x][1] \in 1..n /\ t.span[x][2] \in 1..n
  BY <1>2, BinaryFacts
<1> HIDE DEF c, e
<1>7. \A x \in c : t.span[x][1] <= e /\ e <= t.span[x][2]
  <2> TAKE x \in c
  <2>1. e \in 1..n
    BY <1>3 DEF e
  <2>2. \A a, b \in 1..n : e <= a /\ a <= b /\ b <= e => a <= e /\ e <= b
    BY <2>1
  <2>3. e <= t.span[x][1] /\ t.span[x][1] <= t.span[x][2] /\ t.span[x][2] <= e
    BY <1>5
  <2>4. t.span[x][1] \in 1..n /\ t.span[x][2] \in 1..n
    BY <1>6
  <2> QED
    BY <2>2, <2>3, <2>4, Zenon
<1>8. {x \in c : t.span[x][1] <= e /\ e <= t.span[x][2]} = c
  BY <1>7
<1>9. OneOf(c)
  <2>1. e \in e..e
    BY <1>3 DEF e
  <2>2. OneOf({x \in c : t.span[x][1] <= e /\ e <= t.span[x][2]})
    BY <1>5, <2>1
  <2> QED
    BY <1>8, <2>2, Zenon
<1> QED
  BY <1>5, <1>9 DEF OneOf

\* The sections' trees with the macro tree over them.
Sections == Ready /\ hierarchical /\ UnitCount > 1 /\ Len(results) = UnitCount + 1 /\ Binary(Macro, UnitCount)

\* How many nodes the document's tree has.
End == UnitsEnd + Totals(NewCount)[Len(Macro.span)]

(***************************************************************************)
(* The macro tree's nodes.                                                 *)
(***************************************************************************)
LEMMA MacroFacts ==
    ASSUME Sections
    PROVE  /\ Ready /\ UnitCount \in Nat \ {0} /\ UnitsEnd \in Nat /\ Binary(Macro, UnitCount)
           /\ Len(Macro.span) \in Nat \ {0} /\ DOMAIN Macro.span = 1..Len(Macro.span)
           /\ \A j \in 1..Len(Macro.span) :
                 /\ Macro.span[j] = <<Macro.span[j][1], Macro.span[j][2]>> /\ Macro.span[j][1] \in 1..UnitCount
                 /\ Macro.span[j][2] \in 1..UnitCount /\ Macro.span[j][1] <= Macro.span[j][2]
                 /\ Macro.parent[j] \in 0..Len(Macro.span)
                 /\ Macro.parent[j] # 0 => Macro.parent[j] \in 1..Len(Macro.span) /\ ~IsEdu(Macro, Macro.parent[j])
<1>1. Ready /\ UnitCount \in Nat \ {0} /\ Binary(Macro, UnitCount) /\ UnitsEnd \in Nat
  BY NumbersFacts DEF Sections, Ready
<1> DEFINE t == Macro
           n == UnitCount
<1> HIDE DEF t, n
<1>2. n \in Nat \ {0} /\ Binary(t, n)
  BY <1>1 DEF t, n
<1>3. Len(t.span) \in Nat \ {0} /\ DOMAIN t.span = 1..Len(t.span)
  BY <1>2, BinaryFacts
<1>4. ASSUME NEW j \in 1..Len(t.span)
      PROVE  /\ t.span[j] = <<t.span[j][1], t.span[j][2]>> /\ t.span[j][1] \in 1..n
             /\ t.span[j][2] \in 1..n /\ t.span[j][1] <= t.span[j][2]
             /\ t.parent[j] \in 0..Len(t.span)
  BY <1>2, BinaryFacts
<1>5. ASSUME NEW j \in 1..Len(t.span), t.parent[j] # 0 PROVE t.parent[j] \in 1..Len(t.span) /\ ~IsEdu(t, t.parent[j])
  <2>1. t.parent[j] \in 0..Len(t.span)
    BY <1>4
  <2>2. t.parent[j] \in 1..Len(t.span)
    BY <1>3, <1>5, <2>1
  <2> QED
    BY <1>2, <1>3, <2>2, ParentIsInner
<1> QED
  BY <1>1, <1>3, <1>4, <1>5 DEF t, n

(***************************************************************************)
(* Each node of the macro tree has a number of its own: its leaves those   *)
(* of the sections' roots, the others the numbers after the sections'.     *)
(***************************************************************************)
LEMMA GlobalFacts ==
    ASSUME Sections
    PROVE  /\ End \in Nat /\ UnitsEnd <= End
           /\ \A j \in 1..Len(Macro.span) :
                 IF IsEdu(Macro, j)
                   THEN Global(j) = UnitRoot(Macro.span[j][1])
                   ELSE Global(j) \in (UnitsEnd + 1)..End
           /\ \A i \in (UnitsEnd + 1)..End : \E j \in 1..Len(Macro.span) : ~IsEdu(Macro, j) /\ Global(j) = i
           /\ \A j, k \in 1..Len(Macro.span) : ~IsEdu(Macro, j) /\ ~IsEdu(Macro, k) /\ Global(j) = Global(k) => j = k
<1> DEFINE N == Len(Macro.span)
           T == Totals(NewCount)
           Leaf(j) == IsEdu(Macro, j)
<1>1. N \in Nat /\ DOMAIN Macro.span = 1..N /\ UnitsEnd \in Nat
  BY MacroFacts
<1>2. NewCount = [i \in 1..N |-> IF Leaf(i) THEN 0 ELSE 1]
  BY <1>1 DEF NewCount
<1>3. \A j : Global(j) = IF Leaf(j) THEN UnitRoot(Macro.span[j][1]) ELSE UnitsEnd + T[j]
  BY DEF Global
<1>4. End = UnitsEnd + T[N]
  BY DEF End
<1> HIDE DEF Leaf, N
<1>5. NewCount \in Seq(Nat) /\ Len(NewCount) = N
  <2>1. NewCount \in [1..N -> Nat]
    BY <1>2
  <2>2. \A f : f \in [1..N -> Nat] => f \in Seq(Nat) /\ Len(f) = N
    BY <1>1
  <2> QED
    BY <2>1, <2>2
<1>6. T \in [0..N -> Nat] /\ T[0] = 0 /\ \A i \in 1..N : T[i] = T[i - 1] + NewCount[i]
  BY <1>5, TotalsFacts
<1>7. \A i, j \in 0..N : i <= j => T[i] <= T[j]
  BY <1>5, TotalsMonotone
<1>8. ASSUME NEW k \in 1..T[N]
      PROVE  /\ EntryOf(NewCount, k) \in 1..N
             /\ T[EntryOf(NewCount, k) - 1] < k /\ k <= T[EntryOf(NewCount, k)]
             /\ \A u \in 1..N : T[u - 1] < k /\ k <= T[u] => u = EntryOf(NewCount, k)
  BY <1>5, EntryFacts
<1> HIDE DEF T
<1>9. T[N] \in Nat /\ End \in Nat /\ UnitsEnd <= End
  <2>1. N \in 0..N
    BY <1>1
  <2>2. T[N] \in Nat
    BY <1>6, <2>1
  <2> QED
    BY <1>1, <1>4, <2>2
<1>10. ASSUME NEW j \in 1..N, ~Leaf(j)
       PROVE  T[j] \in 1..T[N] /\ T[j - 1] < T[j]
  <2>1. j \in 0..N /\ j - 1 \in 0..N /\ N \in 0..N /\ j <= N
    BY <1>1
  <2>2. T[j] = T[j - 1] + 1 /\ T[j - 1] \in Nat /\ T[j] \in Nat /\ T[j] <= T[N]
    BY <1>2, <1>6, <1>7, <1>10, <2>1
  <2> QED
    BY <1>9, <2>2
<1>11. ASSUME NEW j \in 1..N, ~Leaf(j) PROVE Global(j) \in (UnitsEnd + 1)..End /\ Global(j) = UnitsEnd + T[j]
  <2>1. T[j] \in 1..T[N] /\ Global(j) = UnitsEnd + T[j]
    BY <1>3, <1>10, <1>11
  <2> QED
    BY <1>1, <1>4, <1>9, <2>1
<1>12. ASSUME NEW i \in (UnitsEnd + 1)..End PROVE \E j \in 1..N : ~Leaf(j) /\ Global(j) = i
  <2> DEFINE k == i - UnitsEnd
             j == EntryOf(NewCount, k)
  <2>1. k \in 1..T[N] /\ i = UnitsEnd + k /\ k \in Nat
    BY <1>1, <1>4, <1>9
  <2>2. j \in 1..N /\ T[j - 1] < k /\ k <= T[j]
    BY <1>8, <2>1
  <2> HIDE DEF j, k
  <2>3. j \in 0..N /\ j - 1 \in 0..N
    BY <1>1, <2>2
  <2>4. T[j - 1] \in Nat /\ T[j] = T[j - 1] + (IF Leaf(j) THEN 0 ELSE 1)
    BY <1>2, <1>6, <2>2, <2>3
  <2>5. ~Leaf(j) /\ T[j] = k
    BY <2>1, <2>2, <2>4
  <2> QED
    BY <1>3, <2>1, <2>2, <2>5
<1>13. ASSUME NEW j \in 1..N, NEW k \in 1..N, ~Leaf(j), ~Leaf(k), Global(j) = Global(k) PROVE j = k
  <2>1. T[j] \in 1..T[N] /\ T[k] \in 1..T[N] /\ T[j - 1] < T[j] /\ T[k - 1] < T[k]
    BY <1>10, <1>13
  <2>2. T[j] = T[k]
    BY <1>1, <1>3, <1>9, <1>13, <2>1
  <2>3. T[j] <= T[j] /\ T[k] <= T[k]
    BY <1>9, <2>1
  <2>4. j = EntryOf(NewCount, T[j])
    BY <1>8, <2>1, <2>3
  <2>5. k = EntryOf(NewCount, T[j])
    BY <1>8, <2>1, <2>2, <2>3
  <2> QED
    BY <2>4, <2>5
<1>14. \A j \in 1..N : Leaf(j) => Global(j) = UnitRoot(Macro.span[j][1])
  BY <1>3
<1> QED
  BY <1>9, <1>11, <1>12, <1>13, <1>14 DEF Leaf, N

(***************************************************************************)
(* So that number leads back to the node, and the numbers of the macro     *)
(* tree are those of the nodes that the sections' trees give no parent.    *)
(***************************************************************************)
LEMMA MacroNumbers ==
    ASSUME Sections
    PROVE  /\ \A j \in 1..Len(Macro.span) :
                 /\ Global(j) \in 1..End /\ MacroNode(Global(j)) = j
                 /\ IF IsEdu(Macro, j) THEN Global(j) \in 1..UnitsEnd /\ AllParents[Global(j)] = 0
                                       ELSE ~(Global(j) <= UnitsEnd)
           /\ \A j, k \in 1..Len(Macro.span) : Global(j) = Global(k) => j = k
           /\ \A i \in 1..End : (i <= UnitsEnd => AllParents[i] = 0) => \E j \in 1..Len(Macro.span) : Global(j) = i
<1> DEFINE N == Len(Macro.span)
<1>1. /\ Ready /\ UnitsEnd \in Nat /\ UnitCount \in Nat \ {0} /\ Binary(Macro, UnitCount) /\ DOMAIN Macro.span = 1..N
      /\ \A j \in 1..N : Macro.span[j] = <<Macro.span[j][1], Macro.span[j][2]>> /\ Macro.span[j][1] \in 1..UnitCount
  BY MacroFacts
<1>2. /\ End \in Nat /\ UnitsEnd <= End
      /\ \A j \in 1..N : IF IsEdu(Macro, j) THEN Global(j) = UnitRoot(Macro.span[j][1]) ELSE Global(j) \in (UnitsEnd + 1)..End
      /\ \A i \in (UnitsEnd + 1)..End : \E j \in 1..N : ~IsEdu(Macro, j) /\ Global(j) = i
      /\ \A j, k \in 1..N : ~IsEdu(Macro, j) /\ ~IsEdu(Macro, k) /\ Global(j) = Global(k) => j = k
  BY GlobalFacts
<1>3. \A u \in 1..UnitCount : /\ UnitRoot(u) \in 1..UnitsEnd /\ UnitOf(UnitRoot(u)) = u /\ AllParents[UnitRoot(u)] = 0
                              /\ \A i \in 1..UnitsEnd : UnitOf(i) = u /\ AllParents[i] = 0 => i = UnitRoot(u)
  BY <1>1, RootAt
<1>4. \A u \in 1..UnitCount : \E j \in 1..N : Macro.span[j] = <<u, u>> /\ \A k \in 1..N : Macro.span[k] = <<u, u>> => k = j
  <2>1. ASSUME NEW t, Binary(t, UnitCount), DOMAIN t.span = 1..N, NEW u \in 1..UnitCount
        PROVE  \E j \in 1..N : t.span[j] = <<u, u>> /\ \A k \in 1..N : t.span[k] = <<u, u>> => k = j
    <3> HIDE DEF N
    <3>1. \E j \in DOMAIN t.span : t.span[j] = <<u, u>> /\ \A k \in DOMAIN t.span : t.span[k] = <<u, u>> => k = j
      BY <1>1, <2>1, BinaryLeaf
    <3> QED
      BY <2>1, <3>1, Zenon
  <2> QED
    BY <1>1, <2>1
<1>5. \A i \in 1..UnitsEnd : UnitOf(i) \in 1..UnitCount
  BY <1>1, NumbersFacts
<1>6. \A i \in 1..End : i <= UnitsEnd <=> i \in 1..UnitsEnd
  BY <1>1, <1>2
<1>6a. \A i \in 1..End : ~(i <= UnitsEnd) <=> i \in (UnitsEnd + 1)..End
  BY <1>1, <1>2
<1>6b. \A i : i \in (UnitsEnd + 1)..End \/ i \in 1..UnitsEnd => i \in 1..End
  BY <1>1, <1>2
<1>7. \A i : MacroNode(i) = CHOOSE j \in 1..N : Global(j) = i
  BY <1>1 DEF MacroNode
<1> HIDE DEF N
<1>8. ASSUME NEW j \in 1..N, IsEdu(Macro, j)
      PROVE  Global(j) \in 1..UnitsEnd /\ UnitOf(Global(j)) = Macro.span[j][1] /\ AllParents[Global(j)] = 0
  BY <1>1, <1>2, <1>3, <1>8
<1>9. ASSUME NEW j \in 1..N, ~IsEdu(Macro, j) PROVE Global(j) \in 1..End /\ ~(Global(j) <= UnitsEnd)
  BY <1>2, <1>6a, <1>6b, <1>9
<1>10. ASSUME NEW j \in 1..N, NEW k \in 1..N, Global(j) = Global(k) PROVE j = k
  <2>1. CASE IsEdu(Macro, j) /\ IsEdu(Macro, k)
    <3>1. Macro.span[j][1] = Macro.span[k][1]
      BY <1>8, <1>10, <2>1
    <3>2. Macro.span[j] = <<Macro.span[j][1], Macro.span[j][1]>> /\ Macro.span[k] = <<Macro.span[j][1], Macro.span[j][1]>>
      BY <1>1, <2>1, <3>1 DEF IsEdu
    <3> QED
      BY <1>1, <1>4, <3>2
  <2>2. CASE ~IsEdu(Macro, j) /\ ~IsEdu(Macro, k)
    BY <1>2, <1>10, <2>2
  <2>3. CASE ~(IsEdu(Macro, j) <=> IsEdu(Macro, k))
    BY <1>6, <1>6b, <1>8, <1>9, <1>10, <2>3
  <2> QED
    BY <2>1, <2>2, <2>3
<1>11. \A j \in 1..N : MacroNode(Global(j)) = j
  BY <1>7, <1>10
<1>12. ASSUME NEW i \in 1..End, i <= UnitsEnd => AllParents[i] = 0 PROVE \E j \in 1..N : Global(j) = i
  <2>1. CASE i <= UnitsEnd
    <3>1. i \in 1..UnitsEnd /\ AllParents[i] = 0
      BY <1>6, <1>12, <2>1
    <3>2. i = UnitRoot(UnitOf(i)) /\ UnitOf(i) \in 1..UnitCount
      BY <1>3, <1>5, <3>1
    <3>3. PICK j \in 1..N : Macro.span[j] = <<UnitOf(i), UnitOf(i)>>
      BY <1>4, <3>2
    <3>4. IsEdu(Macro, j) /\ Macro.span[j][1] = UnitOf(i)
      BY <3>3 DEF IsEdu
    <3> QED
      BY <1>2, <3>2, <3>4
  <2>2. CASE ~(i <= UnitsEnd)
    BY <1>2, <1>6a, <2>2
  <2> QED
    BY <2>1, <2>2
<1> QED
  <2>1. ASSUME NEW j \in 1..N
        PROVE  /\ Global(j) \in 1..End /\ MacroNode(Global(j)) = j
               /\ IF IsEdu(Macro, j) THEN Global(j) \in 1..UnitsEnd /\ AllParents[Global(j)] = 0
                                     ELSE ~(Global(j) <= UnitsEnd)
    BY <1>6b, <1>8, <1>9, <1>11
  <2> QED
    BY <1>10, <1>12, <2>1 DEF N

(***************************************************************************)
(* The nodes of the stitched tree: those with a parent in their section's  *)
(* tree are as they were; the others are the macro tree's, over all EDUs   *)
(* of the sections that they span.                                         *)
(***************************************************************************)
LEMMA StitchedNodes ==
    ASSUME Sections, NEW T, T = Stitched
    PROVE  /\ DOMAIN T.span = 1..End
           /\ \A i \in 1..UnitsEnd : T.span[i] = AllSpans[i] /\ (AllParents[i] # 0 => T.parent[i] = AllParents[i])
           /\ \A j \in 1..Len(Macro.span) :
                 /\ T.span[Global(j)] = <<EdusBefore(Macro.span[j][1]) + 1, EdusBefore(Macro.span[j][2] + 1)>>
                 /\ T.parent[Global(j)] = IF Macro.parent[j] = 0 THEN 0 ELSE Global(Macro.parent[j])
<1> DEFINE N == Len(Macro.span)
<1>1. /\ Ready /\ UnitsEnd \in Nat /\ UnitCount \in Nat \ {0} /\ DOMAIN Macro.span = 1..N
      /\ \A j \in 1..N : /\ Macro.span[j] = <<Macro.span[j][1], Macro.span[j][2]>> /\ Macro.span[j][1] \in 1..UnitCount
                         /\ Macro.span[j][2] \in 1..UnitCount
  BY MacroFacts
<1>2. /\ T.span = [i \in 1..End |-> IF i <= UnitsEnd THEN AllSpans[i] ELSE Lifted(Macro.span[MacroNode(i)])]
      /\ T.parent = [i \in 1..End |-> IF i <= UnitsEnd /\ AllParents[i] # 0 THEN AllParents[i] ELSE Above(MacroNode(i))]
  BY DEF Stitched, End
<1>3. \A j \in 1..N : Above(j) = IF Macro.parent[j] = 0 THEN 0 ELSE Global(Macro.parent[j])
  BY DEF Above
<1>4. /\ End \in Nat /\ UnitsEnd <= End
      /\ \A j \in 1..N : IsEdu(Macro, j) => Global(j) = UnitRoot(Macro.span[j][1])
  BY GlobalFacts
<1>5. \A j \in 1..N :
         /\ Global(j) \in 1..End /\ MacroNode(Global(j)) = j
         /\ IF IsEdu(Macro, j) THEN Global(j) \in 1..UnitsEnd /\ AllParents[Global(j)] = 0
                               ELSE ~(Global(j) <= UnitsEnd)
  BY MacroNumbers
<1>6. \A u \in 1..UnitCount : AllSpans[UnitRoot(u)] = <<EdusBefore(u) + 1, EdusBefore(u + 1)>>
  BY <1>1, RootAt
<1>7. \A i \in 1..UnitsEnd : i \in 1..End /\ i <= UnitsEnd
  BY <1>1, <1>4
<1> HIDE DEF N
<1>8. \A j \in 1..N : Lifted(Macro.span[j]) = <<EdusBefore(Macro.span[j][1]) + 1, EdusBefore(Macro.span[j][2] + 1)>>
  <2> TAKE j \in 1..N
  <2> DEFINE a == Macro.span[j][1]
             b == Macro.span[j][2]
  <2>1. a \in 1..UnitCount /\ b \in 1..UnitCount
    BY <1>1
  <2>2. Lifted(Macro.span[j]) = <<AllSpans[UnitRoot(a)][1], AllSpans[UnitRoot(b)][2]>>
    BY DEF Lifted
  <2> HIDE DEF a, b
  <2>3. AllSpans[UnitRoot(a)][1] = EdusBefore(a) + 1 /\ AllSpans[UnitRoot(b)][2] = EdusBefore(b + 1)
    BY <1>6, <2>1
  <2> QED
    BY <2>2, <2>3 DEF a, b
<1>9. ASSUME NEW i \in 1..UnitsEnd PROVE T.span[i] = AllSpans[i] /\ (AllParents[i] # 0 => T.parent[i] = AllParents[i])
  BY <1>2, <1>7
<1>10. ASSUME NEW j \in 1..N
       PROVE  T.span[Global(j)] = <<EdusBefore(Macro.span[j][1]) + 1, EdusBefore(Macro.span[j][2] + 1)>>
  <2>1. CASE IsEdu(Macro, j)
    <3>1. T.span[Global(j)] = AllSpans[UnitRoot(Macro.span[j][1])]
      BY <1>4, <1>5, <1>9, <2>1
    <3>2. T.span[Global(j)] = <<EdusBefore(Macro.span[j][1]) + 1, EdusBefore(Macro.span[j][1] + 1)>>
      BY <1>1, <1>6, <3>1
    <3> QED
      BY <2>1, <3>2 DEF IsEdu
  <2>2. CASE ~IsEdu(Macro, j)
    <3>1. T.span[Global(j)] = Lifted(Macro.span[MacroNode(Global(j))])
      BY <1>2, <1>5, <2>2
    <3> QED
      BY <1>5, <1>8, <3>1
  <2> QED
    BY <2>1, <2>2
<1>11. ASSUME NEW j \in 1..N PROVE T.parent[Global(j)] = IF Macro.parent[j] = 0 THEN 0 ELSE Global(Macro.parent[j])
  <2>1. ~(Global(j) <= UnitsEnd /\ AllParents[Global(j)] # 0)
    BY <1>5
  <2>2. T.parent[Global(j)] = Above(MacroNode(Global(j)))
    BY <1>2, <1>5, <2>1
  <2> QED
    BY <1>3, <1>5, <2>2
<1> QED
  BY <1>2, <1>9, <1>10, <1>11 DEF N

(***************************************************************************)
(* The stitched tree carries the sections' trees, below the macro tree's   *)
(* inner nodes.                                                            *)
(***************************************************************************)
LEMMA StitchedChildren ==
    ASSUME Sections, NEW T, T = Stitched
    PROVE  /\ Carries(T)
           /\ \A m \in 1..Len(Macro.span) : ~IsEdu(Macro, m) =>
                 ChildrenOf(T, Global(m)) = {Global(j) : j \in ChildrenOf(Macro, m)}
           /\ RootsOf(T) = {Global(j) : j \in RootsOf(Macro)}
           /\ \A i \in DOMAIN T.span : T.parent[i] # 0 => T.parent[i] \in DOMAIN T.span
<1> DEFINE N == Len(Macro.span)
<1>1. /\ Ready /\ UnitsEnd \in Nat /\ DOMAIN Macro.span = 1..N
      /\ \A j \in 1..N : Macro.parent[j] # 0 => Macro.parent[j] \in 1..N /\ ~IsEdu(Macro, Macro.parent[j])
  BY MacroFacts
<1>2. /\ DOMAIN T.span = 1..End
      /\ \A i \in 1..UnitsEnd : T.span[i] = AllSpans[i] /\ (AllParents[i] # 0 => T.parent[i] = AllParents[i])
      /\ \A j \in 1..N : T.parent[Global(j)] = IF Macro.parent[j] = 0 THEN 0 ELSE Global(Macro.parent[j])
  BY StitchedNodes
<1>3. /\ \A j \in 1..N :
            /\ Global(j) \in 1..End
            /\ IF IsEdu(Macro, j) THEN Global(j) \in 1..UnitsEnd /\ AllParents[Global(j)] = 0
                                  ELSE ~(Global(j) <= UnitsEnd)
      /\ \A j, k \in 1..N : Global(j) = Global(k) => j = k
      /\ \A i \in 1..End : (i <= UnitsEnd => AllParents[i] = 0) => \E j \in 1..N : Global(j) = i
  BY MacroNumbers
<1>4. End \in Nat /\ UnitsEnd <= End
  BY GlobalFacts
<1>5. \A i \in 1..End : i # 0 /\ (i <= UnitsEnd => i \in 1..UnitsEnd)
  BY <1>1, <1>4
<1>6. \A i \in 1..UnitsEnd : i \in 1..End /\ i <= UnitsEnd
  BY <1>1, <1>4
<1>7. \A i \in 1..UnitsEnd : AllParents[i] # 0 => AllParents[i] \in 1..UnitsEnd
  BY <1>1, ParentAt
<1> HIDE DEF N
<1>8. ASSUME NEW i \in 1..End
      PROVE  \/ i \in 1..UnitsEnd /\ AllParents[i] # 0 /\ T.parent[i] = AllParents[i] /\ T.parent[i] \in 1..UnitsEnd
             \/ /\ \E j \in 1..N : i = Global(j)
                /\ i \in 1..UnitsEnd => AllParents[i] = 0
  BY <1>2, <1>3, <1>5, <1>6, <1>7
<1>9. ASSUME NEW j \in 1..N, Macro.parent[j] # 0
      PROVE  /\ T.parent[Global(j)] = Global(Macro.parent[j]) /\ Macro.parent[j] \in 1..N
             /\ T.parent[Global(j)] \in 1..End /\ ~(T.parent[Global(j)] \in 1..UnitsEnd)
  <2>1. T.parent[Global(j)] = Global(Macro.parent[j]) /\ Macro.parent[j] \in 1..N /\ ~IsEdu(Macro, Macro.parent[j])
    BY <1>1, <1>2, <1>9
  <2> QED
    BY <1>3, <1>6, <2>1
<1>10. ASSUME NEW j \in 1..N, Macro.parent[j] = 0 PROVE T.parent[Global(j)] = 0
  BY <1>2, <1>10
<1>11. \A i \in DOMAIN T.span : T.parent[i] # 0 => T.parent[i] \in DOMAIN T.span
  BY <1>2, <1>6, <1>8, <1>9, <1>10
<1>12. ASSUME NEW i \in 1..UnitsEnd PROVE ChildrenOf(T, i) = {j \in 1..UnitsEnd : AllParents[j] = i}
  <2>1. i # 0
    BY <1>5, <1>6
  <2>2. ASSUME NEW k \in 1..End, T.parent[k] = i PROVE k \in 1..UnitsEnd /\ AllParents[k] = i
    BY <1>8, <1>9, <1>10, <2>1, <2>2
  <2>3. ASSUME NEW k \in 1..UnitsEnd, AllParents[k] = i PROVE k \in 1..End /\ T.parent[k] = i
    BY <1>2, <1>6, <2>1, <2>3
  <2> QED
    BY <1>2, <2>2, <2>3 DEF ChildrenOf
<1>13. Carries(T)
  BY <1>2, <1>4, <1>12 DEF Carries
<1>14. ASSUME NEW m \in 1..N, ~IsEdu(Macro, m) PROVE ChildrenOf(T, Global(m)) = {Global(j) : j \in ChildrenOf(Macro, m)}
  <2>1. Global(m) \in 1..End /\ ~(Global(m) \in 1..UnitsEnd) /\ Global(m) # 0
    BY <1>3, <1>5, <1>6, <1>14
  <2>2. ASSUME NEW k \in 1..End, T.parent[k] = Global(m) PROVE \E j \in ChildrenOf(Macro, m) : k = Global(j)
    <3>1. PICK j \in 1..N : k = Global(j)
      BY <1>8, <2>1, <2>2
    <3>2. Macro.parent[j] # 0
      BY <1>10, <2>1, <2>2, <3>1
    <3>3. Macro.parent[j] = m
      BY <1>3, <1>9, <2>2, <3>1, <3>2
    <3> QED
      BY <1>1, <3>1, <3>3 DEF ChildrenOf
  <2>3. ASSUME NEW j \in ChildrenOf(Macro, m) PROVE Global(j) \in 1..End /\ T.parent[Global(j)] = Global(m)
    <3>1. j \in 1..N /\ Macro.parent[j] = m
      BY <1>1 DEF ChildrenOf
    <3>2. m # 0
      <4>1. N \in Nat
        BY MacroFacts DEF N
      <4> QED
        BY <4>1
    <3> QED
      BY <1>3, <1>9, <3>1, <3>2
  <2>4. ChildrenOf(T, Global(m)) = {k \in 1..End : T.parent[k] = Global(m)}
    BY <1>2 DEF ChildrenOf
  <2> QED
    BY <2>2, <2>3, <2>4
<1>15. RootsOf(T) = {Global(j) : j \in RootsOf(Macro)}
  <2>1. RootsOf(T) = {k \in 1..End : T.parent[k] = 0} /\ RootsOf(Macro) = {j \in 1..N : Macro.parent[j] = 0}
    BY <1>1, <1>2 DEF RootsOf, ChildrenOf
  <2>2. ASSUME NEW k \in 1..End, T.parent[k] = 0 PROVE \E j \in 1..N : k = Global(j) /\ Macro.parent[j] = 0
    <3>1. PICK j \in 1..N : k = Global(j)
      BY <1>5, <1>6, <1>8, <2>2
    <3> QED
      BY <1>5, <1>9, <2>2, <3>1
  <2>3. ASSUME NEW j \in 1..N, Macro.parent[j] = 0 PROVE Global(j) \in 1..End /\ T.parent[Global(j)] = 0
    BY <1>3, <1>10, <2>3
  <2> QED
    BY <2>1, <2>2, <2>3
<1> QED
  BY <1>11, <1>13, <1>14, <1>15 DEF N

(***************************************************************************)
(* The children of an inner node of the macro tree still partition its     *)
(* span.                                                                   *)
(***************************************************************************)
LEMMA MacroDivided ==
    ASSUME Sections, NEW T, T = Stitched, NEW m \in 1..Len(Macro.span), ~IsEdu(Macro, m)
    PROVE  Divided(T, Global(m))
<1> DEFINE N == Len(Macro.span)
           c == ChildrenOf(Macro, m)
           C == ChildrenOf(T, Global(m))
           B(u) == EdusBefore(u)
           first(j) == Macro.span[j][1]
           last(j) == Macro.span[j][2]
<1>1. /\ Ready /\ UnitCount \in Nat \ {0} /\ Binary(Macro, UnitCount) /\ DOMAIN Macro.span = 1..N
      /\ \A j \in 1..N : first(j) \in 1..UnitCount /\ last(j) \in 1..UnitCount /\ first(j) <= last(j)
  BY MacroFacts
<1>2. C = {Global(j) : j \in c}
  BY StitchedChildren
<1>3. \A j \in 1..N : T.span[Global(j)][1] = B(first(j)) + 1 /\ T.span[Global(j)][2] = B(last(j) + 1)
  <2>1. \A j \in 1..N : T.span[Global(j)] = <<B(first(j)) + 1, B(last(j) + 1)>>
    BY StitchedNodes
  <2> HIDE DEF B, first, last
  <2> QED
    BY <2>1
<1>4. \A j, k \in 1..N : Global(j) = Global(k) => j = k
  BY MacroNumbers
<1>5. Divided(Macro, m)
  <2>1. ASSUME NEW t, Binary(t, UnitCount), NEW i \in 1..Len(t.span) PROVE Divided(t, i)
    BY <1>1, <2>1, BinaryFacts
  <2> QED
    BY <1>1, <2>1
<1>6. c \subseteq 1..N /\ m \in 1..N /\ first(m) # last(m)
  BY <1>1 DEF ChildrenOf, IsEdu
<1>7. /\ c # {} /\ \E j, k \in c : j # k
      /\ \A j \in c : first(m) <= first(j) /\ first(j) <= last(j) /\ last(j) <= last(m)
      /\ \A u \in first(m)..last(m) : OneOf({j \in c : first(j) <= u /\ u <= last(j)})
  BY <1>5, <1>6 DEF Divided
<1>8. ASSUME NEW j \in 1..N
      PROVE  B(first(j)) \in Nat /\ B(last(j) + 1) \in Nat /\ B(first(j)) + 1 <= B(last(j) + 1)
  BY <1>1, UnitEdus
<1>9. ASSUME NEW e \in Nat, NEW u \in 1..UnitCount, B(u) < e, e <= B(u + 1), NEW j \in 1..N
      PROVE  (B(first(j)) + 1 <= e <=> first(j) <= u) /\ (e <= B(last(j) + 1) <=> u <= last(j))
  BY <1>1, <1>9, UnitWithin
<1>10. ASSUME NEW e \in Nat, B(first(m)) + 1 <= e, e <= B(last(m) + 1)
       PROVE  \E u \in 1..UnitCount : B(u) < e /\ e <= B(u + 1)
  <2>1. Len(results) \in Nat /\ UnitCount <= Len(results)
    BY CountsFacts DEF Sections, Ready
  <2>2. last(m) + 1 \in 1..(Len(results) + 1) /\ UnitCount + 1 \in 1..(Len(results) + 1) /\ last(m) + 1 <= UnitCount + 1
    BY <1>1, <1>6, <2>1
  <2>3. B(last(m) + 1) <= B(UnitCount + 1) /\ B(UnitCount + 1) \in Nat
    BY <1>1, <2>2, OffsetFacts
  <2>4. B(last(m) + 1) \in Nat /\ B(first(m)) \in Nat
    BY <1>6, <1>8
  <2> HIDE DEF B
  <2>5. e \in 1..B(UnitCount + 1)
    BY <1>10, <2>3, <2>4
  <2> QED
    BY <1>1, <2>5, EdusFacts DEF B
<1>11. \A u, v \in 1..UnitCount : first(m) <= u /\ u <= v => B(first(m)) <= B(u)
  <2> TAKE u, v \in 1..UnitCount
  <2>1. Len(results) \in Nat /\ UnitCount <= Len(results)
    BY CountsFacts DEF Sections, Ready
  <2>2. u \in 1..(Len(results) + 1) /\ first(m) \in 1..(Len(results) + 1)
    BY <1>1, <1>6, <2>1
  <2> QED
    BY <1>1, <2>2, OffsetFacts
<1>12. \A v \in 1..UnitCount : v <= last(m) => B(v + 1) <= B(last(m) + 1)
  <2> TAKE v \in 1..UnitCount
  <2>1. Len(results) \in Nat /\ UnitCount <= Len(results)
    BY CountsFacts DEF Sections, Ready
  <2>2. v + 1 \in 1..(Len(results) + 1) /\ last(m) + 1 \in 1..(Len(results) + 1) /\ (v <= last(m) => v + 1 <= last(m) + 1)
    BY <1>1, <1>6, <2>1
  <2> QED
    BY <1>1, <2>2, OffsetFacts
<1> HIDE DEF N, B, first, last, c, C
<1>13. \A j \in c : j \in 1..N /\ Global(j) \in C
  BY <1>2, <1>6
<1>14. \A k \in C : \E j \in c : k = Global(j)
  BY <1>2
<1>15. \E j, k \in C : j # k
  BY <1>4, <1>7, <1>13
<1>16. ASSUME NEW k \in C
       PROVE  /\ T.span[Global(m)][1] <= T.span[k][1] /\ T.span[k][1] <= T.span[k][2]
              /\ T.span[k][2] <= T.span[Global(m)][2]
  <2>1. PICK j \in c : k = Global(j)
    BY <1>14
  <2>2. j \in 1..N /\ first(j) \in 1..UnitCount /\ last(j) \in 1..UnitCount
    BY <1>1, <1>13
  <2>3. B(first(m)) <= B(first(j)) /\ B(last(j) + 1) <= B(last(m) + 1)
    <3>1. first(m) <= first(j) /\ first(j) <= last(j) /\ last(j) <= last(m)
      BY <1>7
    <3> QED
      BY <1>11, <1>12, <2>2, <3>1
  <2>4. B(first(m)) \in Nat /\ B(first(j)) \in Nat /\ B(first(j)) + 1 <= B(last(j) + 1)
    BY <1>6, <1>8, <2>2
  <2>5. B(first(m)) + 1 <= B(first(j)) + 1
    BY <2>3, <2>4
  <2> QED
    BY <1>3, <1>6, <2>1, <2>2, <2>3, <2>4, <2>5
<1>17. ASSUME NEW e \in T.span[Global(m)][1]..T.span[Global(m)][2]
       PROVE  OneOf({k \in C : T.span[k][1] <= e /\ e <= T.span[k][2]})
  <2>1. e \in Nat /\ B(first(m)) + 1 <= e /\ e <= B(last(m) + 1)
    <3>1. e \in (B(first(m)) + 1)..B(last(m) + 1) /\ B(first(m)) \in Nat /\ B(last(m) + 1) \in Nat
      BY <1>3, <1>6, <1>8
    <3> QED
      BY <3>1
  <2>2. PICK u \in 1..UnitCount : B(u) < e /\ e <= B(u + 1)
    BY <1>10, <2>1
  <2>3. \A j \in 1..N : (B(first(j)) + 1 <= e <=> first(j) <= u) /\ (e <= B(last(j) + 1) <=> u <= last(j))
    BY <1>9, <2>1, <2>2
  <2>4. u \in first(m)..last(m)
    <3>1. first(m) <= u /\ u <= last(m)
      BY <1>6, <2>1, <2>3
    <3>2. first(m) \in 1..UnitCount /\ last(m) \in 1..UnitCount
      BY <1>1, <1>6
    <3> QED
      BY <1>1, <3>1, <3>2
  <2>5. PICK x : {j \in c : first(j) <= u /\ u <= last(j)} = {x}
    BY <1>7, <2>4 DEF OneOf
  <2>6. \A j \in c : T.span[Global(j)][1] <= e /\ e <= T.span[Global(j)][2] <=> j = x
    <3> TAKE j \in c
    <3>1. j \in 1..N
      BY <1>13
    <3>2. T.span[Global(j)][1] <= e <=> first(j) <= u
      BY <1>3, <2>3, <3>1
    <3>3. e <= T.span[Global(j)][2] <=> u <= last(j)
      BY <1>3, <2>3, <3>1
    <3> QED
      BY <2>5, <3>2, <3>3
  <2>7. x \in c
    BY <2>5
  <2>8. {k \in C : T.span[k][1] <= e /\ e <= T.span[k][2]} = {Global(x)}
    BY <1>13, <1>14, <2>6, <2>7
  <2> QED
    BY <2>8 DEF OneOf
<1>18. C # {}
  BY <1>15
<1> QED
  BY <1>15, <1>16, <1>17, <1>18 DEF Divided, C

(***************************************************************************)
(* Stitching gives one tree over all sections.                             *)
(***************************************************************************)
LEMMA StitchedIsWhole ==
    ASSUME Sections
    PROVE  WholeTree(Stitched)
<1> DEFINE T == Stitched
           N == Len(Macro.span)
           E == EdusBefore(UnitCount + 1)
           B(u) == EdusBefore(u)
<1>1. /\ Ready /\ hierarchical /\ UnitCount \in Nat \ {0} /\ UnitsEnd \in Nat
      /\ Binary(Macro, UnitCount) /\ N \in Nat \ {0} /\ DOMAIN Macro.span = 1..N
      /\ \A j \in 1..N : /\ Macro.span[j] = <<Macro.span[j][1], Macro.span[j][2]>> /\ Macro.span[j][1] \in 1..UnitCount
                         /\ Macro.span[j][2] \in 1..UnitCount /\ Macro.span[j][1] <= Macro.span[j][2]
  BY MacroFacts DEF Sections
<1>2. /\ DOMAIN T.span = 1..End
      /\ \A i \in 1..UnitsEnd : T.span[i] = AllSpans[i]
      /\ \A j \in 1..N : T.span[Global(j)] = <<B(Macro.span[j][1]) + 1, B(Macro.span[j][2] + 1)>>
  BY StitchedNodes
<1>3. /\ Carries(T) /\ RootsOf(T) = {Global(j) : j \in RootsOf(Macro)}
      /\ \A i \in DOMAIN T.span : T.parent[i] # 0 => T.parent[i] \in DOMAIN T.span
  BY StitchedChildren
<1>4. \A m \in 1..N : ~IsEdu(Macro, m) => Divided(T, Global(m))
  BY MacroDivided
<1>5. /\ End \in Nat /\ UnitsEnd <= End
      /\ \A i \in (UnitsEnd + 1)..End : \E j \in 1..N : ~IsEdu(Macro, j) /\ Global(j) = i
  BY GlobalFacts
<1>6. \A j \in 1..N : Global(j) \in 1..End
  BY MacroNumbers
<1>7. \A i \in 1..End : i \in 1..UnitsEnd \/ i \in (UnitsEnd + 1)..End
  BY <1>1, <1>5
<1>8. \A i \in 1..UnitsEnd : i \in 1..End
  BY <1>1, <1>5
<1> HIDE DEF T, N, E
<1>9. \A i \in DOMAIN T.span : Divided(T, i)
  <2>1. \A i \in 1..UnitsEnd : Divided(T, i)
    BY <1>1, <1>3, PartDivided
  <2> QED
    BY <1>2, <1>4, <1>5, <1>7, <2>1
<1>10. \E i \in DOMAIN T.span : RootsOf(T) = {i} /\ T.span[i] = <<1, E>>
  <2>1. PICK r \in DOMAIN Macro.span : RootsOf(Macro) = {r} /\ Macro.span[r] = <<1, UnitCount>>
    <3>1. ASSUME NEW t, Binary(t, UnitCount) PROVE \E r \in DOMAIN t.span : RootsOf(t) = {r} /\ t.span[r] = <<1, UnitCount>>
      BY <3>1 DEF Binary, IsTreeOver
    <3> QED
      BY <1>1, <3>1
  <2>2. RootsOf(T) = {Global(r)} /\ Global(r) \in DOMAIN T.span
    BY <1>1, <1>2, <1>3, <1>6, <2>1
  <2>3. T.span[Global(r)] = <<B(1) + 1, E>>
    <3>1. r \in 1..N /\ Macro.span[r][1] = 1 /\ Macro.span[r][2] = UnitCount
      BY <1>1, <2>1
    <3> QED
      BY <1>2, <3>1 DEF E
  <2>4. B(1) = 0 /\ 0 + 1 = 1
    BY <1>1, OffsetFacts
  <2> QED
    BY <2>2, <2>3, <2>4
<1>11. \A j \in 1..N : ~IsEdu(Macro, j) => \A e : T.span[Global(j)] # <<e, e>>
  <2> SUFFICES ASSUME NEW j \in 1..N, ~IsEdu(Macro, j), NEW e, T.span[Global(j)] = <<e, e>> PROVE FALSE
    OBVIOUS
  <2>1. <<B(Macro.span[j][1]) + 1, B(Macro.span[j][2] + 1)>> = <<e, e>>
    BY <1>2
  <2>2. B(Macro.span[j][1]) + 1 = B(Macro.span[j][2] + 1)
    BY <2>1
  <2>3. Macro.span[j][1] # Macro.span[j][2]
    BY DEF IsEdu
  <2>4. B(Macro.span[j][1]) + 1 # B(Macro.span[j][2] + 1)
    BY <1>1, <2>3, UnitEdus
  <2> QED
    BY <2>2, <2>4
<1>12. ASSUME NEW e \in 1..E PROVE OneOf({i \in DOMAIN T.span : T.span[i] = <<e, e>>})
  <2>1. PICK i \in 1..UnitsEnd : AllSpans[i] = <<e, e>> /\ \A j \in 1..UnitsEnd : AllSpans[j] = <<e, e>> => j = i
    BY <1>1, PartLeaves DEF E
  <2>2. \A j \in (UnitsEnd + 1)..End : T.span[j] # <<e, e>>
    BY <1>5, <1>11
  <2>3. {j \in DOMAIN T.span : T.span[j] = <<e, e>>} = {i}
    BY <1>2, <1>7, <1>8, <2>1, <2>2
  <2> QED
    BY <2>3 DEF OneOf
<1>13. IsTreeOver(T, E)
  BY <1>3, <1>9, <1>10, <1>12 DEF IsTreeOver
<1>14. \A u \in 1..UnitCount : \E i \in DOMAIN T.span : T.span[i] = <<B(u) + 1, B(u + 1)>>
  <2> TAKE u \in 1..UnitCount
  <2>1. UnitRoot(u) \in 1..UnitsEnd /\ AllSpans[UnitRoot(u)] = <<B(u) + 1, B(u + 1)>>
    BY <1>1, RootAt
  <2> QED
    BY <1>2, <1>8, <2>1
<1>15. \A i \in DOMAIN Macro.span : \E j \in DOMAIN T.span : T.span[j] = <<B(Macro.span[i][1]) + 1, B(Macro.span[i][2] + 1)>>
  BY <1>1, <1>2, <1>6
<1> QED
  BY <1>1, <1>13, <1>14, <1>15 DEF WholeTree, TotalEdus, E, T

-----------------------------------------------------------------------------
\* A document with sections, whose number does not change.
Sectioned == status = "sections" /\ ~presegmented /\ Len(groups) \in Nat \ {0}
(***************************************************************************)
(* Parsing waits for the plan and goes through its units: each tree so far *)
(* is over as many EDUs as its unit may have, and so will be the one in    *)
(* the decoder.                                                            *)
(***************************************************************************)
PartsParsed ==
    /\ Len(results) <= Needed
    /\ results # <<>> \/ stage # "idle" \/ joined # NoTree => Planned
    /\ stage # "idle" => Len(results) < Needed /\ edus \in EduCounts(Len(results) + 1)
    /\ \A u \in DOMAIN results : \E n \in EduCounts(u) : Binary(results[u], n)
(***************************************************************************)
(* The inductive invariant of a document that is parsed in parts: its plan *)
(* or sections, its decoder, the trees so far and the tree of them all.    *)
(***************************************************************************)
DocumentInv ==
    /\ Sectioned \/ PlanInv
    /\ hierarchical <=> status = "sections"
    /\ DecoderInv /\ results \in Seq(Trees) /\ PartsParsed
    /\ joined # NoTree => Len(results) = Needed /\ WholeTree(joined)

(***************************************************************************)
(* How many units and trees there are.                                     *)
(***************************************************************************)
LEMMA PlannedUnits ==
    ASSUME Sectioned \/ PlanInv
    PROVE  /\ UnitCount \in Nat /\ Needed \in Nat /\ (Planned => UnitCount # 0)
           /\ status = "subdivided" => UnitCount = Len(groups)
           /\ PlanInv => status # "sections"
<1>1. UnitCount \in Nat /\ (Planned => UnitCount # 0) /\ (status = "subdivided" => UnitCount = Len(groups))
  <2>1. CASE Sectioned
    BY <2>1 DEF Sectioned, UnitCount
  <2>2. CASE PlanInv
    <3>1. status = "subdivided" => groups # <<>>
      <4>1. Len(segments) \in Nat /\ Len(segments) > 0
        BY <2>2, SegmentFacts DEF PlanInv
      <4> QED
        BY <2>2, <4>1 DEF PlanInv, GroupsWhole, Settled
    <3>2. groups \in Seq(Nat \X Nat)
      BY <2>2 DEF PlanInv, GroupsWhole
    <3>3. Len(groups) \in Nat /\ (groups # <<>> => Len(groups) # 0)
      BY <3>2, EmptySeq
    <3>4. status # "sections"
      BY <2>2 DEF PlanInv, Settled
    <3> QED
      BY <3>1, <3>3, <3>4 DEF UnitCount, Planned
  <2> QED
    BY <2>1, <2>2
<1>2. Needed \in Nat
  BY <1>1 DEF Needed
<1> QED
  BY <1>1, <1>2 DEF PlanInv, Settled

(***************************************************************************)
(* A unit has EDUs: the model finds some, or its source segments are its   *)
(* EDUs and the plan gave it one to start with.                            *)
(***************************************************************************)
LEMMA UnitsHaveEdus ==
    ASSUME Sectioned \/ PlanInv, Planned, NEW u \in Nat \ {0}, NEW n \in EduCounts(u)
    PROVE  n \in Nat \ {0}
<1>2. UnitCount \in Nat \ {0} /\ (status = "subdivided" => UnitCount = Len(groups))
  BY PlannedUnits
<1>3. CASE u > UnitCount
  BY <1>2, <1>3 DEF EduCounts
<1>4. CASE ~(u > UnitCount) /\ ~presegmented
  <2>1. n \in 1..MaxEdus
    BY <1>4 DEF EduCounts
  <2> QED
    BY <2>1, DecoderAssumption DEF DecoderAssumption
<1>5. CASE ~(u > UnitCount) /\ presegmented
  <2> DEFINE range == IF status = "subdivided" THEN groups[u] ELSE <<1, Len(segments)>>
             sources == {i \in range[1]..range[2] : segments[i].source}
  <2>1. PlanInv
    BY <1>5 DEF Sectioned
  <2>2. Len(segments) \in Nat /\ Len(segments) > 0
    BY <2>1, SegmentFacts DEF PlanInv
  <2>3. range[1] \in Nat /\ range[2] \in Nat /\ range[1] <= range[2] /\ segments[range[1]].source
    <3>1. CASE status = "subdivided"
      <4>1. groups \in Seq(Nat \X Nat)
        BY <2>1 DEF PlanInv, GroupsWhole
      <4>2. DOMAIN groups = 1..Len(groups) /\ u \in 1..Len(groups)
        BY <1>2, <1>5, <3>1, <4>1, LenProperties
      <4>3. groups[u] \in Nat \X Nat
        BY <4>1, <4>2, ElementOfSeq
      <4>4. groups[u][1] <= groups[u][2] /\ segments[groups[u][1]].source
        BY <2>1, <4>2 DEF PlanInv, GroupsWhole
      <4> QED
        BY <3>1, <4>3, <4>4
    <3>2. CASE status # "subdivided"
      <4>1. 1 \in DOMAIN segments /\ 1 % 2 = 1
        BY <2>1, <2>2, SegmentFacts DEF PlanInv
      <4>2. segments[1].source
        BY <2>1, <4>1 DEF PlanInv, Prepared
      <4> QED
        BY <2>2, <3>2, <4>2
    <3> QED
      BY <3>1, <3>2
  <2>4. SourcesIn(u) = Cardinality(sources)
    BY DEF SourcesIn
  <2> HIDE DEF range
  <2>5. IsFiniteSet(sources) /\ sources # {}
    <3>1. IsFiniteSet(range[1]..range[2]) /\ range[1] \in sources
      <4>1. range[1] \in Int /\ range[2] \in Int /\ range[1] \in range[1]..range[2]
        BY <2>3
      <4>2. IsFiniteSet(range[1]..range[2])
        BY <4>1, FS_Interval
      <4> QED
        BY <2>3, <4>1, <4>2
    <3>2. sources \in SUBSET (range[1]..range[2])
      OBVIOUS
    <3> HIDE DEF sources
    <3> QED
      BY <3>1, <3>2, FS_Subset
  <2>6. n = SourcesIn(u)
    BY <1>5 DEF EduCounts
  <2> HIDE DEF sources
  <2>7. Cardinality(sources) \in Nat /\ Cardinality(sources) # 0
    BY <2>5, FS_CardinalityType, FS_EmptySet
  <2> QED
    BY <2>4, <2>6, <2>7
<1> QED
  BY <1>3, <1>4, <1>5

(***************************************************************************)
(* Once all trees are there they can be joined, and each unit's tree has   *)
(* as many EDUs as the unit may have.                                      *)
(***************************************************************************)
LEMMA PartsReady ==
    ASSUME DocumentInv, Planned, Len(results) = Needed
    PROVE  /\ Ready /\ \A u \in 1..UnitCount : LeafCount[u] \in EduCounts(u)
           /\ IF hierarchical /\ UnitCount > 1 THEN Sections ELSE Len(results) = UnitCount
<1>1. Sectioned \/ PlanInv
  BY DEF DocumentInv
<1>2. UnitCount \in Nat \ {0}
  BY <1>1, PlannedUnits
<1>3. Len(results) = IF hierarchical /\ UnitCount > 1 THEN UnitCount + 1 ELSE UnitCount
  BY DEF Needed
<1>4. results \in Seq(Trees) /\ DOMAIN results = 1..Len(results) /\ Len(results) \in Nat
  BY LenProperties DEF DocumentInv
<1>5. ASSUME NEW u \in DOMAIN results PROVE \E n \in EduCounts(u) : n \in Nat \ {0} /\ Binary(results[u], n)
  <2>1. u \in Nat \ {0}
    BY <1>4
  <2>2. PICK n \in EduCounts(u) : Binary(results[u], n)
    BY DEF DocumentInv, PartsParsed
  <2> QED
    BY <1>1, <2>1, <2>2, UnitsHaveEdus
<1>6. Ready
  <2>1. Len(results) >= UnitCount
    BY <1>2, <1>3
  <2> QED
    BY <1>2, <1>4, <1>5, <2>1 DEF Ready
<1>7. ASSUME NEW u \in 1..UnitCount PROVE LeafCount[u] \in EduCounts(u)
  <2>1. u \in DOMAIN results
    BY <1>2, <1>3, <1>4
  <2>2. PICK n \in EduCounts(u) : n \in Nat \ {0} /\ Binary(results[u], n)
    BY <1>5, <2>1
  <2>3. Cardinality({i \in DOMAIN results[u].span : IsEdu(results[u], i)}) = n
    BY <2>2, LeavesAreEdus
  <2>4. LeafCount[u] = n
    BY <2>1, <2>3 DEF LeafCount
  <2> QED
    BY <2>2, <2>4
<1>8. ASSUME hierarchical, UnitCount > 1 PROVE Sections
  <2>1. UnitCount + 1 \in DOMAIN results /\ UnitCount + 1 > UnitCount
    BY <1>2, <1>3, <1>4, <1>8
  <2>2. EduCounts(UnitCount + 1) = {UnitCount}
    BY <2>1 DEF EduCounts
  <2>3. Binary(results[UnitCount + 1], UnitCount)
    BY <1>5, <2>1, <2>2
  <2> QED
    BY <1>3, <1>6, <1>8, <2>3 DEF Sections, Macro
<1> QED
  BY <1>3, <1>6, <1>7, <1>8

(***************************************************************************)
(* The one tree of a document that is not divided is its tree.             *)
(***************************************************************************)
LEMMA SingleIsWhole ==
    ASSUME Ready, UnitCount = 1
    PROVE  WholeTree(results[1])
<1> DEFINE t == results[1]
           n == LeafCount[1]
<1>1. 1 \in 1..Len(results)
  BY CountsFacts DEF Ready
<1>2. n \in Nat \ {0} /\ Binary(t, n)
  BY <1>1, CountsFacts
<1>3. EdusBefore(1) = 0 /\ EdusBefore(1 + 1) = n
  <2>1. EdusBefore(1) = 0 /\ EdusBefore(1 + 1) = EdusBefore(1) + n
    BY <1>1, OffsetFacts
  <2> QED
    BY <1>2, <2>1
<1> HIDE DEF t, n
<1>4. IsTreeOver(t, n) /\ \A i \in DOMAIN t.span : SplitsNamed(t, i)
  BY <1>2 DEF Binary
<1>5. \E r \in DOMAIN t.span : t.span[r] = <<1, n>>
  BY <1>2, BinaryRoot
<1>6. \A u \in 1..1 : u = 1
  OBVIOUS
<1>7. 0 + 1 = 1 /\ ~(1 > 1)
  OBVIOUS
<1> QED
  BY <1>3, <1>4, <1>5, <1>6, <1>7 DEF WholeTree, TotalEdus, t

(***************************************************************************)
(* The units of a presegmented document have its source segments as EDUs,  *)
(* every one of them.                                                      *)
(***************************************************************************)
LEMMA SourcesKept ==
    ASSUME DocumentInv, Planned, Len(results) = Needed, presegmented
    PROVE  TotalEdus = Cardinality({i \in DOMAIN segments : segments[i].source})
<1> DEFINE Src(a, b) == {i \in a..b : segments[i].source}
           B(u) == EdusBefore(u)
<1>1. PlanInv /\ UnitCount \in Nat \ {0} /\ ~hierarchical
  <2>1. PlanInv
    BY DEF DocumentInv, Sectioned
  <2> QED
    BY <2>1, PlannedUnits DEF DocumentInv
<1>2. /\ Len(segments) \in Nat /\ Len(segments) > 0 /\ DOMAIN segments = 1..Len(segments)
  BY <1>1, SegmentFacts DEF PlanInv
<1>3. Ready /\ Len(results) = UnitCount /\ \A u \in 1..UnitCount : LeafCount[u] \in EduCounts(u)
  BY <1>1, PartsReady
<1>4. \A u \in 1..UnitCount : LeafCount[u] = SourcesIn(u)
  <2> TAKE u \in 1..UnitCount
  <2>1. ~(u > UnitCount)
    BY <1>1
  <2> QED
    BY <1>3, <2>1 DEF EduCounts
<1>5. B(1) = 0 /\ \A u \in 1..UnitCount : B(u) \in Nat /\ B(u + 1) = B(u) + LeafCount[u] /\ LeafCount[u] \in Nat
  <2>1. \A u \in 1..UnitCount : u \in 1..(Len(results) + 1)
    BY <1>1, <1>3
  <2> QED
    BY <1>3, <2>1, OffsetFacts, CountsFacts
<1>6. TotalEdus = B(UnitCount + 1)
  BY DEF TotalEdus
<1> HIDE DEF B
<1>7. CASE status # "subdivided"
  <2>1. UnitCount = 1
    BY <1>1, <1>7 DEF UnitCount, Planned, PlanInv, Settled
  <2>2. SourcesIn(1) = Cardinality(Src(1, Len(segments)))
    BY <1>7 DEF SourcesIn
  <2>3. 1 \in 1..UnitCount
    BY <2>1
  <2>4. B(1 + 1) = LeafCount[1]
    BY <1>5, <2>3
  <2> QED
    BY <1>2, <1>4, <1>6, <2>1, <2>2, <2>3, <2>4
<1>8. CASE status = "subdivided"
  <2> DEFINE M == UnitCount
             S == {u \in Nat : u \in 1..M => B(u + 1) = Cardinality(Src(1, groups[u][2]))}
  <2>1. /\ M = Len(groups) /\ groups \in Seq(Nat \X Nat) /\ groups # <<>> /\ DOMAIN groups = 1..M
        /\ groups[1][1] = 1 /\ groups[M][2] = Len(segments)
        /\ \A u \in 1..(M - 1) : groups[u + 1][1] = groups[u][2] + 1
        /\ \A u \in 1..M : groups[u][1] <= groups[u][2]
    <3>1. M = Len(groups) /\ groups \in Seq(Nat \X Nat)
      BY <1>1, <1>8, PlannedUnits DEF PlanInv, GroupsWhole
    <3>2. groups # <<>> /\ DOMAIN groups = 1..M
      BY <1>1, <3>1, EmptySeq, LenProperties
    <3>3. start = Len(segments) + 1
      BY <1>1, <1>8 DEF PlanInv, Settled
    <3>4. start - 1 = Len(segments)
      BY <1>2, <3>3
    <3> HIDE DEF M
    <3> QED
      BY <1>1, <3>1, <3>2, <3>4 DEF PlanInv, GroupsWhole
  <2>2. \A u \in 1..M : groups[u][1] \in Nat /\ groups[u][2] \in Nat
    <3>1. \A u \in 1..M : groups[u] \in Nat \X Nat
      BY <2>1, ElementOfSeq
    <3> QED
      BY <3>1
  <2>3. \A u \in 1..M : LeafCount[u] = Cardinality(Src(groups[u][1], groups[u][2]))
    BY <1>4, <1>8 DEF SourcesIn
  <2>4. ASSUME NEW a \in Nat, NEW b \in Nat PROVE IsFiniteSet(Src(a, b)) /\ Cardinality(Src(a, b)) \in Nat
    <3>1. IsFiniteSet(a..b)
      BY FS_Interval
    <3>2. Src(a, b) \subseteq a..b
      OBVIOUS
    <3> HIDE DEF Src
    <3> QED
      BY <3>1, <3>2, FS_Subset, FS_CardinalityType
  <2>5. ASSUME NEW a \in Nat, NEW b \in Nat, a <= b
        PROVE  Cardinality(Src(1, b)) = Cardinality(Src(1, a)) + Cardinality(Src(a + 1, b))
    <3>1. Src(1, b) = Src(1, a) \cup Src(a + 1, b) /\ Src(1, a) \cap Src(a + 1, b) = {}
      BY <2>5
    <3>2. IsFiniteSet(Src(1, a)) /\ IsFiniteSet(Src(a + 1, b)) /\ Cardinality(Src(1, a)) \in Nat /\ Cardinality(Src(a + 1, b)) \in Nat
      <4>1. 1 \in Nat /\ a + 1 \in Nat
        OBVIOUS
      <4> HIDE DEF Src
      <4> QED
        BY <2>4, <4>1
    <3> HIDE DEF Src
    <3>3. Cardinality(Src(1, b)) = Cardinality(Src(1, a)) + Cardinality(Src(a + 1, b)) - Cardinality({})
      BY <3>1, <3>2, FS_Union
    <3> QED
      BY <3>2, <3>3, FS_EmptySet
  <2> HIDE DEF M, Src
  <2>6. M \in Nat \ {0} /\ \A u \in 1..M : B(u) \in Nat /\ B(u + 1) = B(u) + LeafCount[u]
    BY <1>1, <1>5 DEF M
  <2>7. 0 \in S
    BY <2>6
  <2>8. ASSUME NEW u \in Nat, u \in S PROVE u + 1 \in S
    <3> SUFFICES ASSUME u + 1 \in 1..M PROVE B((u + 1) + 1) = Cardinality(Src(1, groups[u + 1][2]))
      OBVIOUS
    <3>1. B((u + 1) + 1) = B(u + 1) + Cardinality(Src(groups[u + 1][1], groups[u + 1][2])) /\ B(u + 1) \in Nat
      BY <2>3, <2>6
    <3>2. CASE u = 0
      <4>1. Cardinality(Src(1, groups[1][2])) \in Nat
        <5>1. 1 \in Nat /\ 1 \in 1..M
          BY <2>6
        <5> QED
          BY <2>2, <2>4, <5>1
      <4> QED
        BY <1>5, <2>1, <3>1, <3>2, <4>1
    <3>3. CASE u # 0
      <4>1. u \in 1..M /\ u \in 1..(M - 1)
        BY <2>6, <3>3
      <4>2. B(u + 1) = Cardinality(Src(1, groups[u][2])) /\ groups[u + 1][1] = groups[u][2] + 1
        BY <2>1, <2>8, <4>1
      <4>3. groups[u][2] \in Nat /\ groups[u + 1][2] \in Nat /\ groups[u][2] <= groups[u + 1][2]
        <5>1. groups[u][2] \in Nat /\ groups[u + 1][2] \in Nat /\ groups[u + 1][1] <= groups[u + 1][2]
          BY <2>1, <2>2, <4>1
        <5> QED
          BY <4>2, <5>1
      <4> QED
        BY <2>5, <3>1, <4>2, <4>3
    <3> QED
      BY <3>2, <3>3
  <2> HIDE DEF S
  <2>9. Nat \subseteq S
    BY <2>7, <2>8, Induct
  <2>10. M \in 1..M /\ M \in Nat
    BY <2>6
  <2>11. B(M + 1) = Cardinality(Src(1, groups[M][2]))
    BY <2>9, <2>10 DEF S
  <2> QED
    BY <1>2, <1>6, <2>1, <2>11 DEF M, Src
<1> QED
  BY <1>7, <1>8

(***************************************************************************)
(* The invariant holds of a document before it is planned, or divided into *)
(* sections.                                                               *)
(***************************************************************************)
LEMMA InitDocument == DocInit \/ SectionsInit => DocumentInv
<1> SUFFICES ASSUME DocInit \/ SectionsInit PROVE DocumentInv
  OBVIOUS
<1>1. DecoderInv
  BY DEF DocInit, SectionsInit, DecoderInit, DecoderInv
<1>2. results = <<>> /\ joined = NoTree /\ stage = "idle"
  BY DEF DocInit, SectionsInit, DecoderInit
<1>3. Sectioned \/ PlanInv
  <2>1. CASE DocInit
    BY <2>1, InitPlan DEF DocInit
  <2>2. CASE SectionsInit
    <3>1. PICK n \in 1..MaxSections : groups = [u \in 1..n |-> <<u, u>>]
      BY <2>2 DEF SectionsInit
    <3>2. n \in Nat \ {0}
      BY <3>1, DocumentAssumption DEF DocumentAssumption
    <3>3. Len(groups) = n
      BY <3>1, <3>2
    <3> QED
      BY <2>2, <3>2, <3>3 DEF Sectioned, SectionsInit
  <2> QED
    BY <2>1, <2>2
<1>4. hierarchical <=> status = "sections"
  BY DEF DocInit, PlanInit, SectionsInit
<1>5. results \in Seq(Trees) /\ Len(results) = 0 /\ DOMAIN results = {}
  BY <1>2, EmptySeq
<1>6. PartsParsed
  <2>1. Needed \in Nat
    BY <1>3, PlannedUnits
  <2> QED
    BY <1>2, <1>5, <2>1 DEF PartsParsed
<1> QED
  BY <1>1, <1>2, <1>3, <1>4, <1>5, <1>6 DEF DocumentInv

(***************************************************************************)
(* Steps that leave the decoder alone keep its invariant.                  *)
(***************************************************************************)
LEMMA SameDecoder == ASSUME DecoderInv, UNCHANGED decoding PROVE DecoderInv'
<1>1. UNCHANGED <<decoder, stage, edus, pending, shifted, relations, tree>>
  BY DEF decoding
<1>2. ValidRelations' <=> ValidRelations
  BY <1>1 DEF ValidRelations
<1>3. TopDown' <=> TopDown
  BY <1>1 DEF TopDown, Handled, Emitted, Held
<1>4. BottomUp' <=> BottomUp
  BY <1>1 DEF BottomUp
<1>5. Binary(tree, edus)' <=> Binary(tree, edus)
  BY <1>1
<1> QED
  BY <1>1, <1>2, <1>3, <1>4, <1>5 DEF DecoderInv

(***************************************************************************)
(* What is planned and parsed determines what the document's tree has to   *)
(* be.                                                                     *)
(***************************************************************************)
LEMMA SamePlan ==
    ASSUME UNCHANGED <<planning, hierarchical, presegmented>>
    PROVE  UnitCount' = UnitCount /\ Needed' = Needed /\ (Planned' <=> Planned) /\ \A u : EduCounts(u)' = EduCounts(u)
<1>1. UNCHANGED <<segments, groups, status>>
  BY DEF planning
<1>2. UnitCount' = UnitCount /\ (Planned' <=> Planned)
  BY <1>1 DEF UnitCount, Planned
<1>3. \A u : SourcesIn(u)' = SourcesIn(u)
  BY <1>1 DEF SourcesIn
<1> QED
  BY <1>2, <1>3 DEF Needed, EduCounts

LEMMA SameParts ==
    ASSUME UNCHANGED <<planning, hierarchical, presegmented, results>>, NEW T, WholeTree(T), joined' = T
    PROVE  WholeTree(joined)'
<1>1. UnitCount' = UnitCount
  BY SamePlan
<1>2. LeafCount' = LeafCount /\ Macro' = Macro
  BY <1>1 DEF LeafCount, Macro
<1>3. \A u : EdusBefore(u)' = EdusBefore(u)
  BY <1>2 DEF EdusBefore
<1>4. TotalEdus' = TotalEdus
  BY <1>1, <1>3 DEF TotalEdus
<1> QED
  BY <1>1, <1>2, <1>3, <1>4 DEF WholeTree

(***************************************************************************)
(* Planning comes before any tree; parsing a unit starts a decoder that is *)
(* idle, for as many EDUs as the unit may have; a tree is collected only   *)
(* when its decoder has converted it; and the trees are joined only when   *)
(* all of them are there.                                                  *)
(***************************************************************************)
LEMMA NextDocument == DocumentInv /\ [DocNext]_docVars => DocumentInv'
<1> SUFFICES ASSUME DocumentInv, [DocNext]_docVars PROVE DocumentInv'
  OBVIOUS
<1>1. (Sectioned \/ PlanInv)' /\ (hierarchical' <=> status' = "sections")
  <2>1. PlanNext \/ UNCHANGED planning
    BY DEF DocNext, docVars, ParseUnit, Decode, Collect, Recombine, Stitch, Single
  <2>2. presegmented' = presegmented /\ hierarchical' = hierarchical
    BY DEF DocNext, docVars, assembly, ParseUnit, Decode, Collect, Recombine, Stitch, Single
  <2>3. CASE Sectioned
    <3>1. ~PlanNext
      BY <2>3 DEF Sectioned, PlanNext, NotPlanned, RefusePlan, Group, Plan
    <3> QED
      BY <2>1, <2>2, <2>3, <3>1 DEF Sectioned, planning, DocumentInv
  <2>4. CASE PlanInv
    <3>1. PlanInv'
      BY <2>1, <2>4, NextPlan
    <3> QED
      BY <2>2, <2>4, <3>1 DEF PlanInv, Settled, DocumentInv
  <2> QED
    BY <2>3, <2>4 DEF DocumentInv
<1>2. /\ DecoderInv /\ results \in Seq(Trees) /\ PartsParsed
      /\ joined # NoTree => Len(results) = Needed /\ WholeTree(joined)
      /\ UnitCount \in Nat /\ Needed \in Nat /\ Len(results) \in Nat
  BY PlannedUnits DEF DocumentInv
<1>3. SUFFICES /\ DecoderInv' /\ results' \in Seq(Trees) /\ PartsParsed'
               /\ joined' # NoTree => Len(results') = Needed' /\ WholeTree(joined)'
  BY <1>1 DEF DocumentInv
<1>4. CASE PlanNext /\ UNCHANGED <<decoding, assembly>>
  <2>1. ~Planned
    BY <1>4 DEF PlanNext, NotPlanned, RefusePlan, Group, Plan, Planned
  <2>2. results' = <<>> /\ joined' = NoTree /\ stage' = "idle"
    BY <1>2, <1>4, <2>1 DEF PartsParsed, decoding, assembly
  <2>3. DecoderInv'
    BY <1>2, <1>4, SameDecoder
  <2>4. Needed' \in Nat
    <3>1. Len(groups') \in Nat
      BY <1>1 DEF Sectioned, PlanInv, GroupsWhole
    <3> QED
      BY <3>1 DEF Needed, UnitCount
  <2>5. results' \in Seq(Trees) /\ Len(results') = 0 /\ DOMAIN results' = {}
    BY <2>2, EmptySeq
  <2> QED
    BY <2>2, <2>3, <2>4, <2>5 DEF PartsParsed
<1>5. CASE UNCHANGED <<planning, hierarchical, presegmented>>
  <2>1. UnitCount' = UnitCount /\ Needed' = Needed /\ (Planned' <=> Planned) /\ \A u : EduCounts(u)' = EduCounts(u)
    BY <1>5, SamePlan
  <2>2. CASE ParseUnit
    <3>1. PICK n \in EduCounts(Len(results) + 1) : Begin(n)
      BY <2>2 DEF ParseUnit
    <3>2. n \in Nat \ {0}
      <4>1. Len(results) + 1 \in Nat \ {0} /\ Planned
        BY <1>2, <2>2 DEF ParseUnit
      <4> QED
        BY <3>1, <4>1, UnitsHaveEdus DEF DocumentInv
    <3>3. DecoderInv'
      BY <1>2, <3>1, <3>2, Begins
    <3>4. results' = results /\ joined' = NoTree /\ Planned /\ Len(results) < Needed
      BY <2>2 DEF ParseUnit, assembly
    <3>5. edus' = n
      BY <3>1 DEF Begin
    <3>6. PartsParsed'
      BY <1>2, <2>1, <3>1, <3>4, <3>5 DEF PartsParsed
    <3> QED
      BY <1>2, <3>3, <3>4, <3>6
  <2>3. CASE Decode
    <3>1. DecoderInv'
      BY <1>2, <2>3, Splits, Shifts, Reduces, Conversion DEF Decode
    <3>2. results' = results /\ joined' = joined /\ edus' = edus /\ stage # "idle"
      BY <2>3 DEF Decode, assembly, Split, Shift, Reduce, Convert
    <3>3. PartsParsed'
      BY <1>2, <2>1, <3>2 DEF PartsParsed
    <3>4. joined' = NoTree
      BY <1>2, <3>2 DEF PartsParsed
    <3> QED
      BY <1>2, <3>1, <3>2, <3>3, <3>4
  <2>4. CASE Collect
    <3>1. /\ stage = "converted" /\ Binary(tree, edus) /\ results' = Append(results, tree) /\ stage' = "idle" /\ joined' = joined
          /\ Len(results) < Needed /\ edus \in EduCounts(Len(results) + 1) /\ Planned
      BY <1>2, <2>4 DEF Collect, DecoderInv, PartsParsed
    <3>2. joined' = NoTree
      BY <1>2, <3>1
    <3>3. tree \in Trees
      BY <3>1 DEF Binary
    <3>4. /\ results' \in Seq(Trees) /\ Len(results') = Len(results) + 1
          /\ \A u \in DOMAIN results' : (u \in DOMAIN results /\ results'[u] = results[u]) \/ (u = Len(results) + 1 /\ results'[u] = tree)
      BY <1>2, <3>1, <3>3
    <3>5. DecoderInv'
      BY <2>4 DEF Collect, DecoderInv
    <3>6. \A u \in DOMAIN results' : \E n \in EduCounts(u) : Binary(results'[u], n)
      BY <1>2, <3>1, <3>4 DEF PartsParsed
    <3>7. Len(results') <= Needed
      BY <1>2, <3>1, <3>4
    <3>8. PartsParsed'
      BY <2>1, <3>1, <3>2, <3>6, <3>7 DEF PartsParsed
    <3> QED
      BY <3>2, <3>4, <3>5, <3>8
  <2>5. ASSUME UNCHANGED <<decoding, results>>, NEW T, joined' = T, T # NoTree => Planned /\ Len(results) = Needed /\ WholeTree(T)
        PROVE  /\ DecoderInv' /\ results' \in Seq(Trees) /\ PartsParsed'
               /\ joined' # NoTree => Len(results') = Needed' /\ WholeTree(joined)'
    <3>1. DecoderInv'
      BY <1>2, <2>5, SameDecoder
    <3>2. PartsParsed'
      <4>1. stage' = stage /\ edus' = edus /\ results' = results
        BY <2>5 DEF decoding
      <4> QED
        BY <1>2, <2>1, <2>5, <4>1 DEF PartsParsed
    <3>3. T # NoTree => WholeTree(joined)'
      BY <1>5, <2>5, SameParts
    <3> QED
      BY <1>2, <2>1, <2>5, <3>1, <3>2, <3>3
  <2>6. ASSUME Len(results) = Needed, results # <<>> PROVE Planned
    BY <1>2, <2>6 DEF PartsParsed
  <2>7. Len(results) # 0 => results # <<>>
    BY EmptySeq
  <2>8. CASE Recombine
    <3>1. UNCHANGED <<decoding, results>> /\ joined' = Recombined /\ Len(results) = Needed /\ ~hierarchical /\ UnitCount > 1
      BY <2>8 DEF Recombine
    <3>2. Planned
      BY <1>2, <2>6, <2>7, <3>1 DEF Needed
    <3>3. WholeTree(Recombined)
      BY <3>1, <3>2, PartsReady, RecombinedIsWhole
    <3> QED
      BY <2>5, <3>1, <3>2, <3>3
  <2>9. CASE Stitch
    <3>1. UNCHANGED <<decoding, results>> /\ joined' = Stitched /\ Len(results) = Needed /\ hierarchical /\ UnitCount > 1
      BY <2>9 DEF Stitch
    <3>2. Planned
      BY <1>2, <2>6, <2>7, <3>1 DEF Needed
    <3>3. WholeTree(Stitched)
      BY <3>1, <3>2, PartsReady, StitchedIsWhole
    <3> QED
      BY <2>5, <3>1, <3>2, <3>3
  <2>10. CASE Single
    <3>1. UNCHANGED <<decoding, results>> /\ joined' = results[1] /\ Len(results) = Needed /\ Needed = 1
      BY <2>10 DEF Single
    <3>2. Planned
      BY <2>6, <2>7, <3>1
    <3>3. UnitCount = 1
      BY <1>2, <3>1 DEF Needed
    <3>4. WholeTree(results[1])
      BY <3>1, <3>2, <3>3, PartsReady, SingleIsWhole
    <3> QED
      BY <2>5, <3>1, <3>2, <3>4
  <2>11. CASE UNCHANGED <<decoding, results, joined>>
    BY <1>2, <2>5, <2>11 DEF PartsParsed
  <2> QED
    BY <1>4, <2>2, <2>3, <2>4, <2>8, <2>9, <2>10, <2>11 DEF DocNext, docVars, assembly
<1> QED
  BY <1>4, <1>5 DEF DocNext, docVars, assembly, ParseUnit, Decode, Collect, Recombine, Stitch, Single

(***************************************************************************)
(* The decoders' stacks and trees are as they should be at every step of a *)
(* document's analysis, for units of any number of EDUs, every choice of   *)
(* the network, and any number of units or sections.                       *)
(***************************************************************************)
THEOREM DocumentsKept == (DocInit \/ SectionsInit) /\ [][DocNext]_docVars => []DocumentInv
BY InitDocument, NextDocument, PTL

(***************************************************************************)
(* Whatever relations the network's scores choose, the tree that           *)
(* construct_tree and du_to_analysis make of them is one binary tree over  *)
(* exactly the unit's EDUs, its decisions name the ends of the left        *)
(* children, and the top-down parser never refuses its own tree.           *)
(***************************************************************************)
THEOREM TreesCovered == (DocInit \/ SectionsInit) /\ [][DocNext]_docVars => []TreesCoverEdus
<1>1. DocumentInv => TreesCoverEdus
  BY DEF DocumentInv, DecoderInv, Binary, TreesCoverEdus, TreeCoversEdus
<1> QED
  BY <1>1, DocumentsKept, PTL

(***************************************************************************)
(* The tree of a document, recombined from any number of planned units or  *)
(* stitched from any number of sections, is one tree over all their EDUs   *)
(* in which every unit and every span of the macro tree has its node, the  *)
(* decisions of the units name their own splits, and no EDU of a           *)
(* presegmented document is lost between two units.                        *)
(***************************************************************************)
THEOREM JoinedWhole == (DocInit \/ SectionsInit) /\ [][DocNext]_docVars => []JoinedTreeIsWhole
<1>1. DocumentInv => JoinedTreeIsWhole
  <2> SUFFICES ASSUME DocumentInv, joined # NoTree
               PROVE  WholeTree(joined) /\ (presegmented => TotalEdus = Cardinality({i \in DOMAIN segments : segments[i].source}))
    BY DEF JoinedTreeIsWhole
  <2>1. Planned /\ Len(results) = Needed /\ WholeTree(joined)
    BY DEF DocumentInv, PartsParsed
  <2> QED
    BY <2>1, SourcesKept
<1> QED
  BY <1>1, DocumentsKept, PTL

-----------------------------------------------------------------------------
(***************************************************************************)
(* Discourse graphs.  The searches for cycles follow a path, the one of    *)
(* the units expanded on the stack; what is left has no cycle, and a unit  *)
(* met again on the path closes one.  Reachability and membership need     *)
(* only as many rounds as there are units.  The frontier that the loop of  *)
(* _validate_right_frontier grows stays inside the one of the definition,  *)
(* and is all of it once nothing is added.                                 *)
(***************************************************************************)
\* The parts of WellFormed, by the validator that decides each.
MembershipAcyclic == IsAcyclic([u \in Units |-> IF u \in Cdus THEN proposal.members[u] ELSE {}])
RelationsAcyclic == IsAcyclic([u \in Units |-> {r.target : r \in {s \in Relations : s.source = u}}])
Attached(k) == \E r \in Relations : r.target = k /\ r.source \in RightFrontier(k)

\* The units that the search has left.
Done == {u \in Units : mark[u] = 2}
Visit == [unit : Units, expanded : BOOLEAN]

\* The three values of a mark, and the stack of visits.
SearchType == mark \in [Units -> 0..2] /\ visits \in Seq(Visit)

\* What the search has left has no cycle, and leads nowhere else.
DoneIsAcyclic ==
    /\ \A u \in Done : Targets(u) \subseteq Done
    /\ \A S \in SUBSET Done : S # {} => \E u \in S : Targets(u) \cap S = {}

\* The units entered are those expanded on the stack, each once; every visit comes from the last one expanded below it.
EnteredIsPath ==
    /\ \A u \in Units : mark[u] = 1 <=> \E p \in DOMAIN visits : visits[p].expanded /\ visits[p].unit = u
    /\ \A p, q \in DOMAIN visits : visits[p].expanded /\ visits[q].expanded /\ visits[p].unit = visits[q].unit => p = q
    /\ \A p \in DOMAIN visits : p > 1 =>
          \E q \in 1..(p - 1) : /\ visits[q].expanded /\ visits[p].unit \in Targets(visits[q].unit)
                                /\ \A r \in (q + 1)..(p - 1) : ~visits[r].expanded

\* The targets of an entered unit have been left or wait above it.
TargetsAwait ==
    \A p \in DOMAIN visits : visits[p].expanded =>
        \A t \in Targets(visits[p].unit) : mark[t] = 2 \/ \E q \in DOMAIN visits : q > p /\ visits[q].unit = t

\* All of it, while a search runs.
Search == Searching => SearchType /\ DoneIsAcyclic /\ EnteredIsPath /\ TargetsAwait

(***************************************************************************)
(* While an EDU is attached, those before it are, and what has been added  *)
(* belongs to the right frontier.                                          *)
(***************************************************************************)
Frontier ==
    validator = "frontier" =>
        /\ edu \in 2..proposal.n /\ edu - 1 \in frontier
        /\ frontier \subseteq Introduced /\ frontier \subseteq RightFrontier(edu)
        /\ \A k \in 2..(edu - 1) : Attached(k)

(***************************************************************************)
(* The validators before the one that runs have found their parts of       *)
(* WellFormed, and a rejected graph lacks one.                             *)
(***************************************************************************)
Passed ==
    /\ proposal \in Proposals
    /\ validator \in {"membership", "relations", "classes", "connectivity", "frontier", "accepted", "rejected"}
    /\ validator \in {"relations", "classes", "connectivity", "frontier", "accepted"} => MembershipAcyclic
    /\ validator \in {"classes", "connectivity", "frontier", "accepted"} => RelationsAcyclic
    /\ validator \in {"connectivity", "frontier", "accepted"} => OneClassPerPair
    /\ validator \in {"frontier", "accepted"} => IsConnected
    /\ validator = "accepted" => \A k \in Edus \ {1} : Attached(k)
    /\ validator = "rejected" => ~WellFormed

\* The inductive invariant of the validation of one graph.
VerdictInv == Passed /\ Search /\ Frontier

(***************************************************************************)
(* What a proposal is, by the contracts of graph.py: finitely many units,  *)
(* whose members and relations are units.                                  *)
(***************************************************************************)
LEMMA GraphFacts ==
    ASSUME proposal \in Proposals
    PROVE  /\ proposal.n \in Nat \ {0} /\ Edus = 1..proposal.n
           /\ Units = Edus \cup Cdus /\ Edus \cap Cdus = {}
           /\ IsFiniteSet(Cdus) /\ IsFiniteSet(Units)
           /\ \A c \in Cdus : proposal.members[c] \subseteq Units
           /\ \A r \in Relations : r.source \in Units /\ r.target \in Units
<1>1. /\ proposal.n \in Nat \ {0} /\ IsFiniteSet(DOMAIN proposal.members)
      /\ 1..proposal.n \cap DOMAIN proposal.members = {}
  BY ProposalsAssumption DEF ProposalsAssumption
<1>2. \A c \in DOMAIN proposal.members : proposal.members[c] \subseteq 1..proposal.n \cup DOMAIN proposal.members
  BY ProposalsAssumption DEF ProposalsAssumption
<1>3. \A r \in proposal.relations : {r.source, r.target} \subseteq 1..proposal.n \cup DOMAIN proposal.members
  BY ProposalsAssumption DEF ProposalsAssumption
<1>4. IsFiniteSet(1..proposal.n)
  <2>1. 1 \in Int /\ proposal.n \in Int
    BY <1>1
  <2> QED
    BY <2>1, FS_Interval
<1>5. IsFiniteSet(1..proposal.n \cup DOMAIN proposal.members)
  BY <1>1, <1>4, FS_Union
<1> QED
  BY <1>1, <1>2, <1>3, <1>5 DEF Edus, Cdus, Units, Relations

(***************************************************************************)
(* While the proposal is the same, so is everything that is defined of it  *)
(* alone.                                                                  *)
(***************************************************************************)
LEMMA SameGraph ==
    ASSUME proposal' = proposal
    PROVE  /\ Edus' = Edus /\ Cdus' = Cdus /\ Units' = Units /\ Relations' = Relations /\ Links' = Links
           /\ MembershipAcyclic' <=> MembershipAcyclic
           /\ RelationsAcyclic' <=> RelationsAcyclic
           /\ OneClassPerPair' <=> OneClassPerPair
           /\ IsConnected' <=> IsConnected
           /\ \A k : RightFrontier(k)' = RightFrontier(k)
           /\ \A k : Attached(k)' <=> Attached(k)
           /\ WellFormed' <=> WellFormed
           /\ \A u : Inside(u)' = Inside(u)
<1>1. Edus' = Edus /\ Cdus' = Cdus /\ Units' = Units /\ Relations' = Relations
  BY DEF Edus, Cdus, Units, Relations
<1>2. Links' = Links
  BY <1>1 DEF Links
<1>3. \A succ : IsAcyclic(succ)' <=> IsAcyclic(succ)
  BY <1>1 DEF IsAcyclic
<1>4. MembershipAcyclic' <=> MembershipAcyclic
  BY <1>1 DEF IsAcyclic, MembershipAcyclic
<1>5. RelationsAcyclic' <=> RelationsAcyclic
  BY <1>1 DEF IsAcyclic, RelationsAcyclic
<1>6. OneClassPerPair' <=> OneClassPerPair
  BY <1>1 DEF OneClassPerPair
<1>7. IsConnected' <=> IsConnected
  BY <1>1, <1>2 DEF IsConnected
<1>8. \A u : Inside(u)' = Inside(u)
  BY <1>1 DEF Inside
<1>9. \A k : RightFrontier(k)' = RightFrontier(k)
  BY <1>1, <1>8 DEF RightFrontier
<1>10. \A k : Attached(k)' <=> Attached(k)
  BY <1>1, <1>9 DEF Attached
<1>11. WellFormed <=> MembershipAcyclic /\ RelationsAcyclic /\ OneClassPerPair /\ IsConnected
                      /\ \A k \in Edus \ {1} : Attached(k)
  BY DEF WellFormed, MembershipAcyclic, RelationsAcyclic, Attached
<1>12. WellFormed' <=> WellFormed
  BY <1>1, <1>4, <1>5, <1>6, <1>7, <1>10, <1>11 DEF WellFormed, MembershipAcyclic, RelationsAcyclic, Attached
<1> QED
  BY <1>1, <1>2, <1>4, <1>5, <1>6, <1>7, <1>8, <1>9, <1>10, <1>12

\* The units within one link of a set.
Beside(S) == S \cup {v \in Units : \E w \in S : {<<v, w>>, <<w, v>>} \cap Links # {}}

(***************************************************************************)
(* Membership and relations link units.                                    *)
(***************************************************************************)
LEMMA LinksAreOfUnits ==
    ASSUME proposal \in Proposals, NEW link \in Links
    PROVE  link[1] \in Units /\ link[2] \in Units /\ link = <<link[1], link[2]>>
<1>1. CASE link \in Cdus \X Units
  BY <1>1, GraphFacts
<1>2. CASE link \in {<<r.source, r.target>> : r \in Relations}
  BY <1>2, GraphFacts
<1> QED
  BY <1>1, <1>2 DEF Links

(***************************************************************************)
(* What _connected reaches from a unit is the least set of units with it   *)
(* that no link leaves: as many rounds as there are units are enough.      *)
(***************************************************************************)
LEMMA ReachedFacts ==
    ASSUME proposal \in Proposals, NEW u \in Units
    PROVE  /\ Reached(u) \subseteq Units /\ u \in Reached(u) /\ Beside(Reached(u)) = Reached(u)
           /\ \A S \in SUBSET Units : u \in S /\ Beside(S) \subseteq S => Reached(u) \subseteq S
<1> DEFINE N == Cardinality(Units)
           Step == [n \in Nat |-> [S \in SUBSET Units |-> Beside(S)]]
<1>1. IsFiniteSet(Units) /\ N \in Nat
  BY GraphFacts, FS_CardinalityType
<1>2. Step \in [Nat -> [SUBSET Units -> SUBSET Units]] /\ \A n \in Nat : \A S \in SUBSET Units : Step[n][S] = Beside(S)
  <2>1. \A S \in SUBSET Units : Beside(S) \in SUBSET Units
    BY DEF Beside
  <2> QED
    BY <2>1
<1>3. {u} \in SUBSET Units
  OBVIOUS
<1> HIDE DEF Step
<1>4. Iterable(SUBSET Units, {u}, Step)
  BY <1>2, <1>3, Iteration
<1>5. PICK f \in [Nat -> SUBSET Units] : f[0] = {u} /\ \A n \in Nat : f[n + 1] = Step[n][f[n]]
  BY <1>4 DEF Iterable
<1>6. \A n \in Nat : f[n] \in SUBSET Units /\ f[n + 1] = Beside(f[n])
  BY <1>2, <1>5
<1> DEFINE Body(g) == [k \in Nat |-> IF k = 0 THEN {u}
                         ELSE g[k - 1] \cup {v \in Units : \E w \in g[k - 1] : {<<v, w>>, <<w, v>>} \cap Links # {}}]
<1>7. f = Body(f)
  <2>1. ASSUME NEW k \in Nat, k # 0 PROVE f[k] = Beside(f[k - 1])
    <3>1. k - 1 \in Nat /\ (k - 1) + 1 = k
      BY <2>1
    <3> QED
      BY <1>6, <3>1
  <2> QED
    BY <1>5, <2>1 DEF Beside
<1> DEFINE r == CHOOSE g : g = Body(g)
<1>8. r = Body(r)
  <2> HIDE DEF Body
  <2> QED
    BY <1>7
<1>9. Reached(u) = r[N]
  BY DEF Reached
<1> HIDE DEF r
<1>10. r[0] = {u} /\ \A k \in Nat : r[k + 1] = Beside(r[k])
  <2>1. r[0] = {u}
    BY <1>8
  <2>2. ASSUME NEW k \in Nat PROVE r[k + 1] = Beside(r[k])
    <3>1. k + 1 \in Nat /\ k + 1 # 0 /\ (k + 1) - 1 = k
      OBVIOUS
    <3>2. r[k + 1] = Body(r)[k + 1]
      BY <1>8
    <3> HIDE <1>8
    <3> QED
      BY <3>1, <3>2 DEF Beside
  <2> QED
    BY <2>1, <2>2
<1> HIDE DEF Body
<1>11. ASSUME NEW S \in SUBSET Units, u \in S, Beside(S) \subseteq S PROVE \A k \in Nat : r[k] \subseteq S
  <2> DEFINE In == {k \in Nat : r[k] \subseteq S}
  <2>1. 0 \in In
    BY <1>10, <1>11
  <2>2. ASSUME NEW k \in Nat, k \in In PROVE k + 1 \in In
    <3>1. r[k + 1] = Beside(r[k]) /\ r[k] \subseteq S
      BY <1>10, <2>2
    <3>2. Beside(r[k]) \subseteq Beside(S)
      BY <3>1 DEF Beside
    <3> QED
      BY <1>11, <3>1, <3>2
  <2> HIDE DEF In
  <2>3. Nat \subseteq In
    BY <2>1, <2>2, Induct
  <2> QED
    BY <2>3 DEF In
<1>12. \A k \in Nat : r[k] \subseteq Units
  <2>1. Beside(Units) \subseteq Units /\ Units \in SUBSET Units
    BY DEF Beside
  <2> QED
    BY <1>11, <2>1
<1>13. \A k \in Nat : u \in r[k]
  <2> DEFINE In == {k \in Nat : u \in r[k]}
  <2>1. 0 \in In
    BY <1>10
  <2>2. ASSUME NEW k \in Nat, k \in In PROVE k + 1 \in In
    BY <1>10, <2>2 DEF Beside
  <2> HIDE DEF In
  <2>3. Nat \subseteq In
    BY <2>1, <2>2, Induct
  <2> QED
    BY <2>3 DEF In
<1>14. r[N + 1] = r[N]
  <2> DEFINE h == [k \in Nat |-> r[k]]
  <2>1. h \in [Nat -> SUBSET Units]
    BY <1>12
  <2>2. \A n \in Nat : h[n] \subseteq h[n + 1]
    <3>1. \A n \in Nat : n + 1 \in Nat
      OBVIOUS
    <3> QED
      BY <1>10, <3>1 DEF Beside
  <2>3. ASSUME NEW n \in Nat, h[n + 1] = h[n] PROVE h[n + 2] = h[n + 1]
    <3>1. n + 1 \in Nat /\ n + 2 \in Nat /\ (n + 1) + 1 = n + 2
      OBVIOUS
    <3>2. h[n + 2] = Beside(r[n + 1]) /\ h[n + 1] = Beside(r[n])
      BY <1>10, <3>1
    <3>3. r[n + 1] = r[n]
      BY <2>3, <3>1
    <3> QED
      BY <3>2, <3>3
  <2>4. \A n \in Nat : h[n] = r[n]
    OBVIOUS
  <2> HIDE DEF h
  <2>5. h[N + 1] = h[N]
    BY <1>1, <2>1, <2>2, <2>3, Saturation
  <2>6. N + 1 \in Nat
    BY <1>1
  <2> QED
    BY <1>1, <2>4, <2>5, <2>6
<1>15. Beside(r[N]) = r[N]
  BY <1>1, <1>10, <1>14
<1> QED
  BY <1>1, <1>9, <1>11, <1>12, <1>13, <1>15

(***************************************************************************)
(* Every unit reaches all units exactly if no cut is without a link.       *)
(***************************************************************************)
LEMMA Connects ==
    ASSUME proposal \in Proposals
    PROVE  (\A u \in Units : Reached(u) = Units) <=> IsConnected
<1>1. ASSUME IsConnected, NEW u \in Units PROVE Reached(u) = Units
  <2> SUFFICES ASSUME Reached(u) # Units PROVE FALSE
    OBVIOUS
  <2>1. Reached(u) \subseteq Units /\ u \in Reached(u) /\ Beside(Reached(u)) = Reached(u)
    BY ReachedFacts
  <2> DEFINE S == Reached(u)
  <2>2. PICK link \in Links : (link[1] \in S) # (link[2] \in S)
    BY <1>1, <2>1 DEF IsConnected
  <2>3. link[1] \in Units /\ link[2] \in Units /\ <<link[1], link[2]>> \in Links
    BY LinksAreOfUnits
  <2> HIDE DEF S
  <2>4. link[1] \in Beside(S) <=> link[1] \in S
    BY <2>1 DEF S
  <2>5. link[2] \in Beside(S) <=> link[2] \in S
    BY <2>1 DEF S
  <2>6. link[1] \in S => link[2] \in Beside(S)
    BY <2>3 DEF Beside
  <2>7. link[2] \in S => link[1] \in Beside(S)
    BY <2>3 DEF Beside
  <2> QED
    BY <2>2, <2>4, <2>5, <2>6, <2>7
<1>2. ASSUME \A u \in Units : Reached(u) = Units,
             NEW S \in (SUBSET Units) \ {{}, Units}
      PROVE  \E link \in Links : (link[1] \in S) # (link[2] \in S)
  <2> SUFFICES ASSUME \A link \in Links : (link[1] \in S) <=> (link[2] \in S) PROVE FALSE
    OBVIOUS
  <2>1. PICK u \in S : TRUE
    BY <1>2
  <2>2. Beside(S) \subseteq S
    <3> SUFFICES ASSUME NEW v \in Units, NEW w \in S, {<<v, w>>, <<w, v>>} \cap Links # {} PROVE v \in S
      BY DEF Beside
    <3>1. CASE <<v, w>> \in Links
      BY <3>1
    <3>2. CASE <<w, v>> \in Links
      BY <3>2
    <3> QED
      BY <3>1, <3>2
  <2>3. Reached(u) \subseteq S /\ u \in Units
    BY <2>1, <2>2, ReachedFacts
  <2> QED
    BY <1>2, <2>3
<1> QED
  BY <1>1, <1>2 DEF IsConnected

\* Closed under membership.
Whole(S) == \A d \in S \cap Cdus : proposal.members[d] \subseteq S

(***************************************************************************)
(* What a complex unit contains is what its members contain.               *)
(***************************************************************************)
LEMMA InsideFacts ==
    ASSUME proposal \in Proposals
    PROVE  /\ \A e \in Edus : Inside(e) = {e}
           /\ \A c \in Cdus : Inside(c) = UNION {Inside(m) : m \in proposal.members[c]}
<1>1. /\ Units = Edus \cup Cdus /\ Edus \cap Cdus = {}
      /\ \A c \in Cdus : proposal.members[c] \subseteq Units
  BY GraphFacts
<1>2. \A u : Inside(u) = {e \in Edus : \A S \in SUBSET Units : u \in S /\ Whole(S) => e \in S}
  BY DEF Inside, Whole
<1>3. ASSUME NEW e \in Edus PROVE Inside(e) = {e}
  <2>1. {e} \in SUBSET Units /\ Whole({e})
    BY <1>1 DEF Whole
  <2> QED
    BY <1>2, <2>1
<1>4. ASSUME NEW c \in Cdus, NEW m \in proposal.members[c] PROVE Inside(m) \subseteq Inside(c)
  BY <1>1, <1>2 DEF Whole
<1>5. ASSUME NEW c \in Cdus, NEW e \in Inside(c), \A m \in proposal.members[c] : e \notin Inside(m)
      PROVE  FALSE
  <2> DEFINE S == {c} \cup {u \in Units : e \notin Inside(u)}
  <2>1. e \in Edus
    BY <1>2
  <2>2. S \in SUBSET Units /\ c \in S
    BY <1>1
  <2>3. Whole(S)
    <3> SUFFICES ASSUME NEW d \in S \cap Cdus, NEW m \in proposal.members[d] PROVE m \in S
      BY DEF Whole
    <3>1. m \in Units
      BY <1>1
    <3>2. CASE d = c
      BY <1>5, <3>1, <3>2
    <3>3. CASE d # c
      <4>1. e \notin Inside(d)
        BY <3>3
      <4>2. e \notin Inside(m)
        BY <1>4, <4>1
      <4> QED
        BY <3>1, <4>2
    <3> QED
      BY <3>2, <3>3
  <2>4. e \notin S
    <3>1. e \in Inside(e) /\ e # c
      BY <1>1, <1>3, <2>1
    <3> QED
      BY <3>1
  <2> HIDE DEF S
  <2> QED
    BY <1>2, <2>2, <2>3, <2>4
<1>6. ASSUME NEW c \in Cdus PROVE Inside(c) = UNION {Inside(m) : m \in proposal.members[c]}
  BY <1>4, <1>5, <1>6
<1> QED
  BY <1>3, <1>6

\* What k levels of membership find in the units.
Nested(f) ==
    /\ f \in [Nat -> [Units -> SUBSET Edus]]
    /\ \A k \in Nat : \A e \in Edus : f[k][e] = {e}
    /\ \A k \in Nat : \A c \in Cdus : f[k + 1][c] = UNION {f[k][m] : m \in proposal.members[c]}

(***************************************************************************)
(* The recursion of _elementary_members has a value at every depth.        *)
(***************************************************************************)
LEMMA MembersRecursion ==
    ASSUME proposal \in Proposals
    PROVE  \E f : Nested(f) /\ \A u \in Units : ElementaryMembers(u) = f[Cardinality(Cdus)][u]
<1> DEFINE A == [Units -> SUBSET Edus]
           first == [u \in Units |-> IF u \in Edus THEN {u} ELSE {}]
           Deeper(g) == [u \in Units |-> IF u \in Edus THEN {u} ELSE UNION {g[m] : m \in proposal.members[u]}]
           Step == [n \in Nat |-> [g \in A |-> Deeper(g)]]
<1>1. /\ Units = Edus \cup Cdus /\ Edus \cap Cdus = {}
      /\ \A c \in Cdus : proposal.members[c] \subseteq Units
  BY GraphFacts
<1>2. first \in A
  OBVIOUS
<1>3. \A g \in A : Deeper(g) \in A
  <2> SUFFICES ASSUME NEW g \in A, NEW u \in Units, u \notin Edus PROVE UNION {g[m] : m \in proposal.members[u]} \subseteq Edus
    OBVIOUS
  <2>1. u \in Cdus
    BY <1>1
  <2> QED
    BY <1>1, <2>1
<1>4. Step \in [Nat -> [A -> A]] /\ \A n \in Nat : \A g \in A : Step[n][g] = Deeper(g)
  <2> HIDE DEF A, Deeper
  <2> QED
    BY <1>3
<1>5. PICK f \in [Nat -> A] : f[0] = first /\ \A n \in Nat : f[n + 1] = Step[n][f[n]]
  <2> HIDE DEF A, Step, first
  <2>1. Iterable(A, first, Step)
    BY <1>2, <1>4, Iteration
  <2> QED
    BY <2>1 DEF Iterable
<1>6. \A n \in Nat : f[n + 1] = Deeper(f[n])
  <2> HIDE DEF A, Step, Deeper
  <2> QED
    BY <1>4, <1>5
<1> HIDE DEF Step
<1> DEFINE Body(g) == [k \in Nat |->
                         [u \in Units |-> IF u \in Edus THEN {u}
                             ELSE IF k = 0 THEN {} ELSE UNION {g[k - 1][m] : m \in proposal.members[u]}]]
<1>7. f = Body(f)
  <2>1. f = [k \in Nat |-> f[k]]
    BY <1>5
  <2>2. ASSUME NEW k \in Nat PROVE f[k] = Body(f)[k]
    <3>1. CASE k = 0
      BY <1>5, <3>1
    <3>2. CASE k # 0
      <4>1. k - 1 \in Nat /\ (k - 1) + 1 = k
        BY <3>2
      <4>2. f[k] = Deeper(f[k - 1])
        BY <1>6, <4>1
      <4> QED
        BY <3>2, <4>2
    <3> QED
      BY <3>1, <3>2
  <2>3. Body(f) = [k \in Nat |-> Body(f)[k]]
    OBVIOUS
  <2> HIDE DEF Body
  <2> QED
    BY <2>1, <2>2, <2>3
<1> DEFINE r == CHOOSE g : g = Body(g)
<1>8. r = Body(r)
  <2> HIDE DEF Body
  <2> QED
    BY <1>7
<1>9. \A u : ElementaryMembers(u) = r[Cardinality(Cdus)][u]
  BY DEF ElementaryMembers
<1> HIDE DEF r
<1>10. ASSUME NEW k \in Nat
       PROVE  r[k] = [u \in Units |-> IF u \in Edus THEN {u}
                             ELSE IF k = 0 THEN {} ELSE UNION {r[k - 1][m] : m \in proposal.members[u]}]
  <2>1. r[k] = Body(r)[k]
    BY <1>8
  <2> HIDE <1>8
  <2> QED
    BY <2>1
<1> HIDE DEF Body
<1>11. \A k \in Nat : r[k] \in A
  <2> DEFINE In == {k \in Nat : r[k] \in A}
  <2>1. 0 \in In
    <3>1. r[0] = first
      BY <1>10
    <3> QED
      BY <1>2, <3>1
  <2>2. ASSUME NEW k \in Nat, k \in In PROVE k + 1 \in In
    <3>1. k + 1 \in Nat /\ k + 1 # 0 /\ (k + 1) - 1 = k
      OBVIOUS
    <3>2. r[k + 1] = Deeper(r[k])
      BY <1>10, <3>1
    <3>3. r[k] \in A
      BY <2>2
    <3> HIDE DEF A, Deeper
    <3> QED
      BY <1>3, <3>1, <3>2, <3>3
  <2> HIDE DEF In
  <2>3. Nat \subseteq In
    BY <2>1, <2>2, Induct
  <2> QED
    BY <2>3 DEF In
<1>12. \A k \in Nat : \A e \in Edus : r[k][e] = {e}
  BY <1>1, <1>10
<1>13. ASSUME NEW k \in Nat, NEW c \in Cdus PROVE r[k + 1][c] = UNION {r[k][m] : m \in proposal.members[c]}
  <2>1. k + 1 \in Nat /\ k + 1 # 0 /\ (k + 1) - 1 = k /\ c \in Units /\ c \notin Edus
    BY <1>1
  <2>2. r[k + 1] = Deeper(r[k])
    BY <1>10, <2>1
  <2> QED
    BY <2>1, <2>2
<1>14. r \in [Nat -> A]
  <2>1. r = [k \in Nat |-> r[k]]
    BY <1>8 DEF Body
  <2> HIDE DEF A
  <2> QED
    BY <1>11, <2>1
<1>15. Nested(r)
  BY <1>12, <1>13, <1>14 DEF Nested
<1> QED
  BY <1>9, <1>15

(***************************************************************************)
(* Where membership has no cycle, as many levels as there are complex      *)
(* units find everything: each level settles a unit whose members are      *)
(* settled.                                                                *)
(***************************************************************************)
LEMMA AllMembersFound ==
    ASSUME proposal \in Proposals, MembershipAcyclic, NEW c \in Cdus
    PROVE  ElementaryMembers(c) = Inside(c)
<1> DEFINE N == Cardinality(Cdus)
<1>1. /\ Units = Edus \cup Cdus /\ Edus \cap Cdus = {} /\ IsFiniteSet(Cdus)
      /\ \A d \in Cdus : proposal.members[d] \subseteq Units
  BY GraphFacts
<1>2. N \in Nat
  BY <1>1, FS_CardinalityType
<1>3. PICK f : Nested(f) /\ \A u \in Units : ElementaryMembers(u) = f[N][u]
  BY MembersRecursion
<1> HIDE DEF N
<1> DEFINE Fixed(k) == {d \in Cdus : \A j \in Nat : j >= k => f[j][d] = Inside(d)}
           g == [k \in Nat |-> Fixed(k)]
<1>4. ASSUME NEW k \in Nat, Fixed(k) # Cdus PROVE \E d \in Cdus \ Fixed(k) : d \in Fixed(k + 1)
  <2> DEFINE Rest == Cdus \ Fixed(k)
  <2>1. Rest \in (SUBSET Units) \ {{}}
    BY <1>1, <1>4
  <2>2. PICK d \in Rest : proposal.members[d] \cap Rest = {}
    <3> DEFINE succ == [u \in Units |-> IF u \in Cdus THEN proposal.members[u] ELSE {}]
    <3>1. PICK d \in Rest : succ[d] \cap Rest = {}
      <4> HIDE DEF Rest, succ
      <4> QED
        BY <2>1 DEF MembershipAcyclic, IsAcyclic, succ
    <3>2. d \in Cdus /\ d \in Units
      BY <1>1
    <3> HIDE DEF Rest
    <3> QED
      BY <3>1, <3>2
  <2>3. d \in Cdus /\ \A m \in proposal.members[d] : m \in Edus \/ m \in Fixed(k)
    BY <1>1, <2>2
  <2>4. ASSUME NEW j \in Nat, j >= k + 1 PROVE f[j][d] = Inside(d)
    <3>1. j - 1 \in Nat /\ j - 1 >= k /\ (j - 1) + 1 = j
      BY <2>4
    <3>2. \A m \in proposal.members[d] : f[j - 1][m] = Inside(m)
      <4> TAKE m \in proposal.members[d]
      <4>1. CASE m \in Edus
        BY <3>1, <1>3, <4>1, InsideFacts DEF Nested
      <4>2. CASE m \in Fixed(k)
        BY <3>1, <4>2
      <4> QED
        BY <2>3, <4>1, <4>2
    <3>3. f[j][d] = UNION {f[j - 1][m] : m \in proposal.members[d]}
      <4>1. f[(j - 1) + 1][d] = UNION {f[j - 1][m] : m \in proposal.members[d]}
        BY <1>3, <2>3, <3>1 DEF Nested
      <4> QED
        BY <3>1, <4>1
    <3>4. Inside(d) = UNION {Inside(m) : m \in proposal.members[d]}
      BY <2>3, InsideFacts
    <3> QED
      BY <3>2, <3>3, <3>4
  <2>5. d \in Fixed(k + 1)
    BY <2>3, <2>4
  <2> QED
    BY <2>2, <2>5
<1>5. g \in [Nat -> SUBSET Cdus]
  OBVIOUS
<1>6. \A k \in Nat : Fixed(k) \subseteq Fixed(k + 1)
  OBVIOUS
<1>7. \A k \in Nat : g[k] = Fixed(k) /\ g[k + 1] = Fixed(k + 1) /\ g[k + 2] = Fixed(k + 2)
  OBVIOUS
<1>8. \A k \in Nat : Fixed(k + 1) = Fixed(k) => Fixed(k) = Cdus
  BY <1>4
<1>9. \A k \in Nat : Fixed(k) \subseteq Cdus
  OBVIOUS
<1>10. \A k \in Nat : Fixed(k + 1) \subseteq Fixed(k + 2)
  <2> TAKE k \in Nat
  <2>1. k + 1 \in Nat /\ (k + 1) + 1 = k + 2
    OBVIOUS
  <2>2. Fixed(k + 1) \subseteq Fixed((k + 1) + 1)
    BY <1>6, <2>1
  <2> QED
    BY <2>1, <2>2
<1> HIDE DEF g, Fixed
<1>11. \A k \in Nat : g[k + 1] = g[k] => g[k + 2] = g[k + 1]
  <2> SUFFICES ASSUME NEW k \in Nat, Fixed(k + 1) = Fixed(k) PROVE Fixed(k + 2) = Fixed(k + 1)
    BY <1>7
  <2>1. k + 2 \in Nat
    OBVIOUS
  <2> QED
    BY <1>8, <1>9, <1>10, <2>1
<1>12. g[N + 1] = g[N]
  <2>1. \A k \in Nat : g[k] \subseteq g[k + 1]
    BY <1>6, <1>7
  <2> QED
    BY <1>1, <1>5, <1>11, <2>1, Saturation DEF N
<1>13. Fixed(N) = Cdus
  BY <1>2, <1>7, <1>8, <1>12
<1>14. f[N][c] = Inside(c)
  BY <1>2, <1>13 DEF Fixed
<1> QED
  BY <1>1, <1>3, <1>14

(***************************************************************************)
(* The top of a stack replaced, or taken off.                              *)
(***************************************************************************)
LEMMA Popped ==
    ASSUME visits \in Seq(Visit), visits # <<>>
    PROVE  /\ Len(visits) \in Nat /\ Len(visits) > 0 /\ DOMAIN visits = 1..Len(visits)
           /\ Top = visits[Len(visits)] /\ Top \in Visit
           /\ Front(visits) \in Seq(Visit) /\ Len(Front(visits)) = Len(visits) - 1
           /\ DOMAIN Front(visits) = 1..(Len(visits) - 1)
           /\ \A i \in 1..(Len(visits) - 1) : Front(visits)[i] = visits[i]
<1>1. Len(visits) \in Nat /\ Len(visits) > 0 /\ DOMAIN visits = 1..Len(visits) /\ Top = visits[Len(visits)] /\ Top \in Visit
  BY DEF Top, Last
<1>2. /\ Front(visits) \in Seq(Visit) /\ Len(Front(visits)) = Len(visits) - 1
      /\ \A i \in 1..(Len(visits) - 1) : Front(visits)[i] = visits[i]
  BY <1>1 DEF Front
<1> QED
  BY <1>1, <1>2

(***************************************************************************)
(* What Enter makes of the stack: its top is expanded and the targets come *)
(* above it.                                                               *)
(***************************************************************************)
LEMMA Expanded ==
    ASSUME visits \in Seq(Visit), visits # <<>>, NEW order \in Seq(Units),
           NEW stack, stack = Front(visits) \o <<[unit |-> Top.unit, expanded |-> TRUE]>>
                                 \o [i \in DOMAIN order |-> [unit |-> order[i], expanded |-> FALSE]]
    PROVE  /\ stack \in Seq(Visit) /\ Len(stack) = Len(visits) + Len(order)
           /\ DOMAIN stack = 1..(Len(visits) + Len(order))
           /\ \A i \in 1..(Len(visits) - 1) : stack[i] = visits[i]
           /\ stack[Len(visits)] = [unit |-> Top.unit, expanded |-> TRUE]
           /\ \A i \in 1..Len(order) : stack[Len(visits) + i] = [unit |-> order[i], expanded |-> FALSE]
<1> DEFINE n == Len(visits)
           above == [i \in DOMAIN order |-> [unit |-> order[i], expanded |-> FALSE]]
           lower == Front(visits)
           mid == <<[unit |-> Top.unit, expanded |-> TRUE]>>
<1>1. /\ n \in Nat /\ n > 0 /\ Top \in Visit
      /\ lower \in Seq(Visit) /\ Len(lower) = n - 1
      /\ \A i \in 1..(n - 1) : lower[i] = visits[i]
  BY Popped
<1>2. above \in Seq(Visit) /\ Len(above) = Len(order) /\ \A i \in 1..Len(order) : above[i] = [unit |-> order[i], expanded |-> FALSE]
  <2>1. Len(order) \in Nat /\ DOMAIN order = 1..Len(order) /\ \A i \in 1..Len(order) : order[i] \in Units
    OBVIOUS
  <2>2. above \in [1..Len(order) -> Visit]
    BY <2>1 DEF Visit
  <2> QED
    BY <2>1, <2>2
<1>3. mid \in Seq(Visit) /\ Len(mid) = 1 /\ mid[1] = [unit |-> Top.unit, expanded |-> TRUE]
  BY <1>1 DEF Visit
<1>4. stack = (lower \o mid) \o above
  OBVIOUS
<1> HIDE DEF n, above, lower, mid
<1> DEFINE base == lower \o mid
<1>5. /\ base \in Seq(Visit) /\ Len(base) = n
      /\ \A i \in 1..n : base[i] = IF i <= n - 1 THEN lower[i] ELSE mid[i - (n - 1)]
  <2>1. /\ base \in Seq(Visit) /\ Len(base) = Len(lower) + Len(mid)
        /\ \A i \in 1..(Len(lower) + Len(mid)) : base[i] = IF i <= Len(lower) THEN lower[i] ELSE mid[i - Len(lower)]
    <3>1. lower \in Seq(Visit) /\ mid \in Seq(Visit)
      BY <1>1, <1>3
    <3> QED
      BY <3>1, ConcatProperties
  <2>2. Len(lower) = n - 1 /\ Len(mid) = 1 /\ (n - 1) + 1 = n
    BY <1>1, <1>3
  <2> HIDE DEF base
  <2> QED
    BY <2>1, <2>2
<1>6. stack = base \o above
  BY <1>4
<1> HIDE DEF base
<1>7. /\ stack \in Seq(Visit) /\ Len(stack) = n + Len(order)
      /\ \A i \in 1..(n + Len(order)) : stack[i] = IF i <= n THEN base[i] ELSE above[i - n]
  <2>1. base \in Seq(Visit) /\ above \in Seq(Visit)
    BY <1>2, <1>5
  <2>2. /\ base \o above \in Seq(Visit) /\ Len(base \o above) = Len(base) + Len(above)
        /\ \A i \in 1..(Len(base) + Len(above)) :
              (base \o above)[i] = IF i <= Len(base) THEN base[i] ELSE above[i - Len(base)]
    BY <2>1, ConcatProperties
  <2> QED
    BY <1>2, <1>5, <1>6, <2>2
<1>8. DOMAIN stack = 1..(n + Len(order)) /\ Len(order) \in Nat
  BY <1>7
<1>9. ASSUME NEW i \in 1..(n - 1) PROVE stack[i] = visits[i]
  <2>1. i \in 1..n /\ i <= n - 1 /\ i \in 1..(n + Len(order)) /\ i <= n
    BY <1>1, <1>8
  <2> QED
    BY <1>1, <1>5, <1>7, <2>1
<1>10. stack[n] = [unit |-> Top.unit, expanded |-> TRUE]
  <2>1. n \in 1..n /\ ~(n <= n - 1) /\ n \in 1..(n + Len(order)) /\ n <= n /\ n - (n - 1) = 1
    BY <1>1, <1>8
  <2> QED
    BY <1>3, <1>5, <1>7, <2>1
<1>11. ASSUME NEW i \in 1..Len(order) PROVE stack[n + i] = [unit |-> order[i], expanded |-> FALSE]
  <2>1. n + i \in 1..(n + Len(order)) /\ ~(n + i <= n) /\ (n + i) - n = i
    BY <1>1, <1>8
  <2> QED
    BY <1>2, <1>7, <2>1
<1> QED
  BY <1>7, <1>8, <1>9, <1>10, <1>11 DEF n

(***************************************************************************)
(* An order of a finite set names each of its elements.                    *)
(***************************************************************************)
LEMMA Orders ==
    ASSUME NEW S, IsFiniteSet(S), NEW order \in SetToSeqs(S)
    PROVE  /\ order \in Seq(S) /\ DOMAIN order = 1..Len(order) /\ Len(order) \in Nat
           /\ \A t \in S : \E i \in 1..Len(order) : order[i] = t
<1> DEFINE n == Cardinality(S)
<1>1. n \in Nat
  BY FS_CardinalityType
<1>2. order \in [1..n -> S] /\ \A i, j \in 1..n : i # j => order[i] # order[j]
  BY DEF SetToSeqs
<1> HIDE DEF n
<1>3. order \in Seq(S) /\ Len(order) = n /\ DOMAIN order = 1..n
  BY <1>1, <1>2
<1>4. order \in Injection(1..n, S)
  BY <1>2 DEF Injection, IsInjective
<1>5. Cardinality(1..n) = n
  <2>1. 1 \in Int /\ n \in Int
    BY <1>1
  <2>2. Cardinality(1..n) = IF 1 > n THEN 0 ELSE n - 1 + 1
    BY <2>1, FS_Interval
  <2> QED
    BY <1>1, <2>2
<1>6. order \in Surjection(1..n, S)
  BY <1>4, <1>5, FS_Injection DEF n
<1> QED
  BY <1>1, <1>3, <1>6 DEF Surjection

(***************************************************************************)
(* The targets of a unit are units, and only nodes have any.               *)
(***************************************************************************)
LEMMA TargetFacts ==
    ASSUME proposal \in Proposals
    PROVE  /\ \A u \in Units : Targets(u) \subseteq Units /\ IsFiniteSet(Targets(u))
           /\ Nodes \subseteq Units
           /\ \A u \in Units \ Nodes : Targets(u) = {}
<1>1. \A u \in Units : Targets(u) \subseteq Units
  BY GraphFacts DEF Targets
<1>2. \A u \in Units : IsFiniteSet(Targets(u))
  BY <1>1, GraphFacts, FS_Subset
<1>3. Nodes \subseteq Units
  BY GraphFacts DEF Nodes
<1>4. ASSUME NEW u \in Units \ Nodes PROVE Targets(u) = {}
  BY <1>4 DEF Nodes, Targets
<1> QED
  BY <1>1, <1>2, <1>3, <1>4

\* The graph of the current search has no cycle.
SearchedAcyclic == \A S \in (SUBSET Units) \ {{}} : \E u \in S : Targets(u) \cap S = {}

(***************************************************************************)
(* What the search walks has a cycle exactly if the definition finds one,  *)
(* in both searches.                                                       *)
(***************************************************************************)
LEMMA SearchedGraph ==
    ASSUME proposal \in Proposals
    PROVE  /\ validator = "membership" => (SearchedAcyclic <=> MembershipAcyclic)
           /\ validator = "relations" => (SearchedAcyclic <=> RelationsAcyclic)
<1>1. Units = Edus \cup Cdus /\ Edus \cap Cdus = {}
  BY GraphFacts
<1> DEFINE within == [u \in Units |-> IF u \in Cdus THEN proposal.members[u] ELSE {}]
           after == [u \in Units |-> {r.target : r \in {s \in Relations : s.source = u}}]
<1>2. ASSUME validator = "membership", SearchedAcyclic, NEW S \in (SUBSET Units) \ {{}}
      PROVE  \E u \in S : within[u] \cap S = {}
  <2>1. CASE S \subseteq Cdus
    <3>1. PICK u \in S : Targets(u) \cap S = {}
      BY <1>2 DEF SearchedAcyclic
    <3> QED
      BY <1>2, <2>1, <3>1 DEF Targets
  <2>2. CASE ~(S \subseteq Cdus)
    <3>1. PICK u \in S : u \notin Cdus
      BY <2>2
    <3> QED
      BY <1>2, <3>1
  <2> QED
    BY <2>1, <2>2
<1>3. ASSUME validator = "membership", MembershipAcyclic, NEW S \in (SUBSET Units) \ {{}}
      PROVE  \E u \in S : Targets(u) \cap S = {}
  <2>1. PICK u \in S : within[u] \cap S = {}
    <3> HIDE DEF within
    <3> QED
      BY <1>3 DEF MembershipAcyclic, IsAcyclic, within
  <2> QED
    BY <1>3, <2>1 DEF Targets
<1>4. ASSUME validator = "relations" PROVE \A u \in Units : Targets(u) = after[u]
  BY <1>4 DEF Targets
<1>5. RelationsAcyclic <=> \A S \in (SUBSET Units) \ {{}} : \E u \in S : after[u] \cap S = {}
  BY DEF RelationsAcyclic, IsAcyclic
<1>6. MembershipAcyclic <=> \A S \in (SUBSET Units) \ {{}} : \E u \in S : within[u] \cap S = {}
  BY DEF MembershipAcyclic, IsAcyclic
<1> HIDE DEF after, within
<1>7. ASSUME validator = "relations" PROVE SearchedAcyclic <=> RelationsAcyclic
  BY <1>4, <1>5, <1>7 DEF SearchedAcyclic
<1>8. ASSUME validator = "membership" PROVE SearchedAcyclic <=> MembershipAcyclic
  BY <1>2, <1>3, <1>6, <1>8 DEF SearchedAcyclic
<1> QED
  BY <1>7, <1>8

(***************************************************************************)
(* Once everything is left, there is no cycle.                             *)
(***************************************************************************)
LEMMA LeftIsAcyclic ==
    ASSUME proposal \in Proposals, DoneIsAcyclic, \A u \in Nodes : mark[u] = 2
    PROVE  SearchedAcyclic
<1> SUFFICES ASSUME NEW S \in (SUBSET Units) \ {{}} PROVE \E u \in S : Targets(u) \cap S = {}
  BY DEF SearchedAcyclic
<1>1. CASE S \subseteq Done
  BY <1>1 DEF DoneIsAcyclic
<1>2. CASE ~(S \subseteq Done)
  <2>1. PICK u \in S : u \notin Done
    BY <1>2
  <2>2. u \in Units \ Nodes
    BY <2>1 DEF Done
  <2> QED
    BY <2>2, TargetFacts
<1> QED
  BY <1>1, <1>2

(***************************************************************************)
(* A unit that is met again while it is entered closes a cycle: from each  *)
(* unit expanded on the stack since then an edge leads to the next one.    *)
(***************************************************************************)
LEMMA MetAgain ==
    ASSUME proposal \in Proposals, SearchType, EnteredIsPath,
           visits # <<>>, ~Top.expanded, mark[Top.unit] = 1
    PROVE  ~SearchedAcyclic
<1> DEFINE n == Len(visits)
<1>1. n \in Nat /\ n > 0 /\ DOMAIN visits = 1..n /\ Top = visits[n] /\ Top \in Visit
  BY Popped DEF SearchType
<1>2. \A p \in 1..n : visits[p] \in Visit /\ visits[p].unit \in Units
  <2>1. \A p \in 1..n : visits[p] \in Visit
    BY <1>1 DEF SearchType
  <2> QED
    BY <2>1 DEF Visit
<1>3. PICK j \in 1..n : visits[j].expanded /\ visits[j].unit = Top.unit
  BY <1>1, <1>2 DEF EnteredIsPath
<1>4. j \in Nat /\ j < n
  BY <1>1, <1>3
<1> HIDE DEF n
<1> DEFINE path == {p \in j..(n - 1) : visits[p].expanded}
           S == {visits[p].unit : p \in path}
<1>5. S \in (SUBSET Units) \ {{}}
  <2>1. j \in path /\ \A p \in path : p \in 1..n
    BY <1>1, <1>3, <1>4
  <2> HIDE DEF path
  <2> QED
    BY <1>2, <2>1
<1>6. visits[n].unit \in S
  <2>1. j \in path
    BY <1>1, <1>3, <1>4
  <2> QED
    BY <1>1, <1>3, <2>1
<1>7. ASSUME NEW p \in path PROVE Targets(visits[p].unit) \cap S # {}
  <2> DEFINE Later == {q \in (p + 1)..n : visits[q].expanded \/ q = n}
  <2>1. p \in Nat /\ j <= p /\ p < n /\ visits[p].expanded
    BY <1>1, <1>4
  <2>2. n \in Later /\ Later \subseteq Nat
    BY <1>1, <2>1
  <2>3. PICK q \in Later : \A k \in Later : q <= k
    <3> HIDE DEF Later
    <3> QED
      BY <2>2, Least
  <2>4. q \in Nat /\ p < q /\ q \in 1..n /\ q > 1
    BY <1>1, <2>1
  <2>5. PICK b \in 1..(q - 1) : /\ visits[b].expanded /\ visits[q].unit \in Targets(visits[b].unit)
                                /\ \A r \in (b + 1)..(q - 1) : ~visits[r].expanded
    BY <1>1, <2>4 DEF EnteredIsPath
  <2>6. b \in Nat /\ b < q
    BY <2>4
  <2>7. ~(b < p)
    BY <2>1, <2>4, <2>5, <2>6
  <2>8. ~(p < b)
    <3> SUFFICES ASSUME p < b PROVE FALSE
      OBVIOUS
    <3>1. b \in Later
      BY <1>1, <2>1, <2>4, <2>5, <2>6
    <3> QED
      BY <2>3, <2>4, <2>6, <3>1
  <2>9. b = p
    BY <2>1, <2>6, <2>7, <2>8
  <2>10. visits[q].unit \in S
    <3>1. CASE q = n
      BY <1>6, <3>1
    <3>2. CASE q # n
      <4>1. q \in path
        BY <1>1, <1>4, <2>1, <2>4, <3>2
      <4> QED
        BY <4>1
    <3> QED
      BY <3>1, <3>2
  <2> QED
    BY <2>5, <2>9, <2>10
<1>8. \A u \in S : Targets(u) \cap S # {}
  BY <1>7
<1> HIDE DEF S
<1> QED
  BY <1>5, <1>8 DEF SearchedAcyclic

(***************************************************************************)
(* While the proposal and the validator are the same, so is the graph that *)
(* is searched.                                                            *)
(***************************************************************************)
LEMMA SameSearch ==
    ASSUME proposal' = proposal, validator' = validator
    PROVE  /\ Units' = Units /\ (Searching' <=> Searching) /\ Visit' = Visit
           /\ \A u : Targets(u)' = Targets(u)
<1>1. Units' = Units /\ Cdus' = Cdus /\ Relations' = Relations
  BY SameGraph
<1> QED
  BY <1>1 DEF Searching, Targets, Visit

(***************************************************************************)
(* A search that has not begun satisfies what is said of searches.         *)
(***************************************************************************)
LEMMA EmptySearch ==
    ASSUME proposal \in Proposals, mark = Unmarked(proposal), visits = <<>>
    PROVE  SearchType /\ DoneIsAcyclic /\ EnteredIsPath /\ TargetsAwait
<1>1. mark = [u \in Units |-> 0]
  BY DEF Unmarked, Units, Edus, Cdus
<1>2. SearchType /\ Done = {}
  BY <1>1 DEF SearchType, Done
<1>3. DOMAIN visits = {}
  OBVIOUS
<1> QED
  BY <1>1, <1>2, <1>3 DEF DoneIsAcyclic, EnteredIsPath, TargetsAwait

(***************************************************************************)
(* The invariant holds when validation begins.                             *)
(***************************************************************************)
LEMMA InitVerdict == SdrtInit => VerdictInv
<1> SUFFICES ASSUME SdrtInit PROVE VerdictInv
  OBVIOUS
<1>1. Search
  BY EmptySearch DEF SdrtInit, Search
<1> QED
  BY <1>1 DEF SdrtInit, VerdictInv, Passed, Frontier

(***************************************************************************)
(* The search starts again at a node that it has not left.                 *)
(***************************************************************************)
LEMMA RootKeeps == proposal \in Proposals /\ Search /\ Root => Search'
<1> SUFFICES ASSUME proposal \in Proposals, Search, Root PROVE Search'
  OBVIOUS
<1>1. PICK u \in Nodes : mark[u] # 2 /\ visits' = <<[unit |-> u, expanded |-> FALSE]>>
  BY DEF Root
<1>2. /\ Searching /\ visits = <<>> /\ mark' = mark /\ proposal' = proposal /\ validator' = validator
      /\ SearchType /\ DoneIsAcyclic /\ EnteredIsPath
  BY DEF Root, Search
<1>3. /\ Units' = Units /\ Searching' /\ Visit' = Visit
      /\ \A v : Targets(v)' = Targets(v)
  BY <1>2, SameSearch
<1>4. u \in Units
  BY TargetFacts
<1>5. /\ visits' \in Seq(Visit) /\ DOMAIN visits' = {1}
      /\ ~visits'[1].expanded /\ \A p \in DOMAIN visits' : p = 1
  BY <1>1, <1>4 DEF Visit
<1>6. SearchType'
  BY <1>2, <1>3, <1>5 DEF SearchType
<1>7. DoneIsAcyclic'
  <2>1. Done' = Done
    BY <1>2, <1>3 DEF Done
  <2> QED
    BY <1>2, <1>3, <2>1 DEF DoneIsAcyclic
<1>8. EnteredIsPath'
  <2>1. \A v \in Units : mark[v] # 1
    BY <1>2 DEF EnteredIsPath
  <2> QED
    BY <1>2, <1>3, <1>5, <2>1 DEF EnteredIsPath
<1>9. TargetsAwait'
  BY <1>5 DEF TargetsAwait
<1> QED
  BY <1>3, <1>6, <1>7, <1>8, <1>9 DEF Search

(***************************************************************************)
(* The search enters the unit on top: its targets wait above it, and the   *)
(* path ends with it.                                                      *)
(***************************************************************************)
LEMMA EnterKeeps == proposal \in Proposals /\ Search /\ Enter => Search'
<1> SUFFICES ASSUME proposal \in Proposals, Search, Enter PROVE Search'
  OBVIOUS
<1> DEFINE n == Len(visits)
           u == Top.unit
<1>1. /\ Searching /\ visits # <<>> /\ ~Top.expanded /\ mark[u] = 0
      /\ mark' = [mark EXCEPT ![u] = 1] /\ proposal' = proposal /\ validator' = validator
      /\ SearchType /\ DoneIsAcyclic /\ EnteredIsPath /\ TargetsAwait
  BY DEF Enter, Search
<1>2. PICK order \in SetToSeqs(Targets(u)) :
           visits' = Front(visits) \o <<[unit |-> Top.unit, expanded |-> TRUE]>>
                          \o [i \in DOMAIN order |-> [unit |-> order[i], expanded |-> FALSE]]
  BY DEF Enter
<1>3. /\ n \in Nat /\ n > 0 /\ DOMAIN visits = 1..n /\ Top = visits[n] /\ Top \in Visit
      /\ visits \in Seq(Visit) /\ \A p \in 1..n : visits[p] \in Visit
  BY <1>1, Popped DEF SearchType
<1>4. u \in Units /\ \A p \in 1..n : visits[p].unit \in Units /\ visits[p].expanded \in BOOLEAN
  BY <1>3 DEF Visit
<1>5. Targets(u) \subseteq Units /\ IsFiniteSet(Targets(u))
  BY <1>4, TargetFacts
<1>6. /\ order \in Seq(Targets(u)) /\ DOMAIN order = 1..Len(order) /\ Len(order) \in Nat
      /\ \A t \in Targets(u) : \E i \in 1..Len(order) : order[i] = t
  BY <1>5, Orders
<1>7. order \in Seq(Units) /\ \A i \in 1..Len(order) : order[i] \in Targets(u)
  BY <1>5, <1>6
<1>8. /\ visits' \in Seq(Visit) /\ DOMAIN visits' = 1..(n + Len(order))
      /\ \A i \in 1..(n - 1) : visits'[i] = visits[i]
      /\ visits'[n] = [unit |-> u, expanded |-> TRUE]
      /\ \A i \in 1..Len(order) : visits'[n + i] = [unit |-> order[i], expanded |-> FALSE]
  <2>1. visits \in Seq(Visit) /\ visits # <<>>
    BY <1>1, <1>3
  <2> QED
    BY <1>2, <1>7, <2>1, Expanded
<1>9. /\ Units' = Units /\ Searching' /\ Visit' = Visit /\ \A v : Targets(v)' = Targets(v)
  BY <1>1, SameSearch
<1>10. mark \in [Units -> 0..2]
  BY <1>1 DEF SearchType
<1> HIDE DEF n, u
<1>11. mark' \in [Units -> 0..2] /\ mark'[u] = 1 /\ \A v \in Units : v # u => mark'[v] = mark[v]
  BY <1>1, <1>4, <1>10
<1>12. SearchType'
  BY <1>8, <1>9, <1>11 DEF SearchType
<1>13. Done' = Done
  BY <1>1, <1>4, <1>9, <1>10, <1>11 DEF Done
<1>14. DoneIsAcyclic'
  BY <1>1, <1>9, <1>13 DEF DoneIsAcyclic
<1> DEFINE m == Len(order)
\* Where each visit of the new stack comes from.
<1>15. ASSUME NEW p \in 1..(n + m)
       PROVE  \/ p \in 1..(n - 1) /\ visits'[p] = visits[p]
              \/ p = n /\ visits'[p].unit = u /\ visits'[p].expanded
              \/ p > n /\ visits'[p].unit \in Targets(u) /\ ~visits'[p].expanded
  <2>1. CASE p < n
    BY <1>3, <1>8, <2>1
  <2>2. CASE p = n
    BY <1>8, <2>2
  <2>3. CASE p > n
    <3>1. p - n \in 1..m /\ n + (p - n) = p
      BY <1>3, <1>6, <2>3
    <3>2. visits'[n + (p - n)] = [unit |-> order[p - n], expanded |-> FALSE] /\ order[p - n] \in Targets(u)
      BY <1>7, <1>8, <3>1
    <3>3. visits'[p] = [unit |-> order[p - n], expanded |-> FALSE]
      BY <3>1, <3>2
    <3> QED
      BY <2>3, <3>2, <3>3
  <2> QED
    BY <1>3, <1>6, <2>1, <2>2, <2>3
<1>15a. ASSUME NEW p \in 1..(n + m), visits'[p].expanded
       PROVE  \/ p \in 1..(n - 1) /\ visits'[p] = visits[p]
              \/ p = n /\ visits'[p].unit = u
  BY <1>15, <1>15a
<1>16. ~visits[n].expanded /\ visits[n].unit = u
  BY <1>1, <1>3 DEF u
<1>17. \A p \in 1..n : visits[p].expanded => visits[p].unit # u
  BY <1>1, <1>3, <1>4 DEF EnteredIsPath
<1>18. EnteredIsPath'
  <2>1. ASSUME NEW v \in Units
        PROVE  mark'[v] = 1 <=> \E p \in 1..(n + m) : visits'[p].expanded /\ visits'[p].unit = v
    <3>1. CASE v = u
      <4>1. n \in 1..(n + m)
        BY <1>3, <1>6
      <4> QED
        BY <1>8, <1>11, <3>1, <4>1
    <3>2. CASE v # u
      <4>1. mark'[v] = 1 <=> \E p \in 1..n : visits[p].expanded /\ visits[p].unit = v
        BY <1>1, <1>3, <1>11, <3>2 DEF EnteredIsPath
      <4>2. ASSUME NEW p \in 1..n, visits[p].expanded, visits[p].unit = v
            PROVE  \E q \in 1..(n + m) : visits'[q].expanded /\ visits'[q].unit = v
        <5>1. p \in 1..(n - 1) /\ p \in 1..(n + m)
          BY <1>3, <1>6, <1>16, <4>2
        <5> QED
          BY <1>8, <4>2, <5>1
      <4>3. ASSUME NEW p \in 1..(n + m), visits'[p].expanded, visits'[p].unit = v
            PROVE  \E q \in 1..n : visits[q].expanded /\ visits[q].unit = v
        <5>1. p \in 1..(n - 1) /\ visits'[p] = visits[p]
          BY <1>15, <3>2, <4>3
        <5>2. p \in 1..n
          BY <1>3, <5>1
        <5> QED
          BY <4>3, <5>1, <5>2
      <4> QED
        BY <4>1, <4>2, <4>3
    <3> QED
      BY <3>1, <3>2
  <2>2. ASSUME NEW p \in 1..(n + m), NEW q \in 1..(n + m),
               visits'[p].expanded, visits'[q].expanded, visits'[p].unit = visits'[q].unit
        PROVE  p = q
    <3>1. \/ p \in 1..(n - 1) /\ visits'[p] = visits[p]
          \/ p = n /\ visits'[p].unit = u
      BY <1>15a, <2>2
    <3>2. \/ q \in 1..(n - 1) /\ visits'[q] = visits[q]
          \/ q = n /\ visits'[q].unit = u
      BY <1>15a, <2>2
    <3>3. \A i \in 1..(n - 1) : i \in 1..n
      BY <1>3
    <3>4. CASE p = n \/ q = n
      BY <1>17, <2>2, <3>1, <3>2, <3>3, <3>4, <1>8
    <3>5. CASE p # n /\ q # n
      <4>1. p \in DOMAIN visits /\ q \in DOMAIN visits /\ visits'[p] = visits[p] /\ visits'[q] = visits[q]
        BY <1>3, <3>1, <3>2, <3>3, <3>5
      <4> QED
        BY <1>1, <2>2, <4>1 DEF EnteredIsPath
    <3> QED
      BY <3>4, <3>5
  <2>3. ASSUME NEW p \in 1..(n + m), p > 1
        PROVE  \E q \in 1..(p - 1) : /\ visits'[q].expanded /\ visits'[p].unit \in Targets(visits'[q].unit)
                                     /\ \A r \in (q + 1)..(p - 1) : ~visits'[r].expanded
    <3>1. CASE p <= n
      <4>1. p \in 1..n /\ visits'[p].unit = visits[p].unit
        BY <1>3, <1>8, <1>15, <1>16, <3>1
      <4>2. PICK q \in 1..(p - 1) : /\ visits[q].expanded /\ visits[p].unit \in Targets(visits[q].unit)
                                    /\ \A r \in (q + 1)..(p - 1) : ~visits[r].expanded
        BY <1>1, <1>3, <2>3, <4>1 DEF EnteredIsPath
      <4>3. q \in 1..(n - 1) /\ \A r \in (q + 1)..(p - 1) : r \in 1..(n - 1)
        BY <1>3, <3>1, <4>2
      <4> QED
        BY <1>8, <4>1, <4>2, <4>3
    <3>2. CASE p > n
      <4>1. n \in 1..(p - 1) /\ visits'[n].expanded /\ visits'[n].unit = u /\ visits'[p].unit \in Targets(u)
        BY <1>3, <1>8, <1>15, <3>2
      <4>2. ASSUME NEW r \in (n + 1)..(p - 1) PROVE ~visits'[r].expanded
        <5>1. r \in 1..(n + m) /\ r > n
          BY <1>3, <1>6
        <5> QED
          BY <1>3, <1>15, <5>1
      <4> QED
        BY <4>1, <4>2
    <3> QED
      BY <1>3, <1>6, <3>1, <3>2
  <2> QED
    BY <1>8, <1>9, <2>1, <2>2, <2>3 DEF EnteredIsPath
<1>19. TargetsAwait'
  <2> SUFFICES ASSUME NEW p \in 1..(n + m), visits'[p].expanded, NEW t \in Targets(visits'[p].unit)
               PROVE  mark'[t] = 2 \/ \E q \in 1..(n + m) : q > p /\ visits'[q].unit = t
    BY <1>8, <1>9 DEF TargetsAwait
  <2>1. CASE p = n
    <3>1. PICK i \in 1..m : order[i] = t
      BY <1>6, <1>8, <2>1
    <3>2. n + i \in 1..(n + m) /\ n + i > p
      BY <1>3, <1>6, <2>1
    <3>3. visits'[n + i] = [unit |-> order[i], expanded |-> FALSE]
      BY <1>8
    <3>4. visits'[n + i].unit = t
      BY <3>1, <3>3
    <3> QED
      BY <3>2, <3>4
  <2>2. CASE p # n
    <3>1. p \in 1..(n - 1) /\ p \in 1..n /\ visits'[p] = visits[p]
      BY <1>3, <1>15, <2>2
    <3>2. t \in Units
      BY <1>4, <3>1, TargetFacts
    <3>3. mark[t] = 2 \/ \E q \in 1..n : q > p /\ visits[q].unit = t
      BY <1>1, <1>3, <3>1 DEF TargetsAwait
    <3>4. CASE mark[t] = 2
      BY <1>1, <1>11, <3>2, <3>4
    <3>5. CASE \E q \in 1..n : q > p /\ visits[q].unit = t
      <4>1. PICK q \in 1..n : q > p /\ visits[q].unit = t
        BY <3>5
      <4>2. q \in 1..(n + m) /\ visits'[q].unit = visits[q].unit
        BY <1>3, <1>6, <1>8, <1>16
      <4> QED
        BY <4>1, <4>2
    <3> QED
      BY <3>3, <3>4, <3>5
  <2> QED
    BY <2>1, <2>2
<1> QED
  BY <1>9, <1>12, <1>14, <1>18, <1>19 DEF Search

(***************************************************************************)
(* What is known of the stack when its top is taken off: Leave and Skip.   *)
(***************************************************************************)
LEMMA PopKeeps ==
    ASSUME proposal \in Proposals, Search, Leave \/ Skip
    PROVE  Search'
<1> DEFINE n == Len(visits)
           u == Top.unit
<1>1. /\ Searching /\ visits # <<>> /\ visits' = Front(visits) /\ proposal' = proposal /\ validator' = validator
      /\ SearchType /\ DoneIsAcyclic /\ EnteredIsPath /\ TargetsAwait
      /\ mark' = [mark EXCEPT ![u] = 2]
      /\ ~Top.expanded => mark[u] = 2
  <2>1. CASE Leave
    BY <2>1 DEF Leave, Search
  <2>2. CASE Skip
    <3>1. mark' = mark /\ mark[u] = 2
      BY <2>2 DEF Skip
    <3>2. mark' = [mark EXCEPT ![u] = 2]
      BY <3>1, <2>2 DEF Search, SearchType, Skip
    <3> QED
      BY <2>2, <3>1, <3>2 DEF Skip, Search
  <2> QED
    BY <2>1, <2>2
<1>2. /\ n \in Nat /\ n > 0 /\ DOMAIN visits = 1..n /\ Top = visits[n] /\ Top \in Visit
      /\ visits \in Seq(Visit) /\ \A p \in 1..n : visits[p] \in Visit
      /\ visits' \in Seq(Visit) /\ DOMAIN visits' = 1..(n - 1)
      /\ \A p \in 1..(n - 1) : visits'[p] = visits[p]
  BY <1>1, Popped DEF SearchType
<1>3. u \in Units /\ \A p \in 1..n : visits[p].unit \in Units /\ visits[p].expanded \in BOOLEAN
  BY <1>2 DEF Visit
<1>4. /\ Units' = Units /\ Searching' /\ Visit' = Visit /\ \A v : Targets(v)' = Targets(v)
  BY <1>1, SameSearch
<1>4a. /\ \A v \in Units : mark[v] = 1 <=> \E p \in 1..n : visits[p].expanded /\ visits[p].unit = v
       /\ \A p, q \in 1..n : visits[p].expanded /\ visits[q].expanded /\ visits[p].unit = visits[q].unit => p = q
       /\ \A p \in 1..n : p > 1 =>
             \E q \in 1..(p - 1) : /\ visits[q].expanded /\ visits[p].unit \in Targets(visits[q].unit)
                                   /\ \A r \in (q + 1)..(p - 1) : ~visits[r].expanded
  BY <1>1, <1>2 DEF EnteredIsPath
<1>4b. DOMAIN visits' = 1..(n - 1)
  BY <1>2
<1>5. mark \in [Units -> 0..2]
  BY <1>1 DEF SearchType
<1>6. visits[n].unit = u /\ (~visits[n].expanded => mark[u] = 2)
  BY <1>1, <1>2
<1> HIDE DEF n, u
<1>7. mark' \in [Units -> 0..2] /\ mark'[u] = 2 /\ \A v \in Units : v # u => mark'[v] = mark[v]
  BY <1>1, <1>3, <1>5
<1>8. SearchType'
  BY <1>2, <1>4, <1>7 DEF SearchType
<1>9. Done' = Done \cup {u}
  BY <1>3, <1>4, <1>7 DEF Done
<1>10. Targets(u) \subseteq Done
  <2>1. CASE mark[u] = 2
    BY <1>1, <1>3, <2>1 DEF DoneIsAcyclic, Done
  <2>2. CASE mark[u] # 2
    <3>1. n \in 1..n /\ visits[n].expanded
      BY <1>2, <1>6, <2>2
    <3>2. \A t \in Targets(u) : mark[t] = 2 \/ \E q \in 1..n : q > n /\ visits[q].unit = t
      BY <1>1, <1>2, <1>6, <3>1 DEF TargetsAwait
    <3>3. \A q \in 1..n : ~(q > n)
      BY <1>2
    <3>4. Targets(u) \subseteq Units
      BY <1>3, TargetFacts
    <3> QED
      BY <3>2, <3>3, <3>4 DEF Done
  <2> QED
    BY <2>1, <2>2
<1>11. DoneIsAcyclic'
  <2>1. \A v \in Done \cup {u} : Targets(v) \subseteq Done
    BY <1>1, <1>10 DEF DoneIsAcyclic
  <2>2. ASSUME NEW S \in SUBSET (Done \cup {u}), S # {} PROVE \E v \in S : Targets(v) \cap S = {}
    <3>1. CASE u \in Done
      BY <1>1, <2>2, <3>1 DEF DoneIsAcyclic
    <3>2. CASE u \notin Done /\ S \ {u} # {}
      <4>1. S \ {u} \in SUBSET Done
        BY <2>2
      <4>2. PICK v \in S \ {u} : Targets(v) \cap (S \ {u}) = {}
        BY <1>1, <3>2, <4>1 DEF DoneIsAcyclic
      <4>3. u \notin Targets(v)
        BY <2>1, <3>2, <4>1, <4>2
      <4> QED
        BY <4>2, <4>3
    <3>3. CASE u \notin Done /\ S \ {u} = {}
      BY <1>10, <2>2, <3>3
    <3> QED
      BY <3>1, <3>2, <3>3
  <2> QED
    BY <1>4, <1>9, <2>1, <2>2 DEF DoneIsAcyclic
<1>12. \A p \in 1..(n - 1) : p \in 1..n
  BY <1>2
<1>13. EnteredIsPath'
  <2>1. ASSUME NEW v \in Units
        PROVE  mark'[v] = 1 <=> \E p \in 1..(n - 1) : visits'[p].expanded /\ visits'[p].unit = v
    <3>1. CASE v = u
      <4>1. ASSUME NEW p \in 1..(n - 1), visits[p].expanded, visits[p].unit = u PROVE FALSE
        <5>1. mark[u] = 1
          BY <1>1, <1>2, <1>3, <1>12, <4>1 DEF EnteredIsPath
        <5>2. visits[n].expanded /\ n \in 1..n
          BY <1>2, <1>6, <5>1
        <5>3. p = n
          BY <1>1, <1>2, <1>6, <1>12, <4>1, <5>2 DEF EnteredIsPath
        <5> QED
          BY <1>2, <5>3
      <4> QED
        BY <1>2, <1>7, <3>1, <4>1
    <3>2. CASE v # u
      <4>1. mark'[v] = 1 <=> \E p \in 1..n : visits[p].expanded /\ visits[p].unit = v
        BY <1>7, <1>4a, <3>2
      <4>2. ASSUME NEW p \in 1..n, visits[p].unit = v PROVE p \in 1..(n - 1)
        BY <1>2, <1>6, <3>2, <4>2
      <4> QED
        BY <1>2, <1>12, <4>1, <4>2
    <3> QED
      BY <3>1, <3>2
  <2>2. \A p, q \in 1..(n - 1) :
           visits'[p].expanded /\ visits'[q].expanded /\ visits'[p].unit = visits'[q].unit => p = q
    BY <1>2, <1>12, <1>4a
  <2>3. ASSUME NEW p \in 1..(n - 1), p > 1
        PROVE  \E q \in 1..(p - 1) : /\ visits'[q].expanded /\ visits'[p].unit \in Targets(visits'[q].unit)
                                     /\ \A r \in (q + 1)..(p - 1) : ~visits'[r].expanded
    <3>1. PICK q \in 1..(p - 1) : /\ visits[q].expanded /\ visits[p].unit \in Targets(visits[q].unit)
                                  /\ \A r \in (q + 1)..(p - 1) : ~visits[r].expanded
      BY <1>1, <1>2, <1>12, <2>3 DEF EnteredIsPath
    <3>2. q \in 1..(n - 1) /\ \A r \in (q + 1)..(p - 1) : r \in 1..(n - 1)
      BY <1>2, <3>1
    <3> QED
      BY <1>2, <3>1, <3>2
  <2> QED
    BY <1>4, <1>4b, <2>1, <2>2, <2>3 DEF EnteredIsPath
<1>14. TargetsAwait'
  <2> SUFFICES ASSUME NEW p \in 1..(n - 1), visits[p].expanded, NEW t \in Targets(visits[p].unit)
               PROVE  mark'[t] = 2 \/ \E q \in 1..(n - 1) : q > p /\ visits'[q].unit = t
    BY <1>2, <1>4 DEF TargetsAwait
  <2>1. mark[t] = 2 \/ \E q \in 1..n : q > p /\ visits[q].unit = t
    BY <1>1, <1>2, <1>12 DEF TargetsAwait
  <2>2. t \in Units
    BY <1>3, <1>12, TargetFacts
  <2>3. CASE mark[t] = 2 \/ t = u
    BY <1>7, <2>2, <2>3
  <2>4. CASE mark[t] # 2 /\ t # u
    <3>1. PICK q \in 1..n : q > p /\ visits[q].unit = t
      BY <2>1, <2>4
    <3>2. q \in 1..(n - 1)
      BY <1>2, <1>6, <2>4, <3>1
    <3> QED
      BY <1>2, <3>1, <3>2
  <2> QED
    BY <2>3, <2>4
<1> QED
  BY <1>4, <1>8, <1>11, <1>13, <1>14 DEF Search

(***************************************************************************)
(* Every step of the validator keeps what is said of its search.           *)
(***************************************************************************)
LEMMA SearchKept ==
    ASSUME VerdictInv, [SdrtNext]_sdrtVars
    PROVE  Search'
<1>1. proposal \in Proposals /\ Search
  BY DEF VerdictInv, Passed
<1>2. CASE Root
  BY <1>1, <1>2, RootKeeps
<1>3. CASE Enter
  BY <1>1, <1>3, EnterKeeps
<1>4. CASE Leave \/ Skip
  BY <1>1, <1>4, PopKeeps
<1>5. CASE Acyclic
  <2>1. proposal' = proposal /\ mark' = Unmarked(proposal) /\ visits' = <<>>
    BY <1>5 DEF Acyclic
  <2> SUFFICES (SearchType /\ DoneIsAcyclic /\ EnteredIsPath /\ TargetsAwait)'
    BY DEF Search
  <2>2. (proposal \in Proposals /\ mark = Unmarked(proposal) /\ visits = <<>>)'
    BY <1>1, <2>1 DEF Unmarked
  <2>3. Units' = Units
    BY <2>1, SameGraph
  <2>4. mark' = [u \in Units |-> 0]
    BY <2>1 DEF Unmarked, Units, Edus, Cdus
  <2>5. SearchType' /\ Done' = {}
    BY <2>1, <2>3, <2>4 DEF SearchType, Done
  <2>6. DOMAIN visits' = {} /\ \A u \in Units : mark'[u] # 1
    BY <2>1, <2>4
  <2> QED
    BY <2>3, <2>5, <2>6 DEF DoneIsAcyclic, EnteredIsPath, TargetsAwait
<1>6. CASE FoundCycle \/ Classes \/ Connectivity \/ Grow \/ Attach
  <2>1. ~Searching'
    BY <1>6 DEF FoundCycle, Classes, Connectivity, Grow, Attach, Searching
  <2> QED
    BY <2>1 DEF Search
<1>7. CASE UNCHANGED sdrtVars
  <2>1. mark' = mark /\ visits' = visits /\ proposal' = proposal /\ validator' = validator
    BY <1>7 DEF sdrtVars
  <2>2. /\ Units' = Units /\ (Searching' <=> Searching) /\ Visit' = Visit
        /\ \A u : Targets(u)' = Targets(u)
    BY <2>1, SameSearch
  <2>3. Done' = Done
    BY <2>1, <2>2 DEF Done
  <2>4. SearchType => SearchType'
    BY <2>1, <2>2 DEF SearchType
  <2>5. DoneIsAcyclic => DoneIsAcyclic'
    BY <2>2, <2>3 DEF DoneIsAcyclic
  <2>6. EnteredIsPath => EnteredIsPath'
    BY <2>1, <2>2 DEF EnteredIsPath
  <2>7. TargetsAwait => TargetsAwait'
    BY <2>1, <2>2 DEF TargetsAwait
  <2> QED
    BY <1>1, <2>2, <2>4, <2>5, <2>6, <2>7 DEF Search
<1> QED
  BY <1>2, <1>3, <1>4, <1>5, <1>6, <1>7 DEF SdrtNext

\* The set of which RightFrontier is the least.
Known(k) == 1..(k - 1) \cup {c \in Cdus : Inside(c) \subseteq 1..(k - 1)}
Raises(S, k) ==
    /\ k - 1 \in S
    /\ \A r \in Relations : r.class = "subordinating" /\ r.target \in S /\ r.source \in Known(k) => r.source \in S
    /\ \A c \in Cdus \cap Known(k) : proposal.members[c] \cap S # {} => c \in S

(***************************************************************************)
(* The right frontier of the definition is the least set closed under what *)
(* raises a unit to it.                                                    *)
(***************************************************************************)
LEMMA FrontierIsLeast ==
    \A k : RightFrontier(k) = {u \in Known(k) : \A S \in SUBSET Known(k) : Raises(S, k) => u \in S}
BY DEF RightFrontier, Known, Raises

(***************************************************************************)
(* The units that the code takes for introduced before an EDU are those of *)
(* the definition.                                                         *)
(***************************************************************************)
LEMMA KnownUnits ==
    ASSUME proposal \in Proposals, MembershipAcyclic, edu \in 2..proposal.n
    PROVE  /\ Introduced = Known(edu) /\ Completed = Cdus \cap Known(edu)
           /\ edu - 1 \in Known(edu) /\ edu \in Known(edu + 1) /\ (edu + 1) - 1 = edu
<1>1. proposal.n \in Nat \ {0} /\ Edus = 1..proposal.n /\ Edus \cap Cdus = {}
  BY GraphFacts
<1>2. edu \in Nat /\ edu >= 2 /\ edu <= proposal.n
  BY <1>1
<1>3. Completed = {c \in Cdus : Inside(c) \subseteq 1..(edu - 1)}
  BY AllMembersFound DEF Completed
<1>4. 1..(edu - 1) \subseteq Edus
  BY <1>1, <1>2
<1>5. Completed = Cdus \cap Known(edu)
  BY <1>1, <1>3, <1>4 DEF Known
<1>6. Introduced = Known(edu)
  BY <1>3 DEF Introduced, Known
<1>7. edu - 1 \in 1..(edu - 1) /\ edu \in 1..((edu + 1) - 1) /\ (edu + 1) - 1 = edu
  BY <1>2
<1> QED
  BY <1>5, <1>6, <1>7 DEF Known

(***************************************************************************)
(* Each addition belongs to the right frontier, and where there is none,   *)
(* nothing is missing.                                                     *)
(***************************************************************************)
LEMMA AdditionsBelong ==
    ASSUME VerdictInv, validator = "frontier", NEW u \in Additions
    PROVE  u \in Introduced /\ u \in RightFrontier(edu)
<1>1. /\ proposal \in Proposals /\ MembershipAcyclic /\ edu \in 2..proposal.n
      /\ frontier \subseteq RightFrontier(edu)
  BY DEF VerdictInv, Passed, Frontier
<1>2. Introduced = Known(edu) /\ Completed = Cdus \cap Known(edu)
  BY <1>1, KnownUnits
<1>3. u \in Known(edu)
  BY <1>2 DEF Additions, Raised, Enclosing
<1>4. ASSUME NEW S \in SUBSET Known(edu), Raises(S, edu) PROVE u \in S
  <2>1. frontier \subseteq S
    BY <1>1, <1>4, FrontierIsLeast
  <2>2. CASE u \in Raised
    BY <1>2, <1>4, <2>1, <2>2 DEF Raised, Raises
  <2>3. CASE u \in Enclosing
    BY <1>2, <1>4, <2>1, <2>3 DEF Enclosing, Raises
  <2> QED
    BY <2>2, <2>3 DEF Additions
<1> QED
  BY <1>2, <1>3, <1>4, FrontierIsLeast

(***************************************************************************)
(* Where nothing is to be added, nothing of the right frontier is missing. *)
(***************************************************************************)
LEMMA FrontierComplete ==
    ASSUME VerdictInv, validator = "frontier", Additions = {}
    PROVE  frontier = RightFrontier(edu)
<1>1. /\ proposal \in Proposals /\ MembershipAcyclic /\ edu \in 2..proposal.n
      /\ frontier \subseteq RightFrontier(edu) /\ edu - 1 \in frontier /\ frontier \subseteq Introduced
  BY DEF VerdictInv, Passed, Frontier
<1>2. Introduced = Known(edu) /\ Completed = Cdus \cap Known(edu)
  BY <1>1, KnownUnits
<1>3. Raises(frontier, edu)
  <2>1. \A r \in Relations : r.class = "subordinating" /\ r.target \in frontier /\ r.source \in Known(edu) => r.source \in frontier
    BY <1>2 DEF Additions, Raised
  <2>2. \A c \in Cdus \cap Known(edu) : proposal.members[c] \cap frontier # {} => c \in frontier
    BY <1>2 DEF Additions, Enclosing
  <2> QED
    BY <1>1, <2>1, <2>2 DEF Raises
<1>4. RightFrontier(edu) \subseteq frontier
  BY <1>1, <1>2, <1>3, FrontierIsLeast
<1> QED
  BY <1>1, <1>4

(***************************************************************************)
(* The last EDU is on its right frontier.                                  *)
(***************************************************************************)
LEMMA FirstFrontier ==
    \A k \in Nat : k \in Known(k + 1) => k \in RightFrontier(k + 1)
<1> TAKE k \in Nat
<1>1. (k + 1) - 1 = k
  OBVIOUS
<1> QED
  BY <1>1, FrontierIsLeast DEF Raises

(***************************************************************************)
(* A graph is well formed if each validator would accept it.               *)
(***************************************************************************)
LEMMA GraphParts ==
    WellFormed <=> /\ MembershipAcyclic /\ RelationsAcyclic /\ OneClassPerPair /\ IsConnected
                   /\ \A k \in Edus \ {1} : Attached(k)
BY DEF WellFormed, MembershipAcyclic, RelationsAcyclic, Attached

(***************************************************************************)
(* Every step of valid_sdrs keeps the invariant: a validator passes on     *)
(* exactly the graphs that have its part of WellFormed.                    *)
(***************************************************************************)
LEMMA NextVerdict == VerdictInv /\ [SdrtNext]_sdrtVars => VerdictInv'
<1> SUFFICES ASSUME VerdictInv, [SdrtNext]_sdrtVars PROVE VerdictInv'
  OBVIOUS
<1>1. proposal \in Proposals /\ Passed /\ Search /\ Frontier
  BY DEF VerdictInv, Passed
<1>2. proposal' = proposal
  BY DEF SdrtNext, sdrtVars, Root, Enter, Leave, Skip, FoundCycle, Acyclic, Classes, Connectivity, Grow, Attach
<1>3. /\ Edus' = Edus
      /\ MembershipAcyclic' <=> MembershipAcyclic
      /\ RelationsAcyclic' <=> RelationsAcyclic
      /\ OneClassPerPair' <=> OneClassPerPair
      /\ IsConnected' <=> IsConnected
      /\ \A k : RightFrontier(k)' = RightFrontier(k)
      /\ \A k : Attached(k)' <=> Attached(k)
      /\ WellFormed' <=> WellFormed
  BY <1>2, SameGraph
<1>4. Search'
  BY SearchKept
<1> SUFFICES Passed' /\ Frontier'
  BY <1>4 DEF VerdictInv
<1>5. CASE Root \/ Enter \/ Leave \/ Skip \/ UNCHANGED sdrtVars
  <2>1. validator' = validator /\ edu' = edu /\ frontier' = frontier
    BY <1>5 DEF Root, Enter, Leave, Skip, sdrtVars
  <2>2. Passed'
    BY <1>1, <1>2, <1>3, <2>1 DEF Passed
  <2>3. Introduced' = Introduced
    BY <1>2, <2>1 DEF Introduced, Completed, ElementaryMembers, Cdus, Units, Edus
  <2>4. RightFrontier(edu)' = RightFrontier(edu)
    BY <1>3, <2>1
  <2>5. Frontier'
    BY <1>1, <1>2, <1>3, <2>1, <2>3, <2>4 DEF Frontier
  <2> QED
    BY <2>2, <2>5
<1>6. CASE FoundCycle
  <2>1. Searching /\ visits # <<>> /\ ~Top.expanded /\ mark[Top.unit] = 1 /\ validator' = "rejected"
    BY <1>6 DEF FoundCycle
  <2>2. ~SearchedAcyclic
    BY <1>1, <2>1, MetAgain DEF Search
  <2>3. ~WellFormed
    BY <1>1, <2>1, <2>2, SearchedGraph, GraphParts DEF Searching
  <2> QED
    BY <1>1, <1>2, <1>3, <2>1, <2>3 DEF Passed, Frontier
<1>7. CASE Acyclic
  <2>1. Searching /\ (\A u \in Nodes : mark[u] = 2)
        /\ validator' = IF validator = "membership" THEN "relations" ELSE "classes"
    BY <1>7 DEF Acyclic
  <2>2. SearchedAcyclic
    BY <1>1, <2>1, LeftIsAcyclic DEF Search
  <2>3. CASE validator = "membership"
    BY <1>1, <1>2, <1>3, <2>1, <2>2, <2>3, SearchedGraph DEF Passed, Frontier
  <2>4. CASE validator = "relations"
    BY <1>1, <1>2, <1>3, <2>1, <2>2, <2>4, SearchedGraph DEF Passed, Frontier
  <2> QED
    BY <2>1, <2>3, <2>4 DEF Searching
<1>8. CASE Classes
  <2>1. validator = "classes" /\ validator' = IF OneClassPerPair THEN "connectivity" ELSE "rejected"
    BY <1>8 DEF Classes
  <2>2. ~OneClassPerPair => ~WellFormed
    BY GraphParts
  <2> QED
    BY <1>1, <1>2, <1>3, <2>1, <2>2 DEF Passed, Frontier
<1>9. CASE Connectivity
  <2>1. validator = "connectivity" /\ MembershipAcyclic /\ RelationsAcyclic /\ OneClassPerPair
    BY <1>1, <1>9 DEF Connectivity, Passed
  <2>2. CASE ~(\A u \in Units : Reached(u) = Units)
    <3>1. validator' = "rejected"
      BY <1>9, <2>2 DEF Connectivity
    <3>2. ~WellFormed
      BY <1>1, <2>2, Connects, GraphParts
    <3> QED
      BY <1>1, <1>2, <1>3, <3>1, <3>2 DEF Passed, Frontier
  <2>3. CASE (\A u \in Units : Reached(u) = Units) /\ proposal.n = 1
    <3>1. validator' = "accepted"
      BY <1>9, <2>3 DEF Connectivity
    <3>2. IsConnected /\ Edus \ {1} = {}
      BY <1>1, <2>3, Connects, GraphFacts
    <3> QED
      BY <1>1, <1>2, <1>3, <2>1, <3>1, <3>2 DEF Passed, Frontier
  <2>4. CASE (\A u \in Units : Reached(u) = Units) /\ proposal.n # 1
    <3>1. validator' = "frontier" /\ edu' = 2 /\ frontier' = {1}
      BY <1>9, <2>4 DEF Connectivity
    <3>2. IsConnected
      BY <1>1, <2>4, Connects
    <3>3. Passed'
      BY <1>1, <1>2, <1>3, <2>1, <3>1, <3>2 DEF Passed
    <3>4. edu' \in 2..proposal.n /\ edu' - 1 = 1 /\ 1..(edu' - 1) = {1}
      BY <1>1, <2>4, <3>1, GraphFacts
    <3>5. frontier' \subseteq Introduced'
      BY <3>1, <3>4 DEF Introduced
    <3>6. 1 \in RightFrontier(2)
      <4>1. 1 + 1 = 2 /\ 2 - 1 = 1 /\ 1 \in 1..1
        OBVIOUS
      <4> QED
        BY <4>1, FirstFrontier DEF Known
    <3>7. frontier' \subseteq RightFrontier(edu)'
      BY <1>3, <3>1, <3>6
    <3>8. \A k \in 2..(edu' - 1) : Attached(k)'
      BY <3>4
    <3>9. Frontier'
      BY <1>2, <3>1, <3>4, <3>5, <3>7, <3>8 DEF Frontier
    <3> QED
      BY <3>3, <3>9
  <2> QED
    BY <2>2, <2>3, <2>4
<1>10. ASSUME validator = "frontier"
       PROVE  /\ edu \in 2..proposal.n /\ edu - 1 \in frontier /\ edu \in Nat /\ edu \in Edus \ {1}
              /\ proposal.n \in Nat /\ Edus = 1..proposal.n
              /\ frontier \subseteq Introduced /\ frontier \subseteq RightFrontier(edu)
              /\ \A k \in 2..(edu - 1) : Attached(k)
              /\ MembershipAcyclic /\ RelationsAcyclic /\ OneClassPerPair /\ IsConnected
  BY <1>1, <1>10, GraphFacts DEF Frontier, Passed
<1>11. CASE Grow
  <2>1. validator = "frontier" /\ validator' = validator /\ edu' = edu
    BY <1>11 DEF Grow
  <2>2. PICK u \in Additions : frontier' = frontier \cup {u}
    BY <1>11 DEF Grow
  <2>3. u \in Introduced /\ u \in RightFrontier(edu)
    BY <2>1, AdditionsBelong
  <2>4. Introduced' = Introduced
    BY <1>2, <2>1 DEF Introduced, Completed, ElementaryMembers, Cdus, Units, Edus
  <2>5. RightFrontier(edu)' = RightFrontier(edu)
    BY <1>3, <2>1
  <2>6. Passed'
    BY <1>1, <1>2, <1>3, <2>1 DEF Passed
  <2>7. Frontier'
    BY <1>2, <1>3, <1>10, <2>1, <2>2, <2>3, <2>4, <2>5 DEF Frontier
  <2> QED
    BY <2>6, <2>7
<1>12. CASE Attach
  <2>1. validator = "frontier" /\ Additions = {}
    BY <1>12 DEF Attach
  <2>2. frontier = RightFrontier(edu)
    BY <2>1, FrontierComplete
  <2>3. CASE ~(\E r \in Relations : r.target = edu /\ r.source \in frontier)
    <3>1. validator' = "rejected"
      BY <1>12, <2>3 DEF Attach
    <3>2. ~Attached(edu)
      BY <2>2, <2>3 DEF Attached
    <3>3. ~WellFormed
      BY <1>10, <2>1, <3>2, GraphParts
    <3> QED
      BY <1>1, <1>2, <1>3, <3>1, <3>3 DEF Passed, Frontier
  <2>4. CASE \E r \in Relations : r.target = edu /\ r.source \in frontier
    <3>1. Attached(edu)
      BY <2>2, <2>4 DEF Attached
    <3>2. \A k \in 2..edu : Attached(k)
      <4>1. \A k \in 2..edu : k = edu \/ k \in 2..(edu - 1)
        BY <1>10, <2>1
      <4> QED
        BY <1>10, <2>1, <3>1, <4>1
    <3>3. CASE edu = proposal.n
      <4>1. validator' = "accepted"
        BY <1>12, <2>4, <3>3 DEF Attach
      <4>2. \A k \in Edus \ {1} : k \in 2..edu
        BY <1>10, <2>1, <3>3
      <4> QED
        BY <1>1, <1>2, <1>3, <1>10, <2>1, <3>2, <4>1, <4>2 DEF Passed, Frontier
    <3>4. CASE edu # proposal.n
      <4>1. validator' = "frontier" /\ edu' = edu + 1 /\ frontier' = {edu}
        BY <1>12, <2>1, <2>4, <3>4 DEF Attach
      <4>2. edu' \in 2..proposal.n /\ edu' - 1 = edu /\ edu \in 1..(edu' - 1)
        BY <1>10, <2>1, <3>4, <4>1
      <4>3. frontier' \subseteq Introduced'
        BY <4>1, <4>2 DEF Introduced
      <4>4. edu \in RightFrontier(edu + 1)
        BY <1>1, <1>10, <2>1, KnownUnits, FirstFrontier
      <4>5. frontier' \subseteq RightFrontier(edu)'
        BY <1>3, <4>1, <4>4
      <4>6. \A k \in 2..(edu' - 1) : Attached(k)'
        BY <1>3, <3>2, <4>2
      <4>7. Frontier'
        BY <1>2, <4>1, <4>2, <4>3, <4>5, <4>6 DEF Frontier
      <4>8. Passed'
        BY <1>1, <1>2, <1>3, <2>1, <4>1 DEF Passed
      <4> QED
        BY <4>7, <4>8
    <3> QED
      BY <3>3, <3>4
  <2> QED
    BY <2>3, <2>4
<1> QED
  BY <1>5, <1>6, <1>7, <1>8, <1>9, <1>11, <1>12 DEF SdrtNext

(***************************************************************************)
(* For every proposal, of any size, and in whatever order the searches and *)
(* the loop of the frontier proceed, what has been passed and what is on   *)
(* the stacks is right.                                                    *)
(***************************************************************************)
THEOREM Verdicts == SdrtSpec => []VerdictInv
BY InitVerdict, NextVerdict, PTL DEF SdrtSpec

(***************************************************************************)
(* The validator of graph.py accepts exactly the well-formed graphs.       *)
(***************************************************************************)
THEOREM ExactVerdicts == SdrtSpec => []VerdictExact
<1>1. VerdictInv => VerdictExact
  BY GraphParts DEF VerdictInv, Passed, VerdictExact
<1> QED
  BY <1>1, Verdicts, PTL
=============================================================================
