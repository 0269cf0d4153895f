---------------------------- MODULE JudgementProofs ----------------------------
(***************************************************************************)
(* What the two judges of the system make of what they are given: the      *)
(* core of a configuration file (Detect) and the server of the batches of  *)
(* a session (DecisionStream), for any documents, batches and policies.    *)
(*                                                                         *)
(* The configuration in force is the last valid document and nothing else, *)
(* and its numbers are within their ranges. Both follow by induction over  *)
(* the loads, which are all that touches the configuration. That nothing   *)
(* of an earlier document is left is because a candidate is always built   *)
(* from the defaults; with a candidate built from the last configuration   *)
(* the invariant is not inductive.                                         *)
(*                                                                         *)
(* A module with a known bad file is reported, or stands behind a full     *)
(* list of others: the report on the table was made of the modules and of  *)
(* the configuration as they still are, and what speaks for a module takes *)
(* less off its score than the hash adds.                                  *)
(*                                                                         *)
(* Changed code that one cycle scores at the kick threshold has the player *)
(* kicked or banned, whatever else is reported: every finding of every     *)
(* scanner has a number for its risk and, if it is about changed code, a   *)
(* category that the server holds for critical (JudgedInv). One lemma      *)
(* shows it for each group of scanners.                                    *)
(*                                                                         *)
(* A batch that comes twice only counts twice, one batch cut in two bans   *)
(* whom the whole would have banned, and a policy that observes escalates  *)
(* nothing. These rest on one fact about a batch, PeakFacts: its peak is   *)
(* one of its risks or zero, and none of them exceeds it.                  *)
(*                                                                         *)
(* Nor does it matter in what order the findings of a batch stand. The     *)
(* average is a fold, which takes them from the last down; that it is a    *)
(* sum whose parts may be taken in any order is the work of RiskSumIsTotal *)
(* and ReverseSum.                                                         *)
(***************************************************************************)
EXTENDS Detect, DecisionStream, FiniteSetTheorems, WellFoundedInduction, TLAPS

-----------------------------------------------------------------------------
(* The configuration in force.                                             *)

\* The steps that are no loads leave the configuration alone.
LEMMA OnlyLoads ==
    ASSUME [Next]_vars, ~\E d \in Documents : Load(d)
    PROVE  UNCHANGED <<snapshot, accepted>>
<1>1. ASSUME NEW f \in Facts, Appear(f) PROVE UNCHANGED <<snapshot, accepted>>
  BY <1>1 DEF Appear
<1>2. ASSUME NEW f \in world, Vanish(f) PROVE UNCHANGED <<snapshot, accepted>>
  BY <1>2 DEF Vanish
<1>3. ASSUME NEW n \in Cycles, RunCycle(n) PROVE UNCHANGED <<snapshot, accepted>>
  BY <1>3 DEF RunCycle
<1>4. ASSUME Restart \/ Rest PROVE UNCHANGED <<snapshot, accepted>>
  BY <1>4 DEF Restart, Rest
<1>5. ASSUME UNCHANGED vars PROVE UNCHANGED <<snapshot, accepted>>
  BY <1>5 DEF vars
<1>. QED
  BY <1>1, <1>2, <1>3, <1>4, <1>5 DEF Next

\* A load puts an acceptable document in force as a whole, or changes nothing.
LEMMA LoadWholeOrNot ==
    ASSUME NEW d \in Documents, Load(d)
    PROVE  \/ Acceptable(d) /\ snapshot' = Candidate(d) /\ accepted' = d
           \/ UNCHANGED <<snapshot, accepted>>
<1>1. Readings[d] = IF Acceptable(d) THEN Candidate(d) ELSE None
  BY DEF Readings
<1>2. CASE Readings[d] # None
  BY <1>1, <1>2 DEF Load
<1>3. CASE Readings[d] = None
  BY <1>3 DEF Load
<1>. QED
  BY <1>2, <1>3

\* The configuration in force is what a fresh reading makes of the last valid document
\* (config.hpp:325).
THEOREM FreshReading == Spec => []InForceIsTheFile
<1>1. Init => InForceIsTheFile
  BY DEF Init, InForceIsTheFile
<1>2. ASSUME InForceIsTheFile, [Next]_vars PROVE InForceIsTheFile'
  <2>1. ASSUME NEW d \in Documents, Load(d) PROVE InForceIsTheFile'
    <3>1. d # None
      BY DetectAssumption
    <3>2. CASE snapshot' = Candidate(d) /\ accepted' = d
      BY <3>1, <3>2 DEF InForceIsTheFile
    <3>3. CASE UNCHANGED <<snapshot, accepted>>
      BY <1>2, <3>3 DEF InForceIsTheFile
    <3>. QED
      BY <2>1, <3>2, <3>3, LoadWholeOrNot
  <2>2. CASE ~\E d \in Documents : Load(d)
    <3>1. UNCHANGED <<snapshot, accepted>>
      BY <1>2, <2>2, OnlyLoads
    <3>. QED
      BY <1>2, <3>1 DEF InForceIsTheFile
  <2>. QED
    BY <2>1, <2>2
<1>. QED
  BY <1>1, <1>2, PTL DEF Spec

-----------------------------------------------------------------------------
\* No number out of its range is put in force, whatever is written (config.cpp:1978).
THEOREM NumbersInRange == Spec => []InForceIsSound
<1>1. Init => InForceIsSound
  BY DEF Init, InForceIsSound
<1>2. ASSUME InForceIsSound, [Next]_vars PROVE InForceIsSound'
  <2>1. ASSUME NEW d \in Documents, Load(d) PROVE InForceIsSound'
    <3>1. CASE Acceptable(d) /\ snapshot' = Candidate(d)
      <4>1. WithinLimits(Candidate(d)) /\ ValidWeights(Candidate(d))
        BY <3>1 DEF Acceptable, ValidateSnapshot
      <4>2. WithinLimits(snapshot') /\ ValidWeights(snapshot')
        BY <3>1, <4>1
      <4>. QED
        BY <4>2 DEF InForceIsSound, WithinLimits, ValidWeights
    <3>2. CASE UNCHANGED <<snapshot, accepted>>
      BY <1>2, <3>2 DEF InForceIsSound, WithinLimits, ValidWeights
    <3>. QED
      BY <2>1, <3>1, <3>2, LoadWholeOrNot
  <2>2. CASE ~\E d \in Documents : Load(d)
    <3>1. UNCHANGED <<snapshot, accepted>>
      BY <1>2, <2>2, OnlyLoads
    <3>. QED
      BY <1>2, <3>1 DEF InForceIsSound, WithinLimits, ValidWeights
  <2>. QED
    BY <2>1, <2>2
<1>. QED
  BY <1>1, <1>2, PTL DEF Spec

-----------------------------------------------------------------------------
(* Sums over sets.                                                        *)

\* Among natural numbers there is a least.
LEMMA LeastNumber ==
    ASSUME NEW T \in SUBSET Nat, T # {}
    PROVE  \E m \in T : \A k \in T : m <= k
<1> DEFINE Less == {p \in Nat \X Nat : p[1] < p[2]}
<1>1. IsWellFoundedOn(Less, Nat)
  <2>1. Less = OpToRel(<, Nat)
    BY DEF OpToRel
  <2>. QED
    BY <2>1, NatLessThanWellFounded
<1>2. PICK m \in T : \A k \in T : ~(<<k, m>> \in Less)
  <2>. HIDE DEF Less
  <2>. QED
    BY <1>1, WFMin
<1>3. ASSUME NEW k \in T PROVE m <= k
  <2>1. <<k, m>> \notin Less /\ k \in Nat /\ m \in Nat
    BY <1>2
  <2>2. ~(k < m)
    BY <2>1
  <2>. QED
    BY <2>1, <2>2
<1>. QED
  BY <1>3

\* One step of a sum, with a function for the rest, and the function that SumOf takes.
Added(table, g, s) ==
    IF s = {} THEN 0 ELSE LET x == CHOOSE x \in s : TRUE IN table[x] + g[s \ {x}]

Total(table, S) == CHOOSE g : g = [s \in SUBSET S |-> Added(table, g, s)]

\* SumOf is a fold, and a fold a recursive function.
LEMMA SumIsTotal ==
    ASSUME NEW table, NEW S
    PROVE  SumOf(table, S) = Total(table, S)[S]
BY DEF SumOf, MapThenSumSet, MapThenFoldSet, Total, Added

\* A step adds whole numbers if the function has them below.
LEMMA AddedIsInt ==
    ASSUME NEW S, NEW table, \A x \in S : table[x] \in Int, NEW s \in SUBSET S, NEW g,
           \A t \in SUBSET s : t # s => g[t] \in Int
    PROVE  Added(table, g, s) \in Int
<1>1. CASE s = {}
  BY <1>1 DEF Added
<1>2. CASE s # {}
  <2>. DEFINE x == CHOOSE x \in s : TRUE
  <2>1. x \in s
    BY <1>2
  <2>2. Added(table, g, s) = table[x] + g[s \ {x}]
    BY <1>2 DEF Added
  <2>. HIDE DEF x
  <2>3. table[x] \in Int /\ g[s \ {x}] \in Int
    BY <2>1
  <2>. QED
    BY <2>2, <2>3
<1>. QED
  BY <1>1, <1>2

\* Two functions that agree on what is smaller add the same.
LEMMA AddedAgrees ==
    ASSUME NEW table, NEW s, NEW g, NEW h,
           \A t \in SUBSET s : t # s => g[t] = h[t]
    PROVE  Added(table, g, s) = Added(table, h, s)
<1>1. CASE s = {}
  BY <1>1 DEF Added
<1>2. CASE s # {}
  <2>. DEFINE x == CHOOSE x \in s : TRUE
  <2>1. x \in s
    BY <1>2
  <2>2. Added(table, g, s) = table[x] + g[s \ {x}] /\ Added(table, h, s) = table[x] + h[s \ {x}]
    BY <1>2 DEF Added
  <2>. HIDE DEF x
  <2>3. g[s \ {x}] = h[s \ {x}]
    BY <2>1
  <2>. QED
    BY <2>2, <2>3
<1>. QED
  BY <1>1, <1>2

\* A proper subset has fewer members.
LEMMA SmallerSubset ==
    ASSUME NEW S, IsFiniteSet(S), NEW s \in SUBSET S
    PROVE  /\ Cardinality(s) \in Nat
           /\ \A t \in SUBSET s :
                  t # s => Cardinality(t) \in Nat /\ Cardinality(t) < Cardinality(s)
<1>1. IsFiniteSet(s)
  BY FS_Subset
<1>2. ASSUME NEW t \in SUBSET s, t # s
      PROVE  Cardinality(t) \in Nat /\ Cardinality(t) < Cardinality(s)
  <2>1. /\ IsFiniteSet(t)
        /\ Cardinality(t) <= Cardinality(s)
        /\ Cardinality(s) = Cardinality(t) => s = t
    BY <1>1, FS_Subset
  <2>2. Cardinality(t) \in Nat /\ Cardinality(s) \in Nat
    BY <1>1, <2>1, FS_CardinalityType
  <2>. QED
    BY <1>2, <2>1, <2>2
<1>. QED
  BY <1>1, <1>2, FS_CardinalityType

\* The recursive function exists: one that fails for as few members as any would be
\* repaired by one more step.
LEMMA TotalRecurs ==
    ASSUME NEW S, IsFiniteSet(S), NEW table, \A x \in S : table[x] \in Int
    PROVE  Total(table, S) = [s \in SUBSET S |-> Added(table, Total(table, S), s)]
<1>. DEFINE Upto(n) == \E g \in [SUBSET S -> Int] :
                         \A s \in SUBSET S : Cardinality(s) <= n => g[s] = Added(table, g, s)
            Never == {n \in Nat : ~Upto(n)}
<1>1. Never = {}
  <2>1. SUFFICES ASSUME Never # {} PROVE FALSE
    OBVIOUS
  <2>2. PICK m \in Never : \A k \in Never : m <= k
    <3>. HIDE DEF Never
    <3>1. Never \in SUBSET Nat
      BY DEF Never
    <3>. QED
      BY <2>1, <3>1, LeastNumber
  <2>3. PICK g \in [SUBSET S -> Int] :
             \A s \in SUBSET S : Cardinality(s) < m => g[s] = Added(table, g, s)
    <3>1. CASE m = 0
      <4>1. \A s \in SUBSET S : ~(Cardinality(s) < 0)
        BY SmallerSubset
      <4>2. [s \in SUBSET S |-> 0] \in [SUBSET S -> Int]
        OBVIOUS
      <4>. QED
        BY <3>1, <4>1, <4>2
    <3>2. CASE m # 0
      <4>1. m - 1 \in Nat /\ m - 1 \notin Never
        <5>1. m \in Nat
          OBVIOUS
        <5>2. m - 1 \in Nat /\ ~(m <= m - 1)
          BY <3>2, <5>1
        <5>. HIDE DEF Never
        <5>. QED
          BY <2>2, <5>2
      <4>2. Upto(m - 1)
        BY <4>1
      <4>3. \A s \in SUBSET S : Cardinality(s) < m => Cardinality(s) <= m - 1
        BY SmallerSubset
      <4>. QED
        BY <4>2, <4>3
    <3>. QED
      BY <3>1, <3>2
  <2>. DEFINE h == [s \in SUBSET S |-> IF Cardinality(s) <= m THEN Added(table, g, s) ELSE 0]
  <2>4. \A s \in SUBSET S : Added(table, g, s) \in Int
    <3>1. TAKE s \in SUBSET S
    <3>2. \A t \in SUBSET s : g[t] \in Int
      OBVIOUS
    <3>. QED
      BY <3>2, AddedIsInt
  <2>5. h \in [SUBSET S -> Int]
    BY <2>4
  <2>6. ASSUME NEW s \in SUBSET S, Cardinality(s) <= m PROVE h[s] = Added(table, h, s)
    <3>1. \A t \in SUBSET s : t # s => t \in SUBSET S /\ Cardinality(t) < m /\ Cardinality(t) <= m
      BY <2>6, SmallerSubset
    <3>2. \A t \in SUBSET s : t # s => g[t] = h[t]
      BY <2>3, <3>1
    <3>3. h[s] = Added(table, g, s)
      BY <2>6
    <3>. HIDE DEF h
    <3>. QED
      BY <3>2, <3>3, AddedAgrees
  <2>7. Upto(m)
    <3>. HIDE DEF h
    <3>. QED
      BY <2>5, <2>6
  <2>. QED
    BY <2>2, <2>7
<1>2. PICK g \in [SUBSET S -> Int] :
           \A s \in SUBSET S : Cardinality(s) <= Cardinality(S) => g[s] = Added(table, g, s)
  <2>1. Cardinality(S) \in Nat
    BY FS_CardinalityType
  <2>. QED
    BY <1>1, <2>1
<1>3. \A s \in SUBSET S : g[s] = Added(table, g, s)
  <2>1. \A s \in SUBSET S : Cardinality(s) <= Cardinality(S)
    BY FS_Subset
  <2>. QED
    BY <1>2, <2>1
<1>4. g = [s \in SUBSET S |-> Added(table, g, s)]
  BY <1>3
<1>. HIDE DEF Upto, Never
<1>. QED
  BY <1>4 DEF Total

\* There is a smallest of the subsets of a finite set that are in a family.
LEMMA SmallestSubset ==
    ASSUME NEW S, IsFiniteSet(S), NEW F \in SUBSET SUBSET S, F # {}
    PROVE  \E s \in F : \A t \in SUBSET s : t # s => t \notin F
<1>. DEFINE sizes == {n \in Nat : \E s \in F : Cardinality(s) = n}
<1>1. sizes # {}
  <2>1. PICK s \in F : TRUE
    OBVIOUS
  <2>2. Cardinality(s) \in Nat
    BY SmallerSubset
  <2>. QED
    BY <2>1, <2>2
<1>2. PICK m \in sizes : \A k \in sizes : m <= k
  <2>1. sizes \in SUBSET Nat
    OBVIOUS
  <2>. HIDE DEF sizes
  <2>. QED
    BY <1>1, <2>1, LeastNumber
<1>3. PICK s \in F : Cardinality(s) = m
  BY <1>2
<1>4. ASSUME NEW t \in SUBSET s, t # s, t \in F PROVE FALSE
  <2>1. Cardinality(t) \in Nat /\ Cardinality(t) < m
    BY <1>3, <1>4, SmallerSubset
  <2>2. Cardinality(t) \in sizes
    BY <1>4, <2>1
  <2>3. m \in Nat /\ m <= Cardinality(t)
    BY <1>2, <2>2
  <2>. QED
    BY <2>1, <2>3
<1>. QED
  BY <1>3, <1>4

\* A sum of whole numbers is one, and one of natural numbers too: of the subsets whose sum
\* is none, a smallest would have a smaller one.
LEMMA TotalIsNumber ==
    ASSUME NEW N \in {Nat, Int}, NEW S, IsFiniteSet(S), NEW table, \A x \in S : table[x] \in N
    PROVE  \A s \in SUBSET S : Total(table, S)[s] \in N
<1>. DEFINE g == Total(table, S)
            bad == {s \in SUBSET S : g[s] \notin N}
<1>1. \A s \in SUBSET S : g[s] = Added(table, g, s)
  <2>1. \A x \in S : table[x] \in Int
    OBVIOUS
  <2>2. g = [s \in SUBSET S |-> Added(table, g, s)]
    BY <2>1, TotalRecurs
  <2>. HIDE DEF g
  <2>. QED
    BY <2>2, Zenon
<1>2. 0 \in N /\ \A i, j \in N : i + j \in N
  OBVIOUS
<1>. HIDE DEF g
<1>3. ASSUME bad # {} PROVE FALSE
  <2>1. PICK s \in bad : \A t \in SUBSET s : t # s => t \notin bad
    <3>1. bad \in SUBSET SUBSET S
      OBVIOUS
    <3>. HIDE DEF bad
    <3>. QED
      BY <1>3, <3>1, SmallestSubset
  <2>2. s \in SUBSET S /\ g[s] \notin N /\ \A t \in SUBSET s : t # s => g[t] \in N
    BY <2>1
  <2>3. g[s] = Added(table, g, s)
    BY <1>1, <2>2
  <2>4. CASE s = {}
    BY <1>2, <2>2, <2>3, <2>4 DEF Added
  <2>5. CASE s # {}
    <3>. DEFINE x == CHOOSE x \in s : TRUE
    <3>1. g[s] = table[x] + g[s \ {x}]
      BY <2>3, <2>5 DEF Added
    <3>2. x \in s
      BY <2>5
    <3>. HIDE DEF x
    <3>3. table[x] \in N /\ g[s \ {x}] \in N
      <4>1. s \ {x} \in SUBSET s /\ s \ {x} # s
        BY <3>2
      <4>. QED
        BY <2>2, <3>2, <4>1
    <3>4. table[x] + g[s \ {x}] \in N
      BY <1>2, <3>3, Zenon
    <3>. QED
      BY <2>2, <3>1, <3>4, Zenon
  <2>. QED
    BY <2>4, <2>5
<1>. QED
  BY <1>3 DEF g

\* So is what SumOf computes.
LEMMA SumIsNumber ==
    ASSUME NEW N \in {Nat, Int}, NEW S, IsFiniteSet(S), NEW table, \A x \in S : table[x] \in N
    PROVE  SumOf(table, S) \in N
<1>1. SumOf(table, S) = Total(table, S)[S]
  BY SumIsTotal, Zenon
<1>2. Total(table, S)[S] \in N
  BY TotalIsNumber
<1>. QED
  BY <1>1, <1>2, Zenon

\* Any member of a set may be added last.
AnyIsLast(table, g, S) == \A s \in SUBSET S : \A x \in s : g[s] = table[x] + g[s \ {x}]

\* A sum of natural numbers satisfies it, and nothing adds up to zero.
LEMMA AnyLast ==
    ASSUME NEW S, IsFiniteSet(S), NEW table, \A x \in S : table[x] \in Nat
    PROVE  /\ Total(table, S)[{}] = 0
           /\ AnyIsLast(table, Total(table, S), S)
<1>. DEFINE g == Total(table, S)
            bad == {s \in SUBSET S : \E x \in s : g[s] # table[x] + g[s \ {x}]}
<1>1. \A s \in SUBSET S : g[s] = Added(table, g, s) /\ g[s] \in Nat
  <2>1. g = [s \in SUBSET S |-> Added(table, g, s)]
    <3>1. \A x \in S : table[x] \in Int
      OBVIOUS
    <3>. QED
      BY <3>1, TotalRecurs
  <2>2. \A s \in SUBSET S : g[s] \in Nat
    BY TotalIsNumber
  <2>. HIDE DEF g
  <2>. QED
    BY <2>1, <2>2, Zenon
<1>. HIDE DEF g
<1>2. g[{}] = 0
  BY <1>1 DEF Added
<1>3. ASSUME bad # {} PROVE FALSE
  <2>1. PICK s \in bad : \A t \in SUBSET s : t # s => t \notin bad
    <3>1. bad \in SUBSET SUBSET S
      OBVIOUS
    <3>. HIDE DEF bad
    <3>. QED
      BY <1>3, <3>1, SmallestSubset
  <2>2. PICK x \in s : g[s] # table[x] + g[s \ {x}]
    BY <2>1
  <2>. DEFINE y == CHOOSE y \in s : TRUE
              both == (s \ {x}) \ {y}
  <2>3. y \in s /\ g[s] = table[y] + g[s \ {y}]
    <3>1. g[s] = Added(table, g, s)
      BY <1>1, <2>1
    <3>. QED
      BY <2>2, <3>1 DEF Added
  <2>. HIDE DEF y
  <2>4. x # y
    BY <2>2, <2>3
  <2>5. g[s \ {y}] = table[x] + g[both]
    <3>1. s \ {y} \in SUBSET S /\ x \in s \ {y} /\ s \ {y} \notin bad
      BY <2>1, <2>2, <2>3, <2>4
    <3>2. \A z \in s \ {y} : g[s \ {y}] = table[z] + g[(s \ {y}) \ {z}]
      BY <3>1
    <3>3. g[s \ {y}] = table[x] + g[(s \ {y}) \ {x}]
      BY <3>1, <3>2, Zenon
    <3>4. (s \ {y}) \ {x} = (s \ {x}) \ {y}
      <4>. HIDE DEF bad
      <4>. QED
        BY Zenon
    <3>. QED
      BY <3>3, <3>4, Zenon
  <2>6. g[s \ {x}] = table[y] + g[both]
    <3>1. s \ {x} \in SUBSET S /\ y \in s \ {x} /\ s \ {x} \notin bad
      BY <2>1, <2>2, <2>3, <2>4
    <3>2. \A z \in s \ {x} : g[s \ {x}] = table[z] + g[(s \ {x}) \ {z}]
      BY <3>1
    <3>. QED
      BY <3>1, <3>2, Zenon
  <2>7. table[x] \in Nat /\ table[y] \in Nat /\ g[both] \in Nat
    BY <1>1, <2>1, <2>3
  <2>. HIDE DEF both
  <2>. QED
    BY <2>2, <2>3, <2>5, <2>6, <2>7
<1>4. AnyIsLast(table, g, S)
  BY <1>3 DEF AnyIsLast
<1>. QED
  BY <1>2, <1>4 DEF g

-----------------------------------------------------------------------------
(* Finite sets.                                                            *)

\* What is enumerated is finite.
LEMMA FewAreFinite ==
    ASSUME NEW a, NEW b, NEW c, NEW d
    PROVE  IsFiniteSet({a, b, c, d})
<1>1. {a, b, c, d} = (({a} \union {b}) \union {c}) \union {d}
  OBVIOUS
<1>2. \A S, x : IsFiniteSet(S) => IsFiniteSet(S \union {x})
  BY FS_AddElement
<1>3. IsFiniteSet({a})
  BY FS_Singleton
<1>4. IsFiniteSet((({a} \union {b}) \union {c}) \union {d})
  BY <1>2, <1>3, Zenon
<1>. QED
  BY <1>1, <1>4, Zenon

\* A finite set has finitely many images.
LEMMA FiniteImage ==
    ASSUME NEW S, IsFiniteSet(S), NEW f
    PROVE  IsFiniteSet({f[x] : x \in S})
<1>. DEFINE T == {f[x] : x \in S}
            g == [x \in S |-> f[x]]
<1>1. g \in Surjection(S, T)
  BY DEF Surjection
<1>. HIDE DEF g, T
<1>. QED
  BY <1>1, FS_Surjection DEF T

\* A finite set of whole numbers that is not empty has a greatest: of the sets that have none
\* a smallest would have a smaller one.
LEMMA FiniteMax ==
    ASSUME NEW T \in SUBSET Int, IsFiniteSet(T), T # {}
    PROVE  Max(T) \in T /\ \A y \in T : Max(T) >= y
<1>. DEFINE Bounded(s) == \E x \in s : \A y \in s : x >= y
            bad == {s \in SUBSET T : s # {} /\ ~Bounded(s)}
<1>1. ASSUME bad # {} PROVE FALSE
  <2>1. PICK s \in bad : \A t \in SUBSET s : t # s => t \notin bad
    <3>1. bad \in SUBSET SUBSET T
      OBVIOUS
    <3>. HIDE DEF bad
    <3>. QED
      BY <1>1, <3>1, SmallestSubset
  <2>2. PICK x \in s : TRUE
    BY <2>1
  <2>3. s \ {x} \in SUBSET s /\ s \ {x} # s
    BY <2>2
  <2>4. s \ {x} = {} \/ Bounded(s \ {x})
    BY <2>1, <2>3
  <2>5. CASE s \ {x} = {}
    BY <2>1, <2>2, <2>5
  <2>6. CASE Bounded(s \ {x})
    <3>1. PICK z \in s \ {x} : \A y \in s \ {x} : z >= y
      BY <2>6
    <3>2. x \in Int /\ z \in Int /\ \A y \in s : y \in Int
      BY <2>1, <2>2, <3>1
    <3>3. Bounded(s)
      <4>1. CASE x >= z
        <5>1. \A y \in s : x >= y
          BY <3>1, <3>2, <4>1
        <5>. QED
          BY <2>2, <5>1
      <4>2. CASE z >= x
        <5>1. \A y \in s : z >= y
          BY <3>1, <3>2, <4>2
        <5>. QED
          BY <3>1, <5>1
      <4>. QED
        BY <3>2, <4>1, <4>2
    <3>. QED
      BY <2>1, <3>3
  <2>. QED
    BY <2>4, <2>5, <2>6
<1>2. \E x \in T : \A y \in T : x >= y
  BY <1>1
<1>. QED
  BY <1>2 DEF Max

-----------------------------------------------------------------------------
(* Known bad files.                                                        *)

\* The configuration in force is sound where modules are scored: the weights are numbers,
\* and the hash of a file that cannot be read is not listed.
WeighedInv(c) ==
    /\ DOMAIN c.weights = DOMAIN RiskWeights
    /\ \A k \in DOMAIN RiskWeights : c.weights[k] \in Int
    /\ << >> \notin c.hashes["known_bad_hashes"]

\* It is by default, and after every document that is accepted.
LEMMA DefaultIsWeighed == WeighedInv(DefaultSnapshot)
<1>1. DefaultSnapshot.weights = RiskWeights
  BY DEF DefaultSnapshot
<1>2. \A k \in DOMAIN RiskWeights : RiskWeights[k] \in Int
  <2>1. \A k \in DOMAIN FindingWeights : FindingWeights[k] \in Int
    BY DEF FindingWeights
  <2>2. \A k \in DOMAIN SessionWeights : SessionWeights[k] \in Int
    BY DEF SessionWeights
  <2>. QED
    BY <2>1, <2>2 DEF RiskWeights
<1>3. DefaultSnapshot.hashes["known_bad_hashes"] = {}
  BY DEF DefaultSnapshot, HashLists
<1>. QED
  BY <1>1, <1>2, <1>3 DEF WeighedInv

\* A document lists no empty hash, and its weights are validated.
LEMMA CandidateIsWeighed ==
    ASSUME NEW d, Acceptable(d)
    PROVE  WeighedInv(Candidate(d))
<1>1. Candidate(d).weights = Numbers(Section(d, "risk_weights"), RiskWeights)
  BY DEF Candidate, Over, DefaultSnapshot
<1>2. DOMAIN Candidate(d).weights = DOMAIN RiskWeights
  BY <1>1 DEF Numbers
<1>3. \A k \in DOMAIN RiskWeights : Candidate(d).weights[k] \in Int
  <2>1. ValidWeights(Candidate(d))
    BY DEF Acceptable, ValidateSnapshot
  <2>2. ASSUME NEW k \in DOMAIN RiskWeights PROVE Candidate(d).weights[k] \in Int
    <3>. DEFINE weight == Candidate(d).weights[k]
    <3>1. weight \in -1000..1000
      BY <2>1 DEF ValidWeights
    <3>. HIDE DEF weight
    <3>2. weight \in Int
      BY <3>1
    <3>. QED
      BY <3>2 DEF weight
  <2>. QED
    BY <2>2
<1>4. Candidate(d).hashes = HashSets(d, [l \in HashLists |-> {}])
  BY DEF Candidate, Over, DefaultSnapshot
<1>5. << >> \notin Candidate(d).hashes["known_bad_hashes"]
  BY <1>4 DEF HashSets, HashLists
<1>. QED
  BY <1>2, <1>3, <1>5 DEF WeighedInv

\* What a report says of modules is about those that are there, and about the inspections
\* that the configuration in force calls for: neither changes before the report is judged.
ReportInv ==
    report # None => \E inspected \in Inspections(world, snapshot) :
                         ModuleFindings(world, inspected, snapshot) \subseteq report

\* The inductive invariant: the facts are finitely many, the configuration is sound.
KnownInv ==
    /\ world \subseteq Facts /\ IsFiniteSet(world)
    /\ WeighedInv(snapshot)
    /\ ReportInv

\* The modules are scanned in every cycle, and as Inspections says.
LEMMA ModulesInReport ==
    ASSUME NEW n \in Cycles, NEW pick \in Picks(world, snapshot)
    PROVE  /\ pick.inspected \in Inspections(world, snapshot)
           /\ ModuleFindings(world, pick.inspected, snapshot) \subseteq
                  Report(world, snapshot, known, pick, {s \in DOMAIN Schedule : Due(s, n)})
<1>1. "modules" \in DOMAIN Schedule /\ Due("modules", n)
  <2>1. n \in Nat
    BY DetectAssumption
  <2>2. "modules" \in DOMAIN Schedule /\ Schedule["modules"] = <<1, 0>>
    BY DEF Schedule
  <2>. QED
    BY <2>1, <2>2 DEF Due
<1>2. Enabled("modules", snapshot)
  BY DEF Enabled, SwitchOf
<1>3. FindingsOf("modules", world, snapshot, known, pick) =
        ModuleFindings(world, pick.inspected, snapshot)
  BY DEF FindingsOf
<1>4. pick.inspected \in Inspections(world, snapshot)
  BY DEF Picks
<1>. QED
  BY <1>1, <1>2, <1>3, <1>4 DEF Report

\* The tools that are ended are no modules.
LEMMA EndedAreNoModules ==
    ASSUME NEW ended \in SUBSET Condemned
    PROVE  FactsOf(world \ ended, "module") = FactsOf(world, "module")
BY DEF Condemned, FactsOf

\* Every step keeps it.
LEMMA NextKnown == KnownInv /\ [Next]_vars => KnownInv'
<1>1. SUFFICES ASSUME KnownInv, [Next]_vars PROVE KnownInv'
  OBVIOUS
<1>2. ASSUME NEW f \in Facts, Appear(f) PROVE KnownInv'
  <2>1. IsFiniteSet(world')
    BY <1>1, <1>2, FS_AddElement DEF Appear, KnownInv
  <2>. QED
    BY <1>1, <1>2, <2>1 DEF Appear, KnownInv, ReportInv, WeighedInv
<1>3. ASSUME NEW f \in world, Vanish(f) PROVE KnownInv'
  <2>1. IsFiniteSet(world')
    BY <1>1, <1>3, FS_RemoveElement DEF Vanish, KnownInv
  <2>. QED
    BY <1>1, <1>3, <2>1 DEF Vanish, KnownInv, ReportInv, WeighedInv
<1>4. ASSUME NEW d \in Documents, Load(d) PROVE KnownInv'
  <2>1. Readings[d] = IF Acceptable(d) THEN Candidate(d) ELSE None
    BY DEF Readings
  <2>2. WeighedInv(snapshot')
    <3>1. snapshot' = snapshot \/ (Acceptable(d) /\ snapshot' = Candidate(d))
      BY <1>4, <2>1 DEF Load
    <3>. QED
      BY <1>1, <3>1, CandidateIsWeighed DEF KnownInv
  <2>3. report' = None /\ world' = world
    BY <1>4 DEF Load
  <2>. QED
    BY <1>1, <2>2, <2>3 DEF KnownInv, ReportInv, WeighedInv
<1>5. ASSUME NEW n \in Cycles, RunCycle(n) PROVE KnownInv'
  <2>1. PICK pick \in Picks(world, snapshot) :
          report' = Report(world, snapshot, known, pick, {s \in DOMAIN Schedule : Due(s, n)})
    BY <1>5 DEF RunCycle
  <2>2. PICK ended \in SUBSET Condemned : world' = world \ ended
    BY <1>5 DEF RunCycle
  <2>3. snapshot' = snapshot
    BY <1>5 DEF RunCycle
  <2>4. FactsOf(world', "module") = FactsOf(world, "module")
    BY <2>2, EndedAreNoModules
  <2>5. /\ Inspections(world', snapshot) = Inspections(world, snapshot)
        /\ \A inspected : ModuleFindings(world', inspected, snapshot) =
                          ModuleFindings(world, inspected, snapshot)
    BY <2>4 DEF Inspections, Eligible, ModuleFindings
  <2>6. ReportInv'
    <3>1. /\ pick.inspected \in Inspections(world', snapshot')
          /\ ModuleFindings(world', pick.inspected, snapshot') \subseteq report'
      BY <2>1, <2>3, <2>5, ModulesInReport
    <3>. QED
      BY <3>1 DEF ReportInv
  <2>7. world' \subseteq Facts /\ IsFiniteSet(world')
    BY <1>1, <2>2, FS_Subset DEF KnownInv
  <2>. QED
    BY <1>1, <2>3, <2>6, <2>7 DEF KnownInv, WeighedInv
<1>6. ASSUME Restart PROVE KnownInv'
  BY <1>1, <1>6 DEF Restart, KnownInv, ReportInv, WeighedInv
<1>7. ASSUME Rest PROVE KnownInv'
  BY <1>1, <1>7 DEF Rest, KnownInv, ReportInv, WeighedInv
<1>8. CASE UNCHANGED vars
  BY <1>1, <1>8 DEF vars, KnownInv, ReportInv, WeighedInv
<1>. QED
  BY <1>1, <1>2, <1>3, <1>4, <1>5, <1>6, <1>7, <1>8 DEF Next

-----------------------------------------------------------------------------
\* The signs of a module are few.
LEMMA SignsOfModule ==
    ASSUME NEW signs \in SUBSET ModuleSigns
    PROVE  IsFiniteSet(signs)
<1>1. ModuleSigns = {"no_path", "system", "suspicious", "odd_extension"} \union
                    {"no_size", "random", "random", "random"}
  BY DEF ModuleSigns
<1>2. IsFiniteSet({"no_path", "system", "suspicious", "odd_extension"})
  BY FewAreFinite
<1>3. IsFiniteSet({"no_size", "random", "random", "random"})
  BY FewAreFinite
<1>. QED
  BY <1>1, <1>2, <1>3, FS_Union, FS_Subset

\* By itself no module is less than nothing.
LEMMA BaseRiskIsNat ==
    ASSUME NEW m, m.signs \subseteq ModuleSigns, NEW c
    PROVE  BaseRisk(m, c) \in Nat
<1>. DEFINE table == [no_path |-> 25, system |-> 0, suspicious |-> 40,
                      odd_extension |-> 10, no_size |-> 15, random |-> 0]
            sum == SumOf(table, m.signs) + (IF Unknown(m, c) THEN 15 ELSE 0)
<1>1. IsFiniteSet(m.signs)
  BY SignsOfModule
<1>2. table \in [ModuleSigns -> Nat]
  BY DEF ModuleSigns
<1>. HIDE DEF table
<1>3. SumOf(table, m.signs) \in Nat
  <2>1. \A x \in m.signs : table[x] \in Nat
    BY <1>2
  <2>. QED
    BY <1>1, <2>1, SumIsNumber
<1>4. sum \in Nat
  BY <1>3
<1>5. BaseRisk(m, c) = IF Whitelisted(m, c) THEN Larger(0, sum - 30) ELSE sum
  BY DEF BaseRisk, table
<1>. HIDE DEF sum
<1>. QED
  BY <1>4, <1>5 DEF Larger

\* A known bad file that is inspected is scored as at least 20.
LEMMA KnownBadScores ==
    ASSUME NEW c, WeighedInv(c), Sensible(c),
           NEW m, m.signs \subseteq ModuleSigns, KnownBad(m, c),
           NEW inspected, m \in inspected
    PROVE  Score(m, inspected, c) >= 20
<1>. DEFINE unknown == c.weights["unknown_module"]
            folder == c.weights["module_from_suspicious_directory"]
            bad == c.weights["known_bad_hash"]
            publisher == c.weights["trusted_publisher"]
            unsigned == c.weights["unsigned_module"]
<1>1. {"unknown_module", "module_from_suspicious_directory", "known_bad_hash",
       "trusted_publisher", "unsigned_module"} \subseteq DOMAIN RiskWeights
  BY DEF RiskWeights, FindingWeights
<1>2. /\ unknown \in Int /\ folder \in Int /\ bad \in Int /\ publisher \in Int /\ unsigned \in Int
      /\ unknown >= 0 /\ folder >= 0 /\ unsigned >= 0 /\ bad >= 40 /\ bad + publisher >= 40
  BY <1>1 DEF WeighedInv, Sensible
<1>3. /\ m.file \notin c.hashes["trusted_hashes"]
      /\ m.file \in c.hashes["known_bad_hashes"]
  BY DEF KnownBad
<1>4. BaseRisk(m, c) \in Nat
  BY BaseRiskIsNat
<1>5. ScoreBefore(m, c) \in Int /\ ScoreBefore(m, c) >= 0
  <2>1. ScoreBefore(m, c) =
          IF "suspicious" \in m.signs
          THEN Larger(BaseRisk(m, c) + (IF Unknown(m, c) THEN unknown ELSE 0), folder)
          ELSE BaseRisk(m, c) + (IF Unknown(m, c) THEN unknown ELSE 0)
    BY DEF ScoreBefore
  <2>. HIDE DEF unknown, folder
  <2>. QED
    BY <1>2, <1>4, <2>1 DEF Larger
<1>6. FileScore(m, c) \in Int /\ FileScore(m, c) >= 40
  <2>. DEFINE signed == m.signed /\ m.publisher \in {<<p>> : p \in c.names["trusted_publishers"]}
              bare == c.switches["require_valid_signature"] /\ ~m.signed /\ ~Whitelisted(m, c)
  <2>1. FileScore(m, c) = 0 + bad + (IF signed THEN publisher ELSE 0)
                            + (IF bare THEN unsigned ELSE 0)
    BY <1>3 DEF FileScore
  <2>. HIDE DEF bad, publisher, unsigned, signed, bare
  <2>. QED
    BY <1>2, <2>1
<1>7. \E sum \in Int : /\ sum >= 40
                       /\ Score(m, inspected, c) \in {Larger(0, sum - 20), Larger(0, sum)}
  BY <1>5, <1>6 DEF Score
<1>. QED
  BY <1>7 DEF Larger

\* A module that is not inspected stands behind as many as are.
LEMMA BehindTheInspected ==
    ASSUME NEW facts, IsFiniteSet(facts), NEW c, NEW inspected \in Inspections(facts, c),
           NEW m \in Eligible(facts, c), m \notin inspected
    PROVE  Cardinality({n \in Eligible(facts, c) \ {m} :
                            BaseRisk(n, c) >= BaseRisk(m, c)}) >= MaxIntegrityChecks
<1>. DEFINE E == Eligible(facts, c)
            before == {n \in E \ {m} : BaseRisk(n, c) >= BaseRisk(m, c)}
<1>1. IsFiniteSet(E)
  <2>1. E \subseteq facts
    BY DEF Eligible, FactsOf
  <2>. HIDE DEF E
  <2>. QED
    BY <2>1, FS_Subset
<1>2. /\ inspected \subseteq E
      /\ Cardinality(inspected) = Min({MaxIntegrityChecks, Cardinality(E)})
      /\ \A k \in inspected : BaseRisk(k, c) >= BaseRisk(m, c)
  BY DEF Inspections
<1>. HIDE DEF E
<1>3. inspected \subseteq before
  BY <1>2
<1>4. Cardinality(E) \in Nat /\ Cardinality(inspected) # Cardinality(E)
  BY <1>1, <1>2, FS_CardinalityType, FS_Subset DEF E
<1>5. Cardinality(inspected) = MaxIntegrityChecks
  <2>. DEFINE few == Cardinality(E)
  <2>. HIDE DEF few
  <2>1. few \in Nat /\ MaxIntegrityChecks \in Nat
    BY <1>4, ModuleScansAssumption DEF few
  <2>2. Min({MaxIntegrityChecks, few}) \in {MaxIntegrityChecks, few}
    <3>1. \E x \in {MaxIntegrityChecks, few} : \A y \in {MaxIntegrityChecks, few} : x <= y
      BY <2>1
    <3>. QED
      BY <3>1 DEF Min
  <2>. QED
    BY <1>2, <1>4, <2>2 DEF few
<1>6. IsFiniteSet(before) /\ Cardinality(inspected) <= Cardinality(before)
  <2>1. before \subseteq E
    OBVIOUS
  <2>. HIDE DEF before
  <2>. QED
    BY <1>1, <1>3, <2>1, FS_Subset
<1>. QED
  BY <1>5, <1>6 DEF E

\* A loaded module with a known bad file is reported by every cycle, with its hash, or as
\* many others as are inspected are no less risky (engine.hpp:314, 338, 369).
THEOREM KnownBadReported == Spec => []KnownBadIsReported
<1>1. Init => KnownInv
  BY DefaultIsWeighed, FS_EmptySet DEF Init, KnownInv, ReportInv
<1>2. KnownInv => KnownBadIsReported
  <2>1. SUFFICES ASSUME KnownInv, report # None, Sensible(snapshot),
                        NEW m \in Eligible(world, snapshot), KnownBad(m, snapshot)
                 PROVE  \/ \E f \in report : m \in f.about /\ m.file \in f.details
                        \/ Cardinality({n \in Eligible(world, snapshot) \ {m} :
                              BaseRisk(n, snapshot) >= BaseRisk(m, snapshot)}) >= MaxIntegrityChecks
    BY DEF KnownBadIsReported
  <2>2. PICK inspected \in Inspections(world, snapshot) :
          ModuleFindings(world, inspected, snapshot) \subseteq report
    BY <2>1 DEF KnownInv, ReportInv
  <2>3. CASE m \notin inspected
    BY <2>1, <2>2, <2>3, BehindTheInspected DEF KnownInv
  <2>4. CASE m \in inspected
    <3>1. m \in FactsOf(world, "module") /\ m \in FactsOf(Facts, "module")
      BY <2>1 DEF Eligible, FactsOf, KnownInv
    <3>2. m.signs \subseteq ModuleSigns
      BY <3>1, FactsAssumption DEF FactsOf
    <3>3. Score(m, inspected, snapshot) >= 20
      BY <2>1, <2>4, <3>2, KnownBadScores DEF KnownInv
    <3>. DEFINE f == [Finding("MODULE", Score(m, inspected, snapshot), {m}) EXCEPT
                         !.details = {m.file} \ {<< >>}]
    <3>4. f \in report
      BY <2>2, <2>4, <3>1, <3>3 DEF ModuleFindings
    <3>5. f.about = {m} /\ f.details = {m.file} \ {<< >>}
      BY DEF Finding
    <3>6. m.file # << >>
      BY <2>1 DEF KnownBad, KnownInv, WeighedInv
    <3>. HIDE DEF f
    <3>. QED
      BY <3>4, <3>5, <3>6
  <2>. QED
    BY <2>3, <2>4
<1>. QED
  BY <1>1, <1>2, NextKnown, PTL DEF Spec

-----------------------------------------------------------------------------
(* Changed code.                                                           *)

\* A finding the server can judge: with a number, and with a name it holds for critical if
\* code was changed.
Judged(f) ==
    /\ f.risk_score \in Int
    /\ (\E a \in f.about : a.fact \in CodeChanges) => f.category \in CriticalCategories

AllJudged(findings) == IsFiniteSet(findings) /\ \A f \in findings : Judged(f)

\* One finding for each of some facts.
LEMMA EachJudged ==
    ASSUME NEW S, IsFiniteSet(S), NEW found, \A x \in S : Judged(found[x])
    PROVE  AllJudged({found[x] : x \in S})
BY FiniteImage DEF AllJudged

\* The server knows what such findings are about, if it has to.
Named(category, S) == category \in CriticalCategories \/ \A x \in S : x.fact \notin CodeChanges

OneFor(category, risk, S) == {Finding(category, risk[x], {x}) : x \in S}

\* The same if all that differs is the fact and the risk.
LEMMA FactsJudged ==
    ASSUME NEW facts, IsFiniteSet(facts), NEW S \in SUBSET facts, NEW category, NEW risk,
           \A x \in S : risk[x] \in Int,
           Named(category, S)
    PROVE  AllJudged(OneFor(category, risk, S))
<1>. DEFINE found == [x \in S |-> Finding(category, risk[x], {x})]
<1>1. IsFiniteSet(S)
  BY FS_Subset
<1>2. \A x \in S : Judged(found[x])
  BY DEF Judged, Finding, Named
<1>3. OneFor(category, risk, S) = {found[x] : x \in S}
  BY DEF OneFor
<1>. HIDE DEF found
<1>. QED
  BY <1>1, <1>2, <1>3, EachJudged

\* One finding for all of some facts, or none.
LEMMA SingleJudged ==
    ASSUME NEW category, NEW risk \in Int, NEW about,
           Named(category, about)
    PROVE  AllJudged({Finding(category, risk, about)})
<1>. DEFINE f == Finding(category, risk, about)
<1>1. Judged(f)
  BY DEF Judged, Finding, Named
<1>. HIDE DEF f
<1>2. IsFiniteSet({f})
  BY FS_Singleton
<1>3. AllJudged({f})
  BY <1>1, <1>2 DEF AllJudged
<1>. QED
  BY <1>3 DEF f

\* Nothing found is fine.
LEMMA NoneJudged == AllJudged({})
BY FS_EmptySet DEF AllJudged

\* What two scanners find may be reported together.
LEMMA BothJudged ==
    ASSUME NEW R, NEW T, AllJudged(R), AllJudged(T)
    PROVE  AllJudged(R \union T)
BY FS_Union DEF AllJudged

-----------------------------------------------------------------------------
\* The weights are numbers.
Weights(w) == \A k \in DOMAIN RiskWeights : w[k] \in Int

\* The scanners for changed code, in the order of CodeScans.
LEMMA CodeWeights ==
    ASSUME NEW w, Weights(w)
    PROVE  /\ w.inline_hook \in Int /\ w.syscall_stub \in Int /\ w.etw_patch \in Int
           /\ w.exception_dispatch \in Int /\ w.api_hook \in Int /\ w.eat_hook \in Int
           /\ w.manual_map \in Int /\ w.writable_image \in Int /\ w.hollowing \in Int
           /\ w.stealth \in Int /\ w.image_integrity \in Int /\ w.unknown_module \in Int
<1>1. {"inline_hook", "syscall_stub", "etw_patch", "exception_dispatch", "api_hook", "eat_hook",
       "manual_map", "writable_image", "hollowing", "stealth", "image_integrity",
       "unknown_module"} \subseteq DOMAIN RiskWeights
  BY DEF RiskWeights, FindingWeights, SessionWeights
<1>. QED
  BY <1>1 DEF Weights

\* Half or a third of a weight.
LEMMA PartIsInt ==
    ASSUME NEW weight \in Int, NEW n \in {2, 3}
    PROVE  Part(weight, n) \in Int
BY DEF Part

\* The scanners that look at the first bytes of functions.
LEMMA PrologueScans ==
    ASSUME NEW facts, IsFiniteSet(facts), NEW w, Weights(w)
    PROVE  /\ AllJudged(InlineHookFindings(facts, w))
           /\ AllJudged(SyscallStubFindings(facts, w))
           /\ AllJudged(EtwFindings(facts, w))
           /\ AllJudged(ExceptionDispatchFindings(facts, w))
<1>1. AllJudged(InlineHookFindings(facts, w))
  <2>. DEFINE S == PatchesIn(facts, InlineFunctions, LooksLikeHookPrologue)
              risk == [x \in S |-> w.inline_hook]
  <2>1. S \in SUBSET facts
    BY DEF PatchesIn, FactsOf
  <2>2. InlineHookFindings(facts, w) = OneFor("INLINE_HOOK", risk, S)
    BY DEF InlineHookFindings, OneFor
  <2>3. \A x \in S : risk[x] \in Int
    BY CodeWeights
  <2>4. Named("INLINE_HOOK", S)
    BY DEF Named, CriticalCategories
  <2>. HIDE DEF S, risk
  <2>. QED
    BY <2>1, <2>2, <2>3, <2>4, FactsJudged
<1>2. AllJudged(SyscallStubFindings(facts, w))
  <2>. DEFINE S == {q \in PatchesIn(facts, StubFunctions, Shapes) : StubReasons(q.shape) # {}}
              risk == [x \in S |-> 
                  w.syscall_stub + IF Cardinality(StubReasons(x.shape)) > 1 THEN 15 ELSE 0]
  <2>1. S \in SUBSET facts
    BY DEF PatchesIn, FactsOf
  <2>2. SyscallStubFindings(facts, w) = OneFor("SYSCALL_STUB", risk, S)
    BY DEF SyscallStubFindings, OneFor
  <2>3. \A x \in S : risk[x] \in Int
    BY CodeWeights
  <2>4. Named("SYSCALL_STUB", S)
    BY DEF Named, CriticalCategories
  <2>. HIDE DEF S, risk
  <2>. QED
    BY <2>1, <2>2, <2>3, <2>4, FactsJudged
<1>3. AllJudged(EtwFindings(facts, w))
  <2>. DEFINE S == PatchesIn(facts, TraceFunctions, LooksPatched)
              risk == [x \in S |-> w.etw_patch]
  <2>1. S \in SUBSET facts
    BY DEF PatchesIn, FactsOf
  <2>2. EtwFindings(facts, w) = OneFor("ETW", risk, S)
    BY DEF EtwFindings, OneFor
  <2>3. \A x \in S : risk[x] \in Int
    BY CodeWeights
  <2>4. Named("ETW", S)
    BY DEF Named, CriticalCategories
  <2>. HIDE DEF S, risk
  <2>. QED
    BY <2>1, <2>2, <2>3, <2>4, FactsJudged
<1>4. AllJudged(ExceptionDispatchFindings(facts, w))
  <2>. DEFINE S == PatchesIn(facts, DispatchFunctions, LooksHooked)
              risk == [x \in S |-> 
                  w.exception_dispatch + IF x.of \in Dispatchers THEN 10 ELSE 0]
  <2>1. S \in SUBSET facts
    BY DEF PatchesIn, FactsOf
  <2>2. ExceptionDispatchFindings(facts, w) = OneFor("EXCEPTION_DISPATCH", risk, S)
    BY DEF ExceptionDispatchFindings, OneFor
  <2>3. \A x \in S : risk[x] \in Int
    BY CodeWeights
  <2>4. Named("EXCEPTION_DISPATCH", S)
    BY DEF Named, CriticalCategories
  <2>. HIDE DEF S, risk
  <2>. QED
    BY <2>1, <2>2, <2>3, <2>4, FactsJudged
<1>. QED
  BY <1>1, <1>2, <1>3, <1>4

\* The scanners that look at imports and exports, at images and at what hides from debuggers.
LEMMA TableScans ==
    ASSUME NEW facts, IsFiniteSet(facts), NEW w, Weights(w)
    PROVE  /\ AllJudged(HookFindings(facts, w))
           /\ AllJudged(EatHookFindings(facts, w))
           /\ AllJudged(WritableImageFindings(facts, w))
           /\ AllJudged(StealthFindings(facts, w))
<1>1. AllJudged(HookFindings(facts, w))
  <2>. DEFINE S == {j \in FactsOf(facts, "import") :
                      j.of \in CriticalImports /\ ImportRisk(j, w) > 0}
              risk == [x \in S |-> ImportRisk(x, w)]
  <2>1. S \in SUBSET facts
    BY DEF FactsOf
  <2>2. HookFindings(facts, w) = OneFor("HOOK", risk, S)
    BY DEF HookFindings, OneFor
  <2>3. \A x \in S : risk[x] \in Int
    BY CodeWeights DEF ImportRisk
  <2>4. Named("HOOK", S)
    BY DEF Named, CriticalCategories
  <2>. HIDE DEF S, risk
  <2>. QED
    BY <2>1, <2>2, <2>3, <2>4, FactsJudged
<1>2. AllJudged(EatHookFindings(facts, w))
  <2>. DEFINE S == {x \in FactsOf(facts, "export") : x.of \in CriticalExports /\ ~x.forwarder}
              risk == [x \in S |-> w.eat_hook]
  <2>1. S \in SUBSET facts
    BY DEF FactsOf
  <2>2. EatHookFindings(facts, w) = OneFor("EAT_HOOK", risk, S)
    BY DEF EatHookFindings, OneFor
  <2>3. \A x \in S : risk[x] \in Int
    BY CodeWeights
  <2>4. Named("EAT_HOOK", S)
    BY DEF Named, CriticalCategories
  <2>. HIDE DEF S, risk
  <2>. QED
    BY <2>1, <2>2, <2>3, <2>4, FactsJudged
<1>3. AllJudged(WritableImageFindings(facts, w))
  <2>. DEFINE S == FactsOf(facts, "writable_image")
              risk == [x \in S |-> w.writable_image]
  <2>1. S \in SUBSET facts
    BY DEF FactsOf
  <2>2. WritableImageFindings(facts, w) = OneFor("WRITABLE_IMAGE", risk, S)
    BY DEF WritableImageFindings, OneFor
  <2>3. \A x \in S : risk[x] \in Int
    BY CodeWeights
  <2>4. Named("WRITABLE_IMAGE", S)
    BY DEF Named, CriticalCategories
  <2>. HIDE DEF S, risk
  <2>. QED
    BY <2>1, <2>2, <2>3, <2>4, FactsJudged
<1>4. AllJudged(StealthFindings(facts, w))
  <2>. DEFINE S == FactsOf(facts, "stealth")
              risk == [x \in S |-> w.stealth + IF x.what = "callback" THEN 20 ELSE 0]
  <2>1. S \in SUBSET facts
    BY DEF FactsOf
  <2>2. StealthFindings(facts, w) = OneFor("STEALTH", risk, S)
    BY DEF StealthFindings, OneFor
  <2>3. \A x \in S : risk[x] \in Int
    BY CodeWeights
  <2>4. Named("STEALTH", S)
    BY DEF Named, CriticalCategories
  <2>. HIDE DEF S, risk
  <2>. QED
    BY <2>1, <2>2, <2>3, <2>4, FactsJudged
<1>. QED
  BY <1>1, <1>2, <1>3, <1>4

\* The scanners that report some of what they find.
LEMMA ListedScans ==
    ASSUME NEW facts, IsFiniteSet(facts), NEW w, Weights(w),
           NEW maps \in SUBSET facts, NEW regions \in SUBSET FactsOf(facts, "region"),
           NEW threads \in SUBSET FactsOf(facts, "thread")
    PROVE  /\ AllJudged(ManualMapFindings(maps, w))
           /\ AllJudged(RegionFindings(regions, w))
           /\ AllJudged(ThreadFindings(threads, w))
<1>1. AllJudged(ManualMapFindings(maps, w))
  <2>. DEFINE S == maps
              risk == [x \in S |-> ManualMapRisk(x, w)]
  <2>1. S \in SUBSET facts
    BY DEF FactsOf
  <2>2. ManualMapFindings(maps, w) = OneFor("MANUAL_MAP", risk, S)
    BY DEF ManualMapFindings, OneFor
  <2>3. \A x \in S : risk[x] \in Int
    BY CodeWeights DEF ManualMapRisk
  <2>4. Named("MANUAL_MAP", S)
    BY DEF Named, CriticalCategories
  <2>. HIDE DEF S, risk
  <2>. QED
    BY <2>1, <2>2, <2>3, <2>4, FactsJudged
<1>2. AllJudged(RegionFindings(regions, w))
  <2>. DEFINE S == regions
              risk == [x \in S |-> RegionRisk(x)]
  <2>1. S \in SUBSET facts
    BY DEF FactsOf
  <2>2. RegionFindings(regions, w) = OneFor("MEMORY", risk, S)
    BY DEF RegionFindings, OneFor
  <2>3. \A x \in S : risk[x] \in Int
    BY DEF RegionRisk
  <2>4. Named("MEMORY", S)
    BY DEF Named, CodeChanges, FactsOf
  <2>. HIDE DEF S, risk
  <2>. QED
    BY <2>1, <2>2, <2>3, <2>4, FactsJudged
<1>3. AllJudged(ThreadFindings(threads, w))
  <2>. DEFINE S == threads
              risk == [x \in S |-> ThreadRisk(x) + w.unknown_module]
  <2>1. S \in SUBSET facts
    BY DEF FactsOf
  <2>2. ThreadFindings(threads, w) = OneFor("THREAD", risk, S)
    BY DEF ThreadFindings, OneFor
  <2>3. \A x \in S : risk[x] \in Int
    BY CodeWeights DEF ThreadRisk
  <2>4. Named("THREAD", S)
    BY DEF Named, CodeChanges, FactsOf
  <2>. HIDE DEF S, risk
  <2>. QED
    BY <2>1, <2>2, <2>3, <2>4, FactsJudged
<1>. QED
  BY <1>1, <1>2, <1>3

\* The scanners for changed code that report once.
LEMMA SingleScans ==
    ASSUME NEW facts, IsFiniteSet(facts), NEW w, Weights(w)
    PROVE  /\ AllJudged(HollowingFindings(facts, w))
           /\ AllJudged(ImageIntegrityFindings(facts, w))
<1>1. AllJudged(HollowingFindings(facts, w))
  <2>. DEFINE signs == {f.sign : f \in FactsOf(facts, "hollowing")}
              risk == HollowingRisk(signs, w)
              about == FactsOf(facts, "hollowing")
  <2>1. risk \in Int
    <3>. HIDE DEF signs
    <3>1. w.hollowing \in Int /\ Part(w.hollowing, 2) \in Int
      BY CodeWeights, PartIsInt
    <3>. QED
      BY <3>1 DEF HollowingRisk
  <2>2. Named("HOLLOWING", about)
    BY DEF Named, CriticalCategories
  <2>3. HollowingFindings(facts, w) \in {{}, {Finding("HOLLOWING", risk, about)}}
    BY DEF HollowingFindings
  <2>. HIDE DEF risk, about
  <2>. QED
    BY <2>1, <2>2, <2>3, SingleJudged, NoneJudged
<1>2. AllJudged(ImageIntegrityFindings(facts, w))
  <2>. DEFINE signs == {f.sign : f \in FactsOf(facts, "image")}
              patches == FactsOf(facts, "text_patch")
              sites == Cardinality(patches)
              risk == ImageRisk(signs, sites, w)
              about == FactsOf(facts, "image") \union patches
  <2>1. sites \in Nat
    <3>1. patches \in SUBSET facts
      BY DEF FactsOf
    <3>. HIDE DEF patches
    <3>2. IsFiniteSet(patches)
      BY <3>1, FS_Subset
    <3>. QED
      BY <3>2, FS_CardinalityType
  <2>2. risk \in Int
    <3>. HIDE DEF signs, sites
    <3>. QED
      BY <2>1, CodeWeights DEF ImageRisk
  <2>3. Named("IMAGE", about)
    BY DEF Named, CriticalCategories
  <2>4. ImageIntegrityFindings(facts, w) \in {{}, {Finding("IMAGE", risk, about)}}
    BY DEF ImageIntegrityFindings
  <2>. HIDE DEF risk, about
  <2>. QED
    BY <2>2, <2>3, <2>4, SingleJudged, NoneJudged
<1>. QED
  BY <1>1, <1>2

\* Those of HostScans.
LEMMA HostWeights ==
    ASSUME NEW w, Weights(w)
    PROVE  /\ w.unknown_process \in Int /\ w.debugger_attached \in Int
           /\ w.suspicious_token \in Int /\ w.mitigation \in Int /\ w.timing_anomaly \in Int
           /\ w.unexpected_overlay \in Int /\ w.risky_device \in Int /\ w.known_artifact \in Int
           /\ w.suspicious_service \in Int /\ w.dangerous_privilege \in Int
           /\ w.external_process_handle \in Int /\ w.suspicious_pipe \in Int
           /\ w.persistence \in Int /\ w.suspicious_port \in Int
           /\ w.suspicious_connection \in Int /\ w.hosts_tamper \in Int
<1>1. {"unknown_process", "debugger_attached", "suspicious_token", "mitigation",
       "timing_anomaly", "unexpected_overlay", "risky_device", "known_artifact",
       "suspicious_service", "dangerous_privilege", "external_process_handle",
       "suspicious_pipe", "persistence", "suspicious_port", "suspicious_connection",
       "hosts_tamper"} \subseteq DOMAIN RiskWeights
  BY DEF RiskWeights, FindingWeights, SessionWeights
<1>. QED
  BY <1>1 DEF Weights

\* Finitely many facts have finitely many signs, one for each.
LEMMA SignsAreFinite ==
    ASSUME NEW facts, IsFiniteSet(facts), NEW kind
    PROVE  IsFiniteSet(SignsOf(facts, kind))
<1>. DEFINE S == FactsOf(facts, kind)
            sign == [f \in S |-> f.sign]
<1>1. IsFiniteSet(S)
  <2>1. S \in SUBSET facts
    BY DEF FactsOf
  <2>. HIDE DEF S
  <2>. QED
    BY <2>1, FS_Subset
<1>2. SignsOf(facts, kind) = {sign[f] : f \in S}
  BY DEF SignsOf
<1>. HIDE DEF S, sign
<1>. QED
  BY <1>1, <1>2, FiniteImage

\* Sums over such signs, of the tables the scanners have.
LEMMA ProvenanceIsInt ==
    ASSUME NEW facts \in SUBSET Facts, IsFiniteSet(facts), NEW w, Weights(w),
           NEW roots, NEW whitelisted
    PROVE  ProvenanceRisk(ImageSigns(facts, roots), ParentSigns(facts, whitelisted), w) \in Int
<1>. DEFINE image == ImageSigns(facts, roots)
            places == [unresolved |-> 15, outside |-> 20]
            parent == ParentSigns(facts, whitelisted)
            starters == [none |-> 10, unopened |-> w.unknown_process + 5,
                         untrusted |-> w.unknown_process + 15]
<1>1. SumOf(places, image) \in Int
  <2>1. image \subseteq {"unresolved", "outside", "outside", "outside"}
    BY DEF ImageSigns
  <2>2. \A x \in image : places[x] \in Int
    BY <2>1
  <2>. HIDE DEF image, places
  <2>3. IsFiniteSet(image)
    BY <2>1, FewAreFinite, FS_Subset
  <2>. QED
    BY <2>2, <2>3, SumIsNumber
<1>2. SumOf(starters, parent) \in Int
  <2>1. /\ parent \subseteq SignsOf(facts, "parent")
        /\ parent \subseteq {"none", "unopened", "untrusted"}
    BY FactsAssumption DEF ParentSigns, SignsOf, FactsOf
  <2>2. \A x \in parent : starters[x] \in Int
    BY <2>1, HostWeights
  <2>. HIDE DEF parent, starters
  <2>3. IsFiniteSet(parent)
    BY <2>1, SignsAreFinite, FS_Subset
  <2>. QED
    BY <2>2, <2>3, SumIsNumber
<1>3. ProvenanceRisk(image, parent, w) = SumOf(places, image) + SumOf(starters, parent)
  BY DEF ProvenanceRisk
<1>. HIDE DEF image, parent, places, starters
<1>4. ProvenanceRisk(image, parent, w) \in Int
  BY <1>1, <1>2, <1>3
<1>. QED
  BY <1>4 DEF image, parent

\* The token has signs that are each worth a number.
LEMMA TokenIsInt ==
    ASSUME NEW facts \in SUBSET Facts, IsFiniteSet(facts), NEW w, Weights(w)
    PROVE  TokenRisk(SignsOf(facts, "token"), w) \in Int
<1>. DEFINE signs == SignsOf(facts, "token")
            table == [elevated |-> w.suspicious_token, system |-> w.suspicious_token + 15,
                      high |-> w.suspicious_token, low |-> Part(w.suspicious_token, 2),
                      impersonation |-> w.suspicious_token + 10]
<1>1. signs \subseteq {"elevated", "system", "high", "low", "impersonation"}
  BY FactsAssumption DEF SignsOf, FactsOf
<1>2. \A x \in signs : table[x] \in Int
  BY <1>1, HostWeights, PartIsInt
<1>3. IsFiniteSet(signs)
  BY SignsAreFinite
<1>4. TokenRisk(signs, w) = SumOf(table, signs)
  BY DEF TokenRisk
<1>. HIDE DEF signs, table
<1>. QED
  BY <1>2, <1>3, <1>4, SumIsNumber DEF signs

\* So has what the process is not protected against.
LEMMA MitigationIsInt ==
    ASSUME NEW facts \in SUBSET Facts, IsFiniteSet(facts), NEW w, Weights(w)
    PROVE  MitigationRisk(SignsOf(facts, "mitigation"), w) \in Int
<1>. DEFINE signs == SignsOf(facts, "mitigation")
            table == [no_dep |-> w.mitigation, dep_not_permanent |-> 10,
                      no_aslr |-> Part(w.mitigation, 2), no_cfg |-> Part(w.mitigation, 2),
                      remote_downgrade |-> w.mitigation]
<1>1. signs \subseteq {"no_dep", "dep_not_permanent", "no_aslr", "no_cfg", "remote_downgrade"}
  BY FactsAssumption DEF SignsOf, FactsOf
<1>2. \A x \in signs : table[x] \in Int
  BY <1>1, HostWeights, PartIsInt
<1>3. IsFiniteSet(signs)
  BY SignsAreFinite
<1>4. MitigationRisk(signs, w) = SumOf(table, signs)
  BY DEF MitigationRisk
<1>. HIDE DEF signs, table
<1>. QED
  BY <1>2, <1>3, <1>4, SumIsNumber DEF signs

\* Of some signs of a debugger one is the first to be looked for.
LEMMA DebuggerIsInt ==
    ASSUME NEW facts \in SUBSET Facts, IsFiniteSet(facts), NEW w, Weights(w),
           SignsOf(facts, "debugger") # {}
    PROVE  DebuggerRisk(SignsOf(facts, "debugger"), w) \in Int
<1>. DEFINE signs == SignsOf(facts, "debugger")
            kinds == {"remote", "port", "flags", "object", "breakpoints"}
            places == {i \in DOMAIN DebuggerSigns : DebuggerSigns[i] \in signs}
            first == DebuggerSigns[Min(places)]
<1>0. DOMAIN DebuggerSigns = 1..5 /\ \A i \in 1..5 : DebuggerSigns[i] \in kinds
  BY DEF DebuggerSigns
<1>1. signs \subseteq kinds /\ places # {}
  <2>1. \A x \in signs : \E i \in DOMAIN DebuggerSigns : x = DebuggerSigns[i]
    BY FactsAssumption DEF SignsOf, FactsOf, Range
  <2>. QED
    BY <1>0, <2>1
<1>2. first \in kinds
  <2>1. PICK m \in places : \A k \in places : m <= k
    <3>1. places \in SUBSET Nat
      BY <1>0
    <3>. HIDE DEF places
    <3>. QED
      BY <1>1, <3>1, LeastNumber
  <2>2. Min(places) \in places
    <3>. HIDE DEF places
    <3>. QED
      BY <2>1 DEF Min
  <2>. QED
    BY <1>0, <2>2
<1>. HIDE DEF first
<1>3. FirstSign(w)[first] \in Int
  BY <1>2, HostWeights, PartIsInt DEF FirstSign
<1>4. SumOf(LaterSign, signs \ {first}) \in Int
  <2>. DEFINE rest == signs \ {first}
  <2>1. \A x \in rest : LaterSign[x] \in Int
    BY <1>1 DEF LaterSign
  <2>2. IsFiniteSet(rest)
    BY SignsAreFinite, FS_RemoveElement
  <2>. HIDE DEF rest
  <2>. QED
    BY <2>1, <2>2, SumIsNumber DEF rest
<1>5. DebuggerRisk(signs, w) = FirstSign(w)[first] + SumOf(LaterSign, signs \ {first})
  BY DEF DebuggerRisk, first
<1>. HIDE DEF signs
<1>. QED
  BY <1>3, <1>4, <1>5 DEF signs

\* A window over the game scores a sum over its styles, and more.
LEMMA OverlayIsInt ==
    ASSUME NEW o \in Facts, o.fact = "overlay", NEW allowed
    PROVE  OverlayRisk(o, allowed) \in Int
<1>. DEFINE styles == o.styles
            base == SumOf(OverlayStyles, styles)
            sum == base
                 + (IF {"layered", "transparent", "topmost"} \subseteq styles THEN 20 ELSE 0)
                 + OverlayCoverage[o.coverage]
                 + (IF o.suspicious_path THEN 30 ELSE 0)
<1>1. styles \subseteq DOMAIN OverlayStyles /\ o.coverage \in DOMAIN OverlayCoverage
  BY FactsAssumption
<1>2. base \in Int
  <2>1. \A x \in styles : OverlayStyles[x] \in Int
    BY <1>1 DEF OverlayStyles
  <2>2. IsFiniteSet(DOMAIN OverlayStyles)
    <3>1. DOMAIN OverlayStyles = {"layered", "transparent", "topmost", "tool"} \union
                                 {"no_activate", "no_title", "no_title", "no_title"}
      BY DEF OverlayStyles
    <3>2. IsFiniteSet({"layered", "transparent", "topmost", "tool"})
      BY FewAreFinite
    <3>3. IsFiniteSet({"no_activate", "no_title", "no_title", "no_title"})
      BY FewAreFinite
    <3>. QED
      BY <3>1, <3>2, <3>3, FS_Union
  <2>3. IsFiniteSet(styles)
    BY <1>1, <2>2, FS_Subset
  <2>. HIDE DEF styles
  <2>. QED
    BY <2>1, <2>3, SumIsNumber
<1>3. OverlayCoverage[o.coverage] \in Int
  BY <1>1 DEF OverlayCoverage
<1>. HIDE DEF base
<1>4. sum \in Int
  BY <1>2, <1>3
<1>5. OverlayRisk(o, allowed) = IF o.process \in allowed THEN Larger(0, sum - 30) ELSE sum + 10
  BY DEF OverlayRisk, base
<1>. HIDE DEF sum
<1>. QED
  BY <1>4, <1>5 DEF Larger

\* A process with rights scores a sum over them.
LEMMA PrivilegeIsInt ==
    ASSUME NEW p \in Facts, p.fact = "process", NEW w, Weights(w)
    PROVE  PrivilegeRisk(p.rights, w) \in Int
<1>. DEFINE rights == p.rights
            table == [debug |-> w.dangerous_privilege, load_driver |-> w.dangerous_privilege + 10,
                      tcb |-> w.dangerous_privilege + 15]
<1>1. rights \subseteq {"debug", "load_driver", "tcb", "tcb"}
  BY FactsAssumption
<1>2. \A x \in rights : table[x] \in Int
  BY <1>1, HostWeights
<1>3. IsFiniteSet(rights)
  BY <1>1, FewAreFinite, FS_Subset
<1>4. PrivilegeRisk(rights, w) = SumOf(table, rights)
  BY DEF PrivilegeRisk
<1>. HIDE DEF rights, table
<1>. QED
  BY <1>2, <1>3, <1>4, SumIsNumber DEF rights

\* A handle scores by what it allows and who holds it.
LEMMA HandleIsInt ==
    ASSUME NEW h, NEW whitelisted, NEW w, Weights(w)
    PROVE  HandleRisk(h, whitelisted, w) \in Int
BY HostWeights, PartIsInt DEF HandleRisk, Larger

\* The scanners that look at the game's process report once.
LEMMA ProcessScans ==
    ASSUME NEW facts \in SUBSET Facts, IsFiniteSet(facts), NEW w, Weights(w),
           NEW roots, NEW whitelisted
    PROVE  /\ AllJudged(ProcessFindings(facts, roots, whitelisted, w))
           /\ AllJudged(TokenFindings(facts, w))
           /\ AllJudged(MitigationFindings(facts, w))
           /\ AllJudged(TimingFindings(facts, w))
<1>1. AllJudged(ProcessFindings(facts, roots, whitelisted, w))
  <2>. DEFINE about == FactsOf(facts, "image_path") \union FactsOf(facts, "parent")
              risk == ProvenanceRisk(ImageSigns(facts, roots), ParentSigns(facts, whitelisted), w)
  <2>1. risk \in Int
    BY ProvenanceIsInt
  <2>2. Named("TARGET", about)
    BY DEF Named, CodeChanges, FactsOf
  <2>3. ProcessFindings(facts, roots, whitelisted, w) \in {{}, {Finding("TARGET", risk, about)}}
    BY DEF ProcessFindings
  <2>. HIDE DEF risk, about
  <2>. QED
    BY <2>1, <2>2, <2>3, SingleJudged, NoneJudged
<1>2. AllJudged(TokenFindings(facts, w))
  <2>. DEFINE about == FactsOf(facts, "token")
              risk == Larger(TokenRisk(SignsOf(facts, "token"), w), Part(w.suspicious_token, 2))
  <2>1. risk \in Int
    BY TokenIsInt, HostWeights, PartIsInt DEF Larger
  <2>2. Named("TOKEN", about)
    BY DEF Named, CriticalCategories
  <2>3. TokenFindings(facts, w) \in {{}, {Finding("TOKEN", risk, about)}}
    BY DEF TokenFindings
  <2>. HIDE DEF risk, about
  <2>. QED
    BY <2>1, <2>2, <2>3, SingleJudged, NoneJudged
<1>3. AllJudged(MitigationFindings(facts, w))
  <2>. DEFINE about == FactsOf(facts, "mitigation")
              risk == MitigationRisk(SignsOf(facts, "mitigation"), w)
  <2>1. risk \in Int
    BY MitigationIsInt
  <2>2. Named("MITIGATION", about)
    BY DEF Named, CodeChanges, FactsOf
  <2>3. MitigationFindings(facts, w) \in {{}, {Finding("MITIGATION", risk, about)}}
    BY DEF MitigationFindings
  <2>. HIDE DEF risk, about
  <2>. QED
    BY <2>1, <2>2, <2>3, SingleJudged, NoneJudged
<1>4. AllJudged(TimingFindings(facts, w))
  <2>. DEFINE about == FactsOf(facts, "timing")
              signs == SignsOf(facts, "timing")
              risk == TimingRisk(signs, w)
  <2>1. risk \in Int
    <3>. HIDE DEF signs
    <3>. QED
      BY HostWeights, PartIsInt DEF TimingRisk
  <2>2. Named("TIMING", about)
    BY DEF Named, CodeChanges, FactsOf
  <2>3. TimingFindings(facts, w) \in {{}, {Finding("TIMING", risk, about)}}
    BY DEF TimingFindings
  <2>. HIDE DEF risk, about
  <2>. QED
    BY <2>1, <2>2, <2>3, SingleJudged, NoneJudged
<1>. QED
  BY <1>1, <1>2, <1>3, <1>4

\* The signs of a debugger are one finding, with a limit.
LEMMA DebuggerScan ==
    ASSUME NEW facts \in SUBSET Facts, IsFiniteSet(facts), NEW w, Weights(w)
    PROVE  AllJudged(DebuggerFindings(facts, w))
<1>. DEFINE signs == SignsOf(facts, "debugger")
            about == FactsOf(facts, "debugger")
            limit == w.debugger_attached + 30
            risk == Min({DebuggerRisk(signs, w), limit})
<1>1. CASE signs = {}
  BY <1>1, NoneJudged DEF DebuggerFindings
<1>2. CASE signs # {}
  <2>1. DebuggerRisk(signs, w) \in Int /\ limit \in Int
    BY <1>2, DebuggerIsInt, HostWeights
  <2>2. risk \in Int
    <3>. DEFINE sum == DebuggerRisk(signs, w)
    <3>1. sum \in Int /\ limit \in Int
      BY <2>1
    <3>. HIDE DEF sum, limit
    <3>2. \E x \in {sum, limit} : \A y \in {sum, limit} : x <= y
      BY <3>1
    <3>3. Min({sum, limit}) \in {sum, limit}
      BY <3>2 DEF Min
    <3>. QED
      BY <3>1, <3>3 DEF sum
  <2>3. Named("DEBUGGER", about)
    BY DEF Named, CodeChanges, FactsOf
  <2>4. DebuggerFindings(facts, w) = {Finding("DEBUGGER", risk, about)}
    BY <1>2 DEF DebuggerFindings
  <2>. HIDE DEF risk, about
  <2>. QED
    BY <2>2, <2>3, <2>4, SingleJudged
<1>. QED
  BY <1>1, <1>2

\* Windows over the game, and who holds handles and rights.
LEMMA OutsideScans ==
    ASSUME NEW facts \in SUBSET Facts, IsFiniteSet(facts), NEW w, Weights(w),
           NEW allowed, NEW whitelisted
    PROVE  /\ AllJudged(OverlayFindings(facts, allowed, w))
           /\ AllJudged(PrivilegeFindings(facts, whitelisted, w))
           /\ AllJudged(HandleFindings(facts, whitelisted, w))
<1>1. AllJudged(OverlayFindings(facts, allowed, w))
  <2>. DEFINE S == {p \in FactsOf(facts, "overlay") : OverlayRisk(p, allowed) >= OverlayThreshold}
              risk == [x \in S |-> OverlayRisk(x, allowed) + w.unexpected_overlay]
  <2>1. S \in SUBSET facts
    BY DEF FactsOf
  <2>2. OverlayFindings(facts, allowed, w) = OneFor("OVERLAY", risk, S)
    BY DEF OverlayFindings, OneFor
  <2>3. \A x \in S : risk[x] \in Int
    BY OverlayIsInt, HostWeights DEF FactsOf
  <2>4. Named("OVERLAY", S)
    BY DEF Named, CodeChanges, FactsOf
  <2>. HIDE DEF S, risk
  <2>. QED
    BY <2>1, <2>2, <2>3, <2>4, FactsJudged
<1>2. AllJudged(PrivilegeFindings(facts, whitelisted, w))
  <2>. DEFINE S == {q \in FactsOf(facts, "process") :
                      q.rights # {} /\ q.name \notin whitelisted \union SystemProcesses}
              risk == [x \in S |-> PrivilegeRisk(x.rights, w)]
  <2>1. S \in SUBSET facts
    BY DEF FactsOf
  <2>2. PrivilegeFindings(facts, whitelisted, w) = OneFor("PRIVILEGE", risk, S)
    BY DEF PrivilegeFindings, OneFor
  <2>3. \A x \in S : risk[x] \in Int
    BY PrivilegeIsInt DEF FactsOf
  <2>4. Named("PRIVILEGE", S)
    BY DEF Named, CriticalCategories
  <2>. HIDE DEF S, risk
  <2>. QED
    BY <2>1, <2>2, <2>3, <2>4, FactsJudged
<1>3. AllJudged(HandleFindings(facts, whitelisted, w))
  <2>. DEFINE handles == FactsOf(facts, "handle")
              S == {g \in handles :
                      /\ HandleRisk(g, whitelisted, w) >= 20
                      /\ g = Riskiest({o \in handles : o.owner = g.owner}, whitelisted, w)}
              risk == [x \in S |-> HandleRisk(x, whitelisted, w)]
  <2>1. S \in SUBSET facts
    BY DEF FactsOf
  <2>2. HandleFindings(facts, whitelisted, w) = OneFor("HANDLE", risk, S)
    BY DEF HandleFindings, OneFor
  <2>3. \A x \in S : risk[x] \in Int
    BY HandleIsInt
  <2>4. Named("HANDLE", S)
    BY DEF Named, CodeChanges, FactsOf
  <2>. HIDE DEF S, risk
  <2>. QED
    BY <2>1, <2>2, <2>3, <2>4, FactsJudged
<1>. QED
  BY <1>1, <1>2, <1>3

\* The scanners that look at the machine, one finding for each fact.
LEMMA MachineScans ==
    ASSUME NEW facts \in SUBSET Facts, IsFiniteSet(facts), NEW w, Weights(w)
    PROVE  /\ AllJudged(ServiceFindings(facts, w))
           /\ AllJudged(PipeFindings(facts, w))
           /\ AllJudged(PersistenceFindings(facts, w))
           /\ AllJudged(PortFindings(facts, w))
           /\ AllJudged(ConnectionFindings(facts, w))
           /\ AllJudged(HostsFindings(facts, w))
<1>1. AllJudged(ServiceFindings(facts, w))
  <2>. DEFINE S == FactsOf(facts, "service")
              risk == [x \in S |-> w.suspicious_service + IF x.running THEN 15 ELSE 0]
  <2>1. S \in SUBSET facts
    BY DEF FactsOf
  <2>2. ServiceFindings(facts, w) = OneFor("SERVICE", risk, S)
    BY DEF ServiceFindings, OneFor
  <2>3. \A x \in S : risk[x] \in Int
    BY HostWeights
  <2>4. Named("SERVICE", S)
    BY DEF Named, CodeChanges, FactsOf
  <2>. HIDE DEF S, risk
  <2>. QED
    BY <2>1, <2>2, <2>3, <2>4, FactsJudged
<1>2. AllJudged(PipeFindings(facts, w))
  <2>. DEFINE S == FactsOf(facts, "pipe")
              risk == [x \in S |-> w.suspicious_pipe]
  <2>1. S \in SUBSET facts
    BY DEF FactsOf
  <2>2. PipeFindings(facts, w) = OneFor("PIPE", risk, S)
    BY DEF PipeFindings, OneFor
  <2>3. \A x \in S : risk[x] \in Int
    BY HostWeights
  <2>4. Named("PIPE", S)
    BY DEF Named, CriticalCategories
  <2>. HIDE DEF S, risk
  <2>. QED
    BY <2>1, <2>2, <2>3, <2>4, FactsJudged
<1>3. AllJudged(PersistenceFindings(facts, w))
  <2>. DEFINE S == FactsOf(facts, "autorun")
              risk == [x \in S |-> w.persistence + AutorunPlaces[x.place]]
  <2>1. S \in SUBSET facts
    BY DEF FactsOf
  <2>2. PersistenceFindings(facts, w) = OneFor("PERSISTENCE", risk, S)
    BY DEF PersistenceFindings, OneFor
  <2>3. \A x \in S : risk[x] \in Int
    BY FactsAssumption, HostWeights DEF FactsOf, AutorunPlaces
  <2>4. Named("PERSISTENCE", S)
    BY DEF Named, CriticalCategories
  <2>. HIDE DEF S, risk
  <2>. QED
    BY <2>1, <2>2, <2>3, <2>4, FactsJudged
<1>4. AllJudged(PortFindings(facts, w))
  <2>. DEFINE S == FactsOf(facts, "port")
              risk == [x \in S |-> w.suspicious_port]
  <2>1. S \in SUBSET facts
    BY DEF FactsOf
  <2>2. PortFindings(facts, w) = OneFor("PORT", risk, S)
    BY DEF PortFindings, OneFor
  <2>3. \A x \in S : risk[x] \in Int
    BY HostWeights
  <2>4. Named("PORT", S)
    BY DEF Named, CodeChanges, FactsOf
  <2>. HIDE DEF S, risk
  <2>. QED
    BY <2>1, <2>2, <2>3, <2>4, FactsJudged
<1>5. AllJudged(ConnectionFindings(facts, w))
  <2>. DEFINE S == FactsOf(facts, "connection")
              risk == [x \in S |-> w.suspicious_connection + IF x.loopback THEN 0 ELSE 10]
  <2>1. S \in SUBSET facts
    BY DEF FactsOf
  <2>2. ConnectionFindings(facts, w) = OneFor("CONNECTION", risk, S)
    BY DEF ConnectionFindings, OneFor
  <2>3. \A x \in S : risk[x] \in Int
    BY HostWeights
  <2>4. Named("CONNECTION", S)
    BY DEF Named, CodeChanges, FactsOf
  <2>. HIDE DEF S, risk
  <2>. QED
    BY <2>1, <2>2, <2>3, <2>4, FactsJudged
<1>6. AllJudged(HostsFindings(facts, w))
  <2>. DEFINE S == FactsOf(facts, "host")
              risk == [x \in S |-> w.hosts_tamper + IF x.private THEN 15 ELSE 0]
  <2>1. S \in SUBSET facts
    BY DEF FactsOf
  <2>2. HostsFindings(facts, w) = OneFor("HOSTS", risk, S)
    BY DEF HostsFindings, OneFor
  <2>3. \A x \in S : risk[x] \in Int
    BY HostWeights
  <2>4. Named("HOSTS", S)
    BY DEF Named, CriticalCategories
  <2>. HIDE DEF S, risk
  <2>. QED
    BY <2>1, <2>2, <2>3, <2>4, FactsJudged
<1>. QED
  BY <1>1, <1>2, <1>3, <1>4, <1>5, <1>6

\* Devices and drivers.
LEMMA DeviceScan ==
    ASSUME NEW facts \in SUBSET Facts, IsFiniteSet(facts), NEW w, Weights(w)
    PROVE  AllJudged(DeviceFindings(facts, w))
<1>. DEFINE S == FactsOf(facts, "device")
            own == [x \in S |-> Larger(w.risky_device, x.own)]
            T == FactsOf(facts, "driver")
            weight == [x \in T |-> w.risky_device]
<1>1. S \in SUBSET facts /\ T \in SUBSET facts
  BY DEF FactsOf
<1>2. DeviceFindings(facts, w) = OneFor("DEVICE", own, S) \union OneFor("DEVICE", weight, T)
  BY DEF DeviceFindings, OneFor
<1>3. \A x \in S : own[x] \in Int
  BY FactsAssumption, HostWeights DEF FactsOf, Larger
<1>4. \A x \in T : weight[x] \in Int
  BY HostWeights
<1>5. Named("DEVICE", S) /\ Named("DEVICE", T)
  BY DEF Named, CodeChanges, FactsOf
<1>. HIDE DEF S, T, own, weight
<1>6. AllJudged(OneFor("DEVICE", own, S)) /\ AllJudged(OneFor("DEVICE", weight, T))
  BY <1>1, <1>3, <1>4, <1>5, FactsJudged
<1>. QED
  BY <1>2, <1>6, BothJudged

\* Artifacts and titles of windows.
LEMMA ArtifactScan ==
    ASSUME NEW facts \in SUBSET Facts, IsFiniteSet(facts), NEW w, Weights(w)
    PROVE  AllJudged(ArtifactFindings(facts, w))
<1>. DEFINE S == FactsOf(facts, "artifact")
            own == [x \in S |-> Larger(w.known_artifact, x.own)]
            T == FactsOf(facts, "title")
            most == Larger(w.known_artifact, 65)
            titles == IF T = {} THEN {} ELSE {Finding("ARTIFACT", most, T)}
<1>1. S \in SUBSET facts
  BY DEF FactsOf
<1>2. ArtifactFindings(facts, w) = OneFor("ARTIFACT", own, S) \union titles
  BY DEF ArtifactFindings, OneFor
<1>3. \A x \in S : own[x] \in Int
  BY FactsAssumption, HostWeights DEF FactsOf, Larger
<1>4. most \in Int
  BY HostWeights DEF Larger
<1>5. Named("ARTIFACT", S) /\ Named("ARTIFACT", T)
  BY DEF Named, CodeChanges, FactsOf
<1>. HIDE DEF S, T, own, most
<1>6. AllJudged(OneFor("ARTIFACT", own, S))
  BY <1>1, <1>3, <1>5, FactsJudged
<1>7. AllJudged(titles)
  BY <1>4, <1>5, SingleJudged, NoneJudged
<1>. HIDE DEF titles
<1>. QED
  BY <1>2, <1>6, <1>7, BothJudged

\* Watched processes, one finding for each name.
LEMMA WatchedScan ==
    ASSUME NEW facts \in SUBSET Facts, IsFiniteSet(facts), NEW w, Weights(w), NEW monitored
    PROVE  AllJudged(WatchedFindings(facts, monitored, w))
<1>. DEFINE P == FactsOf(facts, "process")
            names == {p.name : p \in P} \intersect monitored
            found == [name \in names |->
                Finding("PROCESS",
                        w.unknown_process + 25 + IF name \in ElevatedTools THEN 25 ELSE 0,
                        {p \in P : p.name = name})]
<1>1. IsFiniteSet(names)
  <2>. DEFINE nameOf == [p \in P |-> p.name]
              all == {nameOf[p] : p \in P}
  <2>1. P \in SUBSET facts
    BY DEF FactsOf
  <2>2. names \in SUBSET all
    OBVIOUS
  <2>. HIDE DEF P, nameOf, names
  <2>3. IsFiniteSet(all)
    BY <2>1, FS_Subset, FiniteImage
  <2>. HIDE DEF all
  <2>. QED
    BY <2>2, <2>3, FS_Subset
<1>2. \A name \in names : Judged(found[name])
  <2>1. \A p \in P : p.fact \notin CodeChanges
    BY DEF FactsOf, CodeChanges
  <2>. HIDE DEF P
  <2>. QED
    BY <2>1, HostWeights DEF Judged, Finding
<1>3. WatchedFindings(facts, monitored, w) = {found[name] : name \in names}
  BY DEF WatchedFindings
<1>. HIDE DEF names, found
<1>. QED
  BY <1>1, <1>2, <1>3, EachJudged

\* The configuration in force has numbers for all weights.
LEMMA ModuleWeights ==
    ASSUME NEW c, WeighedInv(c)
    PROVE  /\ Weights(c.weights)
           /\ c.weights["unknown_module"] \in Int
           /\ c.weights["module_from_suspicious_directory"] \in Int
           /\ c.weights["trusted_hash"] \in Int
           /\ c.weights["known_bad_hash"] \in Int
           /\ c.weights["trusted_publisher"] \in Int
           /\ c.weights["unsigned_module"] \in Int
           /\ c.weights["injection"] \in Int
           /\ c.weights["module_birth"] \in Int
<1>1. {"unknown_module", "module_from_suspicious_directory", "trusted_hash", "known_bad_hash",
       "trusted_publisher", "unsigned_module", "injection", "module_birth"} \subseteq
          DOMAIN RiskWeights
  BY DEF RiskWeights, FindingWeights, SessionWeights
<1>. QED
  BY <1>1 DEF Weights, WeighedInv

\* A module scores a number, with or without its file.
LEMMA ScoreIsInt ==
    ASSUME NEW m, m.signs \subseteq ModuleSigns, NEW c, WeighedInv(c), NEW inspected
    PROVE  Score(m, inspected, c) \in Int
<1>1. ScoreBefore(m, c) \in Int
  <2>1. BaseRisk(m, c) \in Nat
    BY BaseRiskIsNat
  <2>. QED
    BY <2>1, ModuleWeights DEF ScoreBefore, Larger
<1>2. FileScore(m, c) \in Int
  <2>. DEFINE listed == m.publisher \in {<<p>> : p \in c.names["trusted_publishers"]}
              bare == c.switches["require_valid_signature"] /\ ~m.signed /\ ~Whitelisted(m, c)
  <2>1. FileScore(m, c) =
            (IF m.file \in c.hashes["trusted_hashes"] THEN c.weights["trusted_hash"] ELSE 0)
          + (IF m.file \in c.hashes["known_bad_hashes"] THEN c.weights["known_bad_hash"] ELSE 0)
          + (IF m.signed /\ listed THEN c.weights["trusted_publisher"] ELSE 0)
          + (IF bare THEN c.weights["unsigned_module"] ELSE 0)
    BY DEF FileScore
  <2>. HIDE DEF listed, bare
  <2>. QED
    BY <2>1, ModuleWeights
<1>. DEFINE lenient == /\ m \in inspected
                       /\ c.switches["allow_unknown_microsoft_modules"]
                       /\ m.microsoft /\ m.signed
            sum == ScoreBefore(m, c) + (IF m \in inspected THEN FileScore(m, c) ELSE 0)
<1>3. Score(m, inspected, c) = IF lenient THEN Larger(0, sum - 20) ELSE Larger(0, sum)
  BY DEF Score
<1>4. sum \in Int
  BY <1>1, <1>2
<1>. HIDE DEF lenient, sum
<1>. QED
  BY <1>3, <1>4 DEF Larger

\* So does a module that is new.
LEMMA InjectionIsInt ==
    ASSUME NEW m, m.signs \subseteq ModuleSigns, NEW c, WeighedInv(c), NEW stray
    PROVE  InjectionRisk(m, stray, c) \in Int
<1>. DEFINE signs == m.signs
            table == [no_path |-> 20, system |-> 0, suspicious |-> 25, odd_extension |-> 0,
                      no_size |-> 0, random |-> 15]
            sum == SumOf(table, signs)
            drop == stray /\ signs \intersect {"no_path", "suspicious", "random"} # {}
            folder == stray /\ "suspicious" \in signs
<1>1. \A x \in signs : table[x] \in Int
  BY DEF ModuleSigns
<1>2. sum \in Int
  <2>1. IsFiniteSet(signs)
    BY SignsOfModule
  <2>. HIDE DEF signs, table
  <2>. QED
    BY <1>1, <2>1, SumIsNumber
<1>3. InjectionRisk(m, stray, c) =
          c.weights["injection"] + sum + (IF drop THEN 20 ELSE 0) + (IF folder THEN 15 ELSE 0)
  BY DEF InjectionRisk
<1>. HIDE DEF sum, drop, folder
<1>. QED
  BY <1>2, <1>3, ModuleWeights

\* Modules are no changed code, and have numbers.
LEMMA ModuleScan ==
    ASSUME NEW facts \in SUBSET Facts, IsFiniteSet(facts), NEW c, WeighedInv(c), NEW inspected
    PROVE  AllJudged(ModuleFindings(facts, inspected, c))
<1>. DEFINE S == {n \in FactsOf(facts, "module") : Score(n, inspected, c) >= 20}
            found == [m \in S |-> [Finding("MODULE", Score(m, inspected, c), {m}) EXCEPT
                         !.details = IF m \in inspected THEN {m.file} \ {<< >>} ELSE {}]]
<1>1. IsFiniteSet(S)
  <2>1. S \in SUBSET facts
    BY DEF FactsOf
  <2>. HIDE DEF S
  <2>. QED
    BY <2>1, FS_Subset
<1>2. ASSUME NEW m \in S PROVE Judged(found[m])
  <2>. DEFINE f == found[m]
  <2>1. m.fact = "module" /\ m.signs \subseteq ModuleSigns
    BY FactsAssumption DEF FactsOf
  <2>2. f.risk_score = Score(m, inspected, c) /\ f.about = {m}
    BY DEF Finding
  <2>. HIDE DEF f
  <2>3. f.risk_score \in Int
    BY <2>1, <2>2, ScoreIsInt
  <2>4. ~\E a \in f.about : a.fact \in CodeChanges
    BY <2>1, <2>2 DEF CodeChanges
  <2>5. Judged(f)
    BY <2>3, <2>4 DEF Judged
  <2>. QED
    BY <2>5 DEF f
<1>3. ModuleFindings(facts, inspected, c) = {found[m] : m \in S}
  BY DEF ModuleFindings
<1>. HIDE DEF S, found
<1>. QED
  BY <1>1, <1>2, <1>3, EachJudged

\* Nor is what the baseline does not know.
LEMMA BirthScans ==
    ASSUME NEW facts \in SUBSET Facts, IsFiniteSet(facts), NEW c, WeighedInv(c), NEW base
    PROVE  /\ AllJudged(BaselineFindings(facts, base, c))
           /\ AllJudged(InjectionFindings(facts, base, c))
<1>. DEFINE S == Births(facts, base, c)
            birth == [m \in S |-> c.weights["module_birth"]]
            stray == FactsOf(facts, "thread") # {}
            injection == [m \in S |-> InjectionRisk(m, stray, c)]
<1>1. S \in SUBSET facts /\ \A m \in S : m.fact = "module" /\ m.signs \subseteq ModuleSigns
  BY FactsAssumption DEF Births, FactsOf
<1>2. BaselineFindings(facts, base, c) = OneFor("BASELINE", birth, S)
  BY DEF BaselineFindings, OneFor
<1>3. InjectionFindings(facts, base, c) \in {{}, OneFor("INJECTION", injection, S)}
  BY DEF InjectionFindings, OneFor
<1>. HIDE DEF S, stray
<1>4. \A m \in S : birth[m] \in Int
  BY ModuleWeights
<1>5. \A m \in S : injection[m] \in Int
  BY <1>1, InjectionIsInt
<1>6. Named("BASELINE", S) /\ Named("INJECTION", S)
  BY <1>1 DEF Named, CodeChanges
<1>. HIDE DEF birth, injection
<1>7. AllJudged(OneFor("BASELINE", birth, S)) /\ AllJudged(OneFor("INJECTION", injection, S))
  BY <1>1, <1>4, <1>5, <1>6, FactsJudged
<1>. QED
  BY <1>2, <1>3, <1>7, NoneJudged

-----------------------------------------------------------------------------
\* All that a scan finds.
LEMMA ScanJudged ==
    ASSUME NEW facts \in SUBSET Facts, IsFiniteSet(facts), NEW c, WeighedInv(c), NEW base,
           NEW pick \in Picks(facts, c), NEW s
    PROVE  AllJudged(FindingsOf(s, facts, c, base, pick))
<1>. DEFINE w == c.weights
            trusted == c.names["whitelisted_processes"]
            allowed == c.names["allowed_overlay_processes"]
            monitored == c.names["monitor_only_processes"]
<1>1. Weights(w)
  BY ModuleWeights
<1>2. /\ pick.maps \in SUBSET facts
      /\ pick.regions \in SUBSET FactsOf(facts, "region")
      /\ pick.threads \in SUBSET FactsOf(facts, "thread")
  BY DEF Picks, Firsts, SuspiciousRegions, FactsOf
<1>. HIDE DEF w, trusted, allowed, monitored
<1>3. /\ AllJudged(InlineHookFindings(facts, w)) /\ AllJudged(SyscallStubFindings(facts, w))
      /\ AllJudged(EtwFindings(facts, w)) /\ AllJudged(ExceptionDispatchFindings(facts, w))
      /\ AllJudged(HookFindings(facts, w)) /\ AllJudged(EatHookFindings(facts, w))
      /\ AllJudged(WritableImageFindings(facts, w)) /\ AllJudged(StealthFindings(facts, w))
      /\ AllJudged(HollowingFindings(facts, w)) /\ AllJudged(ImageIntegrityFindings(facts, w))
  BY <1>1, PrologueScans, TableScans, SingleScans
<1>4. /\ AllJudged(ManualMapFindings(pick.maps, w))
      /\ AllJudged(RegionFindings(pick.regions, w))
      /\ AllJudged(ThreadFindings(pick.threads, w))
  BY <1>1, <1>2, ListedScans
<1>5. /\ AllJudged(ProcessFindings(facts, c.roots, trusted, w))
      /\ AllJudged(TokenFindings(facts, w)) /\ AllJudged(MitigationFindings(facts, w))
      /\ AllJudged(TimingFindings(facts, w)) /\ AllJudged(DebuggerFindings(facts, w))
  BY <1>1, ProcessScans, DebuggerScan
<1>6. /\ AllJudged(OverlayFindings(facts, allowed, w))
      /\ AllJudged(PrivilegeFindings(facts, trusted, w))
      /\ AllJudged(HandleFindings(facts, trusted, w))
  BY <1>1, OutsideScans
<1>7. /\ AllJudged(ServiceFindings(facts, w)) /\ AllJudged(PipeFindings(facts, w))
      /\ AllJudged(PersistenceFindings(facts, w)) /\ AllJudged(PortFindings(facts, w))
      /\ AllJudged(ConnectionFindings(facts, w)) /\ AllJudged(HostsFindings(facts, w))
      /\ AllJudged(DeviceFindings(facts, w)) /\ AllJudged(ArtifactFindings(facts, w))
      /\ AllJudged(WatchedFindings(facts, monitored, w))
  BY <1>1, MachineScans, DeviceScan, ArtifactScan, WatchedScan
<1>8. /\ AllJudged(ModuleFindings(facts, pick.inspected, c))
      /\ AllJudged(IF base = None THEN {} ELSE BaselineFindings(facts, base, c) \union
                                               InjectionFindings(facts, base, c))
  BY ModuleScan, BirthScans, BothJudged, NoneJudged
<1>9. AllJudged({})
  BY NoneJudged
<1>. QED
  BY <1>3, <1>4, <1>5, <1>6, <1>7, <1>8, <1>9 DEF FindingsOf, w, trusted, allowed, monitored

\* The scanners are a finite set.
LEMMA ScannersAreFinite == IsFiniteSet(DOMAIN Schedule)
<1>. DEFINE A == {"target", "baseline", "lifetime", "modules"}
            B == {"overlays", "debugger", "threads", "hooks"}
            C == {"inline_hooks", "manual_maps", "handles", "regions"}
            D == {"watched", "devices", "image", "artifacts"}
            E == {"services", "timing", "privileges", "eat_hooks"}
            F == {"pipes", "syscall_stubs", "hollowing", "mitigations"}
            G == {"stealth", "writable_image", "persistence", "ports"}
            H == {"etw", "exception", "hosts", "token"}
            I == {"connections", "connections", "connections", "connections"}
<1>1. /\ IsFiniteSet(A) /\ IsFiniteSet(B) /\ IsFiniteSet(C) /\ IsFiniteSet(D) /\ IsFiniteSet(E)
      /\ IsFiniteSet(F) /\ IsFiniteSet(G) /\ IsFiniteSet(H) /\ IsFiniteSet(I)
  BY FewAreFinite
<1>2. DOMAIN Schedule =
        (((((((A \union B) \union C) \union D) \union E) \union F) \union G) \union H) \union I
  BY DEF Schedule
<1>. HIDE DEF A, B, C, D, E, F, G, H, I
<1>3. \A S, T : IsFiniteSet(S) /\ IsFiniteSet(T) => IsFiniteSet(S \union T)
  BY FS_Union
<1>. QED
  BY <1>1, <1>2, <1>3

\* A report is what finitely many scanners found.
LEMMA ReportJudged ==
    ASSUME NEW facts \in SUBSET Facts, IsFiniteSet(facts), NEW c, WeighedInv(c), NEW base,
           NEW pick \in Picks(facts, c), NEW scanners \in SUBSET DOMAIN Schedule
    PROVE  AllJudged(Report(facts, c, base, pick, scanners))
<1>. DEFINE S == {t \in scanners : Enabled(t, c)}
            found == [s \in S |-> FindingsOf(s, facts, c, base, pick)]
            all == {found[s] : s \in S}
<1>1. \A s \in S : AllJudged(found[s])
  BY ScanJudged
<1>2. Report(facts, c, base, pick, scanners) = UNION all
  BY DEF Report
<1>3. S \in SUBSET DOMAIN Schedule
  OBVIOUS
<1>. HIDE DEF S, found
<1>4. IsFiniteSet(all)
  <2>1. IsFiniteSet(S)
    BY <1>3, ScannersAreFinite, FS_Subset
  <2>. QED
    BY <2>1, FiniteImage
<1>5. \A findings \in all : AllJudged(findings)
  BY <1>1
<1>. HIDE DEF all
<1>6. IsFiniteSet(UNION all)
  BY <1>4, <1>5, FS_UNION DEF AllJudged
<1>7. \A f \in UNION all : Judged(f)
  BY <1>5 DEF AllJudged
<1>. QED
  BY <1>2, <1>6, <1>7 DEF AllJudged

\* SetToSeq lists a finite set as a whole.
LEMMA ListedAll ==
    ASSUME NEW R, IsFiniteSet(R)
    PROVE  /\ Cardinality(R) \in Nat
           /\ SetToSeq(R) \in [1..Cardinality(R) -> R]
           /\ \A f \in R : \E i \in 1..Cardinality(R) : SetToSeq(R)[i] = f
<1>. DEFINE n == Cardinality(R)
            list == SetToSeq(R)
<1>1. n \in Nat /\ \E g \in [1..n -> R] : IsInjective(g)
  BY FS_CardinalityType DEF ExistsBijection, Bijection, Injection
<1>2. list \in [1..n -> R] /\ IsInjective(list)
  BY <1>1 DEF SetToSeq
<1>. HIDE DEF list
<1>3. list \in Surjection(1..n, R)
  <2>1. list \in Injection(1..n, R)
    BY <1>2 DEF Injection
  <2>2. Cardinality(1..n) = n
    BY <1>1, FS_Interval
  <2>. QED
    BY <2>1, <2>2, FS_Injection
<1>4. \A f \in R : \E i \in 1..n : list[i] = f
  BY <1>3 DEF Surjection
<1>. QED
  BY <1>1, <1>2, <1>4 DEF list

\* Who kicks at this risk kicks or bans for it, whatever else is in the report.
LEMMA KickedAtOnce ==
    ASSUME NEW R, AllJudged(R), NEW policy \in Enforcing,
           NEW f \in R, f.category \in CriticalCategories, f.risk_score >= policy.kick_threshold
    PROVE  BuildDecision(NewSession, SetToSeq(R), policy, NoDecision).action \in {"kick", "ban"}
<1>. DEFINE list == SetToSeq(R)
            n == Cardinality(R)
            scored == ScoreEvents(list)
            peak == scored.peak
            critical == scored.categories \intersect CriticalCategories
            risks == {0} \union {Risk(list[i]) : i \in DOMAIN list}
<1>1. n \in Nat /\ list \in [1..n -> R] /\ \A g \in R : \E i \in 1..n : list[i] = g
  BY ListedAll DEF AllJudged
<1>2. PICK i \in 1..n : list[i] = f
  BY <1>1
<1>. HIDE DEF list, n
<1>3. \A j \in 1..n : Risk(list[j]) \in Int
  BY <1>1 DEF AllJudged, Judged, Risk, GreaterOf
<1>4. risks \in SUBSET Int /\ IsFiniteSet(risks)
  <2>. DEFINE risk == [j \in 1..n |-> Risk(list[j])]
              some == {risk[j] : j \in 1..n}
  <2>1. IsFiniteSet(1..n)
    BY <1>1, FS_Interval
  <2>2. risks = {0} \union some /\ some \subseteq Int
    BY <1>1, <1>3
  <2>. HIDE DEF risk, risks
  <2>3. IsFiniteSet(some)
    BY <2>1, FiniteImage
  <2>. HIDE DEF some
  <2>4. IsFiniteSet({0})
    BY FS_Singleton
  <2>5. IsFiniteSet({0} \union some)
    BY <2>3, <2>4, FS_Union
  <2>. QED
    BY <2>2, <2>5
<1>5. peak = Max(risks)
  BY DEF ScoreEvents
<1>6. Risk(f) \in risks /\ 0 \in risks
  BY <1>1, <1>2
<1>. HIDE DEF risks
<1>7. peak \in Int /\ peak >= Risk(f) /\ peak >= 0
  BY <1>4, <1>5, <1>6, FiniteMax
<1>8. f.category \in critical
  <2>1. f.category # ""
    BY DEF CriticalCategories
  <2>. QED
    BY <1>1, <1>2, <2>1 DEF ScoreEvents
<1>9. /\ ~policy.observe_only_default
      /\ policy.kick_threshold \in Int /\ policy.ban_threshold \in Int
      /\ policy.known_bad_hashes = {}
  <2>1. /\ policy.observe_only_default \in {FALSE}
        /\ policy.kick_threshold \in {40, 70}
        /\ policy.ban_threshold \in {90}
        /\ policy.known_bad_hashes \in {{}}
    BY DEF Enforcing
  <2>2. ~policy.observe_only_default
    BY <2>1, Zenon
  <2>3. policy.kick_threshold \in Int /\ policy.ban_threshold \in Int
    BY <2>1
  <2>4. policy.known_bad_hashes = {}
    BY <2>1, Zenon
  <2>. QED
    BY <2>2, <2>3, <2>4
<1>10. peak >= policy.kick_threshold
  <2>1. f.risk_score \in Int
    BY DEF AllJudged, Judged
  <2>2. Risk(f) \in Int /\ Risk(f) >= f.risk_score
    BY <2>1 DEF Risk, GreaterOf
  <2>. QED
    BY <1>7, <1>9, <2>1, <2>2
<1>11. ~MatchesKnownBadHash(list, policy)
  BY <1>9 DEF MatchesKnownBadHash
<1>12. BuildDecision(NewSession, list, policy, NoDecision).action =
          StrongerAction("observe", DecideAction(GreaterOf(0, peak), scored.average, policy,
                                                 scored.categories))
  BY <1>11 DEF BuildDecision, ApplyKnownBadHashBoost, NewSession, NoDecision
<1>13. GreaterOf(0, peak) = peak
  BY <1>7 DEF GreaterOf
<1>. HIDE DEF peak, scored
<1>14. DecideAction(peak, scored.average, policy, scored.categories) \in {"kick", "ban"}
  BY <1>8, <1>9, <1>10 DEF DecideAction
<1>15. StrongerAction("observe", "kick") = "kick" /\ StrongerAction("observe", "ban") = "ban"
  BY DEF StrongerAction, ActionRank
<1>. QED
  BY <1>12, <1>13, <1>14, <1>15 DEF list

\* Every report is of findings that the server can judge.
JudgedInv == report # None => AllJudged(report)

\* Every step keeps it; only RunCycle reports.
LEMMA NextJudged == KnownInv /\ JudgedInv /\ [Next]_vars => JudgedInv'
<1>1. SUFFICES ASSUME KnownInv, JudgedInv, [Next]_vars PROVE JudgedInv'
  OBVIOUS
<1>2. ASSUME NEW n \in Cycles, RunCycle(n) PROVE JudgedInv'
  <2>. DEFINE due == {s \in DOMAIN Schedule : Due(s, n)}
  <2>1. PICK pick \in Picks(world, snapshot) :
          report' = Report(world, snapshot, known, pick, due)
    BY <1>2 DEF RunCycle
  <2>2. due \in SUBSET DOMAIN Schedule
    OBVIOUS
  <2>. HIDE DEF due
  <2>3. AllJudged(report')
    BY <1>1, <2>1, <2>2, ReportJudged DEF KnownInv
  <2>. QED
    BY <2>3 DEF JudgedInv, AllJudged, Judged
<1>3. CASE UNCHANGED vars
  BY <1>1, <1>3 DEF vars, JudgedInv, AllJudged, Judged
<1>4. (\E f \in Facts : Appear(f)) \/ (\E f \in world : Vanish(f)) \/
      (\E d \in Documents : Load(d)) \/ Restart \/ Rest => report' = None
  BY DEF Appear, Vanish, Load, Restart, Rest
<1>. QED
  BY <1>1, <1>2, <1>3, <1>4 DEF Next, JudgedInv

\* Code that was changed has the player kicked or banned at once if one cycle scores it so
\* (engine.hpp:179, decide.rs:131).
THEOREM ChangedCodeKicks == Spec => []CodeChangesKick
<1>1. Init => KnownInv /\ JudgedInv
  BY DefaultIsWeighed, FS_EmptySet DEF Init, KnownInv, ReportInv, JudgedInv
<1>2. JudgedInv => CodeChangesKick
  <2>1. SUFFICES ASSUME JudgedInv, report # None, NEW policy \in Enforcing, NEW f \in report,
                        NEW a \in f.about, a.fact \in CodeChanges,
                        f.risk_score >= policy.kick_threshold
                 PROVE  BuildDecision(NewSession, SetToSeq(report), policy, NoDecision).action
                            \in {"kick", "ban"}
    BY DEF CodeChangesKick
  <2>2. AllJudged(report)
    BY <2>1 DEF JudgedInv
  <2>3. f.category \in CriticalCategories
    BY <2>1, <2>2 DEF AllJudged, Judged
  <2>. QED
    BY <2>1, <2>2, <2>3, KickedAtOnce
<1>. QED
  BY <1>1, <1>2, NextKnown, NextJudged, PTL DEF Spec

-----------------------------------------------------------------------------
(* The history of a session.                                               *)

\* The risks of a batch, and their greatest.
Risks(events) == {0} \cup {Risk(events[i]) : i \in DOMAIN events}

\* A risk is taken as at least zero, and is a number of 32 bits.
LEMMA RiskRange ==
    ASSUME NEW event \in Findings
    PROVE  Risk(event) \in Nat /\ Risk(event) <= 2147483647
BY DEF Findings, Risk, GreaterOf

\* The peak of a batch is one of its risks, or zero, and none exceeds it.
LEMMA PeakFacts ==
    ASSUME NEW events \in Seq(Findings)
    PROVE  /\ ScoreEvents(events).peak \in Risks(events)
           /\ \A r \in Risks(events) : r \in Nat /\ r <= ScoreEvents(events).peak
<1> DEFINE Bounds == {m \in Nat : \A r \in Risks(events) : r <= m}
<1>1. \A r \in Risks(events) : r \in Nat /\ r <= 2147483647
  <2>1. \A i \in DOMAIN events : events[i] \in Findings
    OBVIOUS
  <2>. QED
    BY <2>1, RiskRange DEF Risks
<1>2. 2147483647 \in Bounds
  BY <1>1
<1>3. PICK m \in Bounds : \A k \in Bounds : m <= k
  <2>. HIDE DEF Bounds
  <2>1. Bounds \subseteq Nat
    BY DEF Bounds
  <2>. QED
    BY <1>2, <2>1, LeastNumber
<1>4. m \in Risks(events)
  <2>1. CASE m = 0
    BY <2>1 DEF Risks
  <2>2. CASE m # 0 /\ m \notin Risks(events)
    <3>1. m - 1 \in Nat /\ \A r \in Risks(events) : r <= m - 1
      BY <1>1, <2>2
    <3>2. m - 1 \in Bounds
      BY <3>1
    <3>. QED
      BY <1>3, <3>1, <3>2
  <2>. QED
    BY <2>1, <2>2
<1>5. \E x \in Risks(events) : \A y \in Risks(events) : x >= y
  BY <1>1, <1>3, <1>4
<1>6. /\ Max(Risks(events)) \in Risks(events)
      /\ \A y \in Risks(events) : Max(Risks(events)) >= y
  BY <1>5 DEF Max
<1>7. ScoreEvents(events).peak = Max(Risks(events))
  BY DEF ScoreEvents, Risks
<1>. QED
  BY <1>1, <1>6, <1>7

-----------------------------------------------------------------------------
\* The parts of a decision: the peak that a batch raises, and what it is judged to be.
Peak(record, events, policy) ==
    ApplyKnownBadHashBoost(events, policy, GreaterOf(record.peak_risk, ScoreEvents(events).peak))

Verdict(record, events, policy) ==
    IF MatchesKnownBadHash(events, policy) /\ ~policy.observe_only_default
    THEN "ban"
    ELSE DecideAction(Peak(record, events, policy), ScoreEvents(events).average, policy,
                      ScoreEvents(events).categories)

\* A decision by its parts.
LEMMA DecisionParts ==
    ASSUME NEW record, NEW events, NEW policy, NEW previous
    PROVE  BuildDecision(record, events, policy, previous) =
             [ action        |-> StrongerAction(previous.action, Verdict(record, events, policy)),
               peak_risk     |-> Peak(record, events, policy),
               average_risk  |-> GreaterOf(ScoreEvents(events).average, previous.average_risk),
               finding_count |-> record.finding_count + Len(events),
               categories    |-> ScoreEvents(events).categories \cup previous.categories ]
BY DEF BuildDecision, Peak, Verdict

\* What a batch is judged to be is an action.
LEMMA VerdictIsAction ==
    ASSUME NEW record, NEW events, NEW policy
    PROVE  Verdict(record, events, policy) \in Actions
BY DEF Verdict, DecideAction, Actions

\* Whoever only observes judges nobody.
LEMMA VerdictOfObserver ==
    ASSUME NEW record, NEW events, NEW policy, policy.observe_only_default
    PROVE  Verdict(record, events, policy) = "observe"
BY DEF Verdict, DecideAction

\* Whoever does not, bans for a hash and for a peak.
LEMMA VerdictIsBan ==
    ASSUME NEW record, NEW events, NEW policy, ~policy.observe_only_default
    PROVE  Verdict(record, events, policy) = "ban" <=>
             \/ MatchesKnownBadHash(events, policy)
             \/ Peak(record, events, policy) >= policy.ban_threshold
BY DEF Verdict, DecideAction

\* The stronger of two actions: neither taken back nor invented, and a ban if one is.
LEMMA StrongerFacts ==
    ASSUME NEW a \in Actions, NEW b \in Actions
    PROVE  /\ StrongerAction(a, b) \in Actions
           /\ StrongerAction(a, "observe") = a
           /\ StrongerAction(StrongerAction(a, b), b) = StrongerAction(a, b)
           /\ StrongerAction(a, b) = "ban" <=> a = "ban" \/ b = "ban"
BY DEF StrongerAction, Actions, ActionRank

\* The peak is the greatest of the session's, the batch's and, for a known bad hash, 100.
LEMMA PeakBounds ==
    ASSUME NEW record, record.peak_risk \in Nat, NEW events \in Seq(Findings), NEW policy
    PROVE  /\ Peak(record, events, policy) \in Nat
           /\ Peak(record, events, policy) >= record.peak_risk
           /\ \A r \in Risks(events) : Peak(record, events, policy) >= r
           /\ MatchesKnownBadHash(events, policy) => Peak(record, events, policy) >= 100
           /\ \/ Peak(record, events, policy) = record.peak_risk
              \/ Peak(record, events, policy) \in Risks(events)
              \/ /\ MatchesKnownBadHash(events, policy)
                 /\ Peak(record, events, policy) = 100
<1> DEFINE top == ScoreEvents(events).peak
<1>1. top \in Nat /\ top \in Risks(events) /\ \A r \in Risks(events) : r \in Nat /\ r <= top
  BY PeakFacts
<1>2. Peak(record, events, policy) =
        ApplyKnownBadHashBoost(events, policy, GreaterOf(record.peak_risk, top))
  BY DEF Peak
<1>. HIDE DEF top
<1>. QED
  BY <1>1, <1>2 DEF ApplyKnownBadHashBoost, GreaterOf

\* A peak that covers everything is raised by nothing.
LEMMA PeakStays ==
    ASSUME NEW record, NEW later, NEW events \in Seq(Findings), NEW policy,
           record.peak_risk \in Nat, later.peak_risk = Peak(record, events, policy)
    PROVE  Peak(later, events, policy) = later.peak_risk
<1>1. /\ later.peak_risk \in Nat
      /\ \A r \in Risks(events) : r \in Nat /\ later.peak_risk >= r
      /\ MatchesKnownBadHash(events, policy) => later.peak_risk >= 100
  BY PeakBounds, PeakFacts
<1> DEFINE p == Peak(later, events, policy)
<1>2. /\ p \in Nat /\ p >= later.peak_risk
      /\ \/ p = later.peak_risk
         \/ p \in Risks(events)
         \/ MatchesKnownBadHash(events, policy) /\ p = 100
  BY <1>1, PeakBounds
<1>. HIDE DEF p
<1>3. p = later.peak_risk
  BY <1>1, <1>2
<1>. QED
  BY <1>3 DEF p

\* The greater once more is the greater.
LEMMA GreaterStays ==
    ASSUME NEW a, NEW b
    PROVE  GreaterOf(a, GreaterOf(a, b)) = GreaterOf(a, b)
BY DEF GreaterOf

\* The same batch once more makes of a decision what it was, with the findings counted again.
LEMMA BuiltTwice ==
    ASSUME NEW record, NEW events \in Seq(Findings), NEW policy, NEW previous, NEW decided,
           record.peak_risk \in Nat, previous.action \in Actions,
           decided = BuildDecision(record, events, policy, previous)
    PROVE  BuildDecision(After(decided), events, policy, decided) =
             [decided EXCEPT !.finding_count = @ + Len(events)]
<1> DEFINE scored == ScoreEvents(events)
           verdict == Verdict(record, events, policy)
           peak == Peak(record, events, policy)
           action == StrongerAction(previous.action, verdict)
           average == GreaterOf(scored.average, previous.average_risk)
           categories == scored.categories \cup previous.categories
           count == record.finding_count + Len(events)
<1>1. decided = [action |-> action, peak_risk |-> peak, average_risk |-> average,
                 finding_count |-> count, categories |-> categories]
  BY DecisionParts
<1>2. /\ After(decided).peak_risk = peak /\ After(decided).finding_count = count
  BY <1>1 DEF After
<1>3. Peak(After(decided), events, policy) = peak
  BY <1>2, PeakStays
<1>4. Verdict(After(decided), events, policy) = verdict
  BY <1>3 DEF Verdict
<1>5. StrongerAction(action, verdict) = action
  BY VerdictIsAction, StrongerFacts
<1>6. GreaterOf(scored.average, average) = average
  BY GreaterStays
<1>7. scored.categories \cup categories = categories
  OBVIOUS
<1>8. BuildDecision(After(decided), events, policy, decided) =
        [ action        |-> StrongerAction(decided.action, verdict),
          peak_risk     |-> peak,
          average_risk  |-> GreaterOf(scored.average, decided.average_risk),
          finding_count |-> count + Len(events),
          categories    |-> scored.categories \cup decided.categories ]
  BY <1>2, <1>3, <1>4, DecisionParts
<1>. HIDE DEF scored, verdict, peak, action, average, categories, count
<1> DEFINE more == count + Len(events)
           again == [action |-> action, peak_risk |-> peak, average_risk |-> average,
                     finding_count |-> more, categories |-> categories]
<1>9. BuildDecision(After(decided), events, policy, decided) = again
  <2>1. /\ decided.action = action /\ decided.average_risk = average
        /\ decided.categories = categories
    BY <1>1
  <2>2. /\ StrongerAction(decided.action, verdict) = action
        /\ GreaterOf(scored.average, decided.average_risk) = average
        /\ scored.categories \cup decided.categories = categories
    BY <1>5, <1>6, <1>7, <2>1
  <2>. QED
    BY <1>8, <2>2, Zenon
<1>10. decided.finding_count + Len(events) = more
  BY <1>1
<1>11. [decided EXCEPT !.finding_count = more] = again
  <2>. HIDE DEF more
  <2>. QED
    BY <1>1
<1>. QED
  BY <1>9, <1>10, <1>11

-----------------------------------------------------------------------------
\* The peak of the session is a number and the action one of the four.
StreamInv ==
    /\ session.peak_risk \in Nat /\ session.finding_count \in Nat
    /\ decision.action \in Actions

\* The batches are sequences of findings.
LEMMA BatchIsSequence == \A batch \in Batches : batch \in Seq(Findings) /\ Len(batch) \in Nat
BY DecisionStreamAssumption

\* A session starts with nothing found and nothing held against it.
LEMMA InitStream == StreamInit => StreamInv
BY DEF StreamInit, StreamInv, NoDecision, Actions

\* An ingest keeps them so.
LEMMA IngestStream ==
    ASSUME StreamInv, NEW batch \in Batches, NEW policy \in Policies, Ingest(batch, policy)
    PROVE  StreamInv'
<1>1. /\ decision'.action = StrongerAction(decision.action, Verdict(session, batch, policy))
      /\ decision'.peak_risk = Peak(session, batch, policy)
      /\ decision'.finding_count = session.finding_count + Len(batch)
  BY DecisionParts DEF Ingest
<1>2. /\ session'.peak_risk = decision'.peak_risk
      /\ session'.finding_count = decision'.finding_count
  BY DEF Ingest, After
<1>3. Peak(session, batch, policy) \in Nat
  BY BatchIsSequence, PeakBounds DEF StreamInv
<1>4. StrongerAction(decision.action, Verdict(session, batch, policy)) \in Actions
  BY VerdictIsAction, StrongerFacts DEF StreamInv
<1>. QED
  BY <1>1, <1>2, <1>3, <1>4, BatchIsSequence DEF StreamInv

\* So does every step.
LEMMA NextStream == StreamInv /\ [StreamNext]_streamVars => StreamInv'
BY IngestStream DEF StreamNext, streamVars, StreamInv

\* A batch that comes a second time changes nothing but the count (decide.rs:64).
THEOREM RetriesOnlyCount == StreamSpec => []RetryOnlyCounts
<1>1. StreamInit => RetryOnlyCounts
  BY DEF StreamInit, RetryOnlyCounts
<1>2. ASSUME StreamInv, RetryOnlyCounts, [StreamNext]_streamVars PROVE RetryOnlyCounts'
  <2>1. ASSUME NEW batch \in Batches, NEW policy \in Policies, Ingest(batch, policy)
        PROVE  RetryOnlyCounts'
    <3>1. /\ decision' = BuildDecision(session, batch, policy, decision)
          /\ session' = After(decision')
          /\ last'.batch = batch /\ last'.policy = policy
      BY <2>1 DEF Ingest
    <3>2. BuildDecision(session', batch, policy, decision') =
            [decision' EXCEPT !.finding_count = @ + Len(batch)]
      BY <1>2, <3>1, BatchIsSequence, BuiltTwice DEF StreamInv
    <3>. QED
      BY <3>1, <3>2 DEF RetryOnlyCounts
  <2>2. CASE UNCHANGED streamVars
    BY <1>2, <2>2 DEF streamVars, RetryOnlyCounts
  <2>. QED
    BY <1>2, <2>1, <2>2 DEF StreamNext
<1>. QED
  BY <1>1, <1>2, InitStream, NextStream, PTL DEF StreamSpec

\* No batch makes an observing policy act (decide.rs:112).
THEOREM ObserversDoNothing == StreamSpec => ObserveOnlyNeverEscalates
<1>1. ASSUME StreamInv, [StreamNext]_streamVars
      PROVE  [last'.policy.observe_only_default => decision'.action = decision.action]_streamVars
  <2>1. ASSUME NEW batch \in Batches, NEW policy \in Policies, Ingest(batch, policy),
               last'.policy.observe_only_default
        PROVE  decision'.action = decision.action
    <3>1. policy.observe_only_default
      BY <2>1 DEF Ingest
    <3>2. decision'.action = StrongerAction(decision.action, Verdict(session, batch, policy))
      BY <2>1, DecisionParts DEF Ingest
    <3>3. Verdict(session, batch, policy) = "observe"
      BY <3>1, VerdictOfObserver
    <3>4. "observe" \in Actions
      BY DEF Actions
    <3>. QED
      BY <1>1, <3>2, <3>3, <3>4, StrongerFacts DEF StreamInv
  <2>. QED
    BY <1>1, <2>1 DEF StreamNext
<1>. QED
  BY <1>1, InitStream, NextStream, PTL DEF StreamSpec, ObserveOnlyNeverEscalates

-----------------------------------------------------------------------------
\* What is in two batches is in either.
LEMMA TwoBatches ==
    ASSUME NEW first \in Seq(Findings), NEW second \in Seq(Findings)
    PROVE  /\ first \o second \in Seq(Findings)
           /\ Len(first \o second) = Len(first) + Len(second)
           /\ Len(first) \in Nat /\ Len(second) \in Nat
           /\ \A i \in DOMAIN (first \o second) :
                 \/ \E j \in DOMAIN first : (first \o second)[i] = first[j]
                 \/ \E j \in DOMAIN second : (first \o second)[i] = second[j]
           /\ \A j \in DOMAIN first :
                 \E i \in DOMAIN (first \o second) : (first \o second)[i] = first[j]
           /\ \A j \in DOMAIN second :
                 \E i \in DOMAIN (first \o second) : (first \o second)[i] = second[j]
<1> DEFINE both == first \o second
           m == Len(first)
           n == Len(second)
<1>1. /\ both \in Seq(Findings) /\ Len(both) = m + n
      /\ m \in Nat /\ n \in Nat
      /\ DOMAIN first = 1..m /\ DOMAIN second = 1..n /\ DOMAIN both = 1..(m + n)
  OBVIOUS
<1>2. ASSUME NEW i \in 1..(m + n)
      PROVE  \/ \E j \in 1..m : both[i] = first[j]
             \/ \E j \in 1..n : both[i] = second[j]
  <2>1. CASE i <= m
    <3>1. i \in 1..m /\ both[i] = first[i]
      BY <1>1, <2>1
    <3>. QED
      BY <3>1
  <2>2. CASE i > m
    <3>1. i - m \in 1..n /\ both[i] = second[i - m]
      BY <1>1, <2>2
    <3>. QED
      BY <3>1
  <2>. QED
    BY <1>1, <2>1, <2>2
<1>3. ASSUME NEW j \in 1..m PROVE j \in 1..(m + n) /\ both[j] = first[j]
  BY <1>1
<1>4. ASSUME NEW j \in 1..n PROVE m + j \in 1..(m + n) /\ both[m + j] = second[j]
  BY <1>1
<1>. HIDE DEF both, m, n
<1>5. \A j \in 1..m : \E i \in 1..(m + n) : both[i] = first[j]
  BY <1>3
<1>6. \A j \in 1..n : \E i \in 1..(m + n) : both[i] = second[j]
  BY <1>4
<1>. QED
  BY <1>1, <1>2, <1>5, <1>6 DEF both, m, n

\* The risks, the categories and the known bad hashes of two batches are those of either.
LEMMA TwoScored ==
    ASSUME NEW first \in Seq(Findings), NEW second \in Seq(Findings), NEW policy
    PROVE  /\ Risks(first \o second) = Risks(first) \cup Risks(second)
           /\ ScoreEvents(first \o second).categories =
                 ScoreEvents(first).categories \cup ScoreEvents(second).categories
           /\ MatchesKnownBadHash(first \o second, policy) <=>
                 MatchesKnownBadHash(first, policy) \/ MatchesKnownBadHash(second, policy)
<1> DEFINE both == first \o second
<1>1. /\ \A i \in DOMAIN both : \/ \E j \in DOMAIN first : both[i] = first[j]
                               \/ \E j \in DOMAIN second : both[i] = second[j]
      /\ \A j \in DOMAIN first : \E i \in DOMAIN both : both[i] = first[j]
      /\ \A j \in DOMAIN second : \E i \in DOMAIN both : both[i] = second[j]
  BY TwoBatches
<1>. HIDE DEF both
<1>2. Risks(both) = Risks(first) \cup Risks(second)
  BY <1>1 DEF Risks
<1> DEFINE Categories(events) == {events[i].category : i \in DOMAIN events} \ {""}
<1>3. ScoreEvents(both).categories =
        ScoreEvents(first).categories \cup ScoreEvents(second).categories
  <2>1. /\ ScoreEvents(both).categories = Categories(both)
        /\ ScoreEvents(first).categories = Categories(first)
        /\ ScoreEvents(second).categories = Categories(second)
    BY DEF ScoreEvents
  <2>2. ASSUME NEW name \in Categories(both)
        PROVE  name \in Categories(first) \cup Categories(second)
    <3>1. PICK i \in DOMAIN both : both[i].category = name
      OBVIOUS
    <3>2. \/ \E j \in DOMAIN first : both[i] = first[j]
          \/ \E j \in DOMAIN second : both[i] = second[j]
      BY <1>1, <3>1
    <3>. QED
      BY <3>1, <3>2
  <2>3. ASSUME NEW name \in Categories(first) PROVE name \in Categories(both)
    <3>1. PICK j \in DOMAIN first : first[j].category = name
      OBVIOUS
    <3>2. PICK i \in DOMAIN both : both[i] = first[j]
      BY <1>1, <3>1
    <3>. QED
      BY <3>1, <3>2
  <2>4. ASSUME NEW name \in Categories(second) PROVE name \in Categories(both)
    <3>1. PICK j \in DOMAIN second : second[j].category = name
      OBVIOUS
    <3>2. PICK i \in DOMAIN both : both[i] = second[j]
      BY <1>1, <3>1
    <3>. QED
      BY <3>1, <3>2
  <2>. HIDE DEF Categories
  <2>. QED
    BY <2>1, <2>2, <2>3, <2>4
<1>4. MatchesKnownBadHash(both, policy) <=>
        MatchesKnownBadHash(first, policy) \/ MatchesKnownBadHash(second, policy)
  BY <1>1 DEF MatchesKnownBadHash
<1>. QED
  BY <1>2, <1>3, <1>4 DEF both

\* The peak comes to the same whether the batches come together or one after the other.
LEMMA TwoPeaks ==
    ASSUME NEW record, record.peak_risk \in Nat, NEW later, NEW policy,
           NEW first \in Seq(Findings), NEW second \in Seq(Findings),
           later.peak_risk = Peak(record, first, policy)
    PROVE  Peak(record, first \o second, policy) = Peak(later, second, policy)
<1> DEFINE both == first \o second
           early == Peak(record, first, policy)
           late == Peak(later, second, policy)
           whole == Peak(record, both, policy)
<1>1. /\ \A r \in Risks(first) \cup Risks(second) : r \in Nat
      /\ Risks(both) = Risks(first) \cup Risks(second)
      /\ MatchesKnownBadHash(both, policy) <=>
            MatchesKnownBadHash(first, policy) \/ MatchesKnownBadHash(second, policy)
      /\ both \in Seq(Findings)
  BY PeakFacts, TwoBatches, TwoScored
<1>. HIDE DEF both
<1>2. /\ early \in Nat /\ early >= record.peak_risk
      /\ \A r \in Risks(first) : early >= r
      /\ MatchesKnownBadHash(first, policy) => early >= 100
      /\ \/ early = record.peak_risk \/ early \in Risks(first)
         \/ MatchesKnownBadHash(first, policy) /\ early = 100
  BY PeakBounds
<1>3. /\ late \in Nat /\ late >= early
      /\ \A r \in Risks(second) : late >= r
      /\ MatchesKnownBadHash(second, policy) => late >= 100
      /\ \/ late = early \/ late \in Risks(second)
         \/ MatchesKnownBadHash(second, policy) /\ late = 100
  BY <1>2, PeakBounds
<1>4. /\ whole \in Nat /\ whole >= record.peak_risk
      /\ \A r \in Risks(first) \cup Risks(second) : whole >= r
      /\ MatchesKnownBadHash(both, policy) => whole >= 100
      /\ \/ whole = record.peak_risk \/ whole \in Risks(first) \cup Risks(second)
         \/ MatchesKnownBadHash(both, policy) /\ whole = 100
  <2>1. /\ whole \in Nat /\ whole >= record.peak_risk
        /\ \A r \in Risks(both) : whole >= r
        /\ MatchesKnownBadHash(both, policy) => whole >= 100
        /\ \/ whole = record.peak_risk \/ whole \in Risks(both)
           \/ MatchesKnownBadHash(both, policy) /\ whole = 100
    BY <1>1, PeakBounds
  <2>. HIDE DEF whole
  <2>. QED
    BY <1>1, <2>1
<1>. HIDE DEF early, late, whole
<1>5. whole <= late
  BY <1>1, <1>2, <1>3, <1>4
<1>6. late <= whole
  BY <1>1, <1>2, <1>3, <1>4
<1>. QED
  BY <1>3, <1>4, <1>5, <1>6 DEF both, late, whole

\* Two batches ban whom one of both would have banned: the second meets the peak that the
\* first has left, and a ban is never taken back.
LEMMA TwoBans ==
    ASSUME NEW record, record.peak_risk \in Nat, NEW later, NEW action \in Actions,
           NEW policy, policy.observe_only_default \in BOOLEAN, policy.ban_threshold \in Int,
           NEW first \in Seq(Findings), NEW second \in Seq(Findings),
           later.peak_risk = Peak(record, first, policy)
    PROVE  StrongerAction(action, Verdict(record, first \o second, policy)) = "ban" <=>
           StrongerAction(StrongerAction(action, Verdict(record, first, policy)),
                          Verdict(later, second, policy)) = "ban"
<1> DEFINE both == first \o second
           early == Verdict(record, first, policy)
           late == Verdict(later, second, policy)
           whole == Verdict(record, both, policy)
<1>1. early \in Actions /\ late \in Actions /\ whole \in Actions
  BY VerdictIsAction
<1>2. whole = "ban" <=> early = "ban" \/ late = "ban"
  <2>1. CASE policy.observe_only_default
    BY <2>1, VerdictOfObserver
  <2>2. CASE ~policy.observe_only_default
    <3> DEFINE raised == Peak(record, first, policy)
               top == Peak(later, second, policy)
    <3>1. raised \in Nat /\ top \in Nat /\ top >= raised
      BY PeakBounds
    <3>2. Peak(record, both, policy) = top
      BY TwoPeaks
    <3>3. MatchesKnownBadHash(both, policy) <=>
            MatchesKnownBadHash(first, policy) \/ MatchesKnownBadHash(second, policy)
      BY TwoScored
    <3>4. /\ whole = "ban" <=>
               \/ MatchesKnownBadHash(both, policy)
               \/ Peak(record, both, policy) >= policy.ban_threshold
          /\ early = "ban" <=>
               MatchesKnownBadHash(first, policy) \/ raised >= policy.ban_threshold
          /\ late = "ban" <=>
               MatchesKnownBadHash(second, policy) \/ top >= policy.ban_threshold
      BY <2>2, VerdictIsBan
    <3>. HIDE DEF both, early, late, whole, raised, top
    <3>5. raised >= policy.ban_threshold => top >= policy.ban_threshold
      BY <3>1
    <3>. QED
      BY <3>2, <3>3, <3>4, <3>5, Zenon
  <2>. QED
    BY <2>1, <2>2
<1>. HIDE DEF early, late, whole
<1>3. /\ StrongerAction(action, whole) = "ban" <=> action = "ban" \/ whole = "ban"
      /\ StrongerAction(action, early) \in Actions
      /\ StrongerAction(action, early) = "ban" <=> action = "ban" \/ early = "ban"
  BY <1>1, StrongerFacts
<1>4. StrongerAction(StrongerAction(action, early), late) = "ban" <=>
        StrongerAction(action, early) = "ban" \/ late = "ban"
  BY <1>1, <1>3, StrongerFacts
<1>5. StrongerAction(action, whole) = "ban" <=>
        StrongerAction(StrongerAction(action, early), late) = "ban"
  BY <1>2, <1>3, <1>4, Zenon
<1>. QED
  BY <1>5 DEF both, early, late, whole

\* Where the batches are cut does not matter to a ban, to the peak, to the count or to the
\* categories (agent/main.rs:199, decide.rs:64).
THEOREM CutsDoNotMatter == StreamSpec => []BansSurviveBatching
<1>1. ASSUME StreamInv PROVE BansSurviveBatching
  <2> DEFINE Whole(first, second, policy) ==
               BuildDecision(session, first \o second, policy, decision)
             Early(first, policy) == BuildDecision(session, first, policy, decision)
             Late(first, second, policy) ==
               BuildDecision(After(Early(first, policy)), second, policy, Early(first, policy))
  <2>1. ASSUME NEW first \in Batches, NEW second \in Batches, NEW policy \in Policies
        PROVE  /\ Whole(first, second, policy).action = "ban" <=>
                     Late(first, second, policy).action = "ban"
               /\ Whole(first, second, policy).peak_risk = Late(first, second, policy).peak_risk
               /\ Whole(first, second, policy).finding_count =
                     Late(first, second, policy).finding_count
               /\ Whole(first, second, policy).categories =
                     Late(first, second, policy).categories
    <3> DEFINE both == first \o second
               early == Early(first, policy)
               late == Late(first, second, policy)
               whole == Whole(first, second, policy)
               later == After(early)
    <3>1. /\ first \in Seq(Findings) /\ second \in Seq(Findings)
          /\ Len(first) \in Nat /\ Len(second) \in Nat /\ Len(both) = Len(first) + Len(second)
          /\ session.peak_risk \in Nat /\ session.finding_count \in Nat
          /\ decision.action \in Actions
      BY <1>1, BatchIsSequence, TwoBatches DEF StreamInv
    <3>2. /\ policy.observe_only_default \in BOOLEAN /\ policy.ban_threshold \in Int
      BY DecisionStreamAssumption
    <3>3. /\ early.action = StrongerAction(decision.action, Verdict(session, first, policy))
          /\ early.peak_risk = Peak(session, first, policy)
          /\ early.finding_count = session.finding_count + Len(first)
          /\ early.categories = ScoreEvents(first).categories \cup decision.categories
      BY DecisionParts
    <3>4. /\ late.action = StrongerAction(early.action, Verdict(later, second, policy))
          /\ late.peak_risk = Peak(later, second, policy)
          /\ late.finding_count = later.finding_count + Len(second)
          /\ late.categories = ScoreEvents(second).categories \cup early.categories
      BY DecisionParts
    <3>5. /\ whole.action = StrongerAction(decision.action, Verdict(session, both, policy))
          /\ whole.peak_risk = Peak(session, both, policy)
          /\ whole.finding_count = session.finding_count + Len(both)
          /\ whole.categories = ScoreEvents(both).categories \cup decision.categories
      BY DecisionParts
    <3>6. later.peak_risk = early.peak_risk /\ later.finding_count = early.finding_count
      BY DEF After
    <3>. HIDE DEF early, late, whole, later
    <3>7. whole.action = "ban" <=> late.action = "ban"
      BY <3>1, <3>2, <3>3, <3>4, <3>5, <3>6, TwoBans
    <3>8. whole.peak_risk = late.peak_risk
      BY <3>1, <3>3, <3>4, <3>5, <3>6, TwoPeaks
    <3>9. whole.finding_count = late.finding_count
      <4>. HIDE DEF both
      <4>. QED
        BY <3>1, <3>3, <3>4, <3>5, <3>6
    <3>10. whole.categories = late.categories
      <4>1. ScoreEvents(both).categories =
              ScoreEvents(first).categories \cup ScoreEvents(second).categories
        BY <3>1, TwoScored
      <4>. HIDE DEF both
      <4>. QED
        BY <3>3, <3>4, <3>5, <4>1
    <3>. QED
      BY <3>7, <3>8, <3>9, <3>10 DEF whole, late
  <2>. QED
    BY <2>1 DEF BansSurviveBatching
<1>. QED
  BY <1>1, InitStream, NextStream, PTL DEF StreamSpec

-----------------------------------------------------------------------------
\* The sum of a batch as its average takes it, from the last finding down.
SumStep(events, g, s) ==
    IF s = {} THEN 0 ELSE LET i == Max(s) IN g[s \ {i}] + Risk(events[i])

SumFrom(events) == CHOOSE g : g = [s \in SUBSET DOMAIN events |-> SumStep(events, g, s)]

RiskSum(events) == FoldLeft(LAMBDA sum, event : sum + Risk(event), 0, events)

\* The fold of ScoreEvents (decide.rs:160) is this function.
LEMMA FoldIsSum ==
    ASSUME NEW events
    PROVE  RiskSum(events) = SumFrom(events)[DOMAIN events]
BY DEF RiskSum, FoldLeft, MapThenFoldSet, SumFrom, SumStep

\* The last of some places is one of them.
LEMMA GreatestIndex ==
    ASSUME NEW n \in Nat, NEW s \in SUBSET (1..n), s # {}
    PROVE  Max(s) \in s
<1>. DEFINE under == {k \in Nat : \A i \in s : i <= k}
<1>1. n \in under
  OBVIOUS
<1>2. PICK m \in under : \A k \in under : m <= k
  <2>1. under \in SUBSET Nat
    OBVIOUS
  <2>. HIDE DEF under
  <2>. QED
    BY <1>1, <2>1, LeastNumber
<1>3. m \in s
  <2>1. SUFFICES ASSUME m \notin s PROVE FALSE
    OBVIOUS
  <2>2. m \in Nat /\ \A i \in s : i \in Nat /\ i > 0 /\ i <= m /\ i # m
    BY <1>2, <2>1
  <2>3. PICK i \in s : TRUE
    OBVIOUS
  <2>4. m - 1 \in Nat /\ \A k \in s : k <= m - 1
    BY <2>2, <2>3
  <2>5. m <= m - 1
    BY <1>2, <2>4
  <2>. QED
    BY <2>2, <2>5
<1>4. \E x \in s : \A y \in s : x >= y
  BY <1>2, <1>3
<1>. QED
  BY <1>4 DEF Max

\* The risks of a batch by their places.
RiskTable(events) == [i \in DOMAIN events |-> Risk(events[i])]

\* They are natural numbers, one for each place.
LEMMA RiskTableFacts ==
    ASSUME NEW events \in Seq(Findings)
    PROVE  /\ IsFiniteSet(DOMAIN events)
           /\ DOMAIN events = 1..Len(events)
           /\ Len(events) \in Nat
           /\ \A i \in DOMAIN events : RiskTable(events)[i] = Risk(events[i])
           /\ \A i \in DOMAIN events : RiskTable(events)[i] \in Nat
<1>1. Len(events) \in Nat /\ DOMAIN events = 1..Len(events)
  OBVIOUS
<1>2. \A i \in DOMAIN events : events[i] \in Findings
  OBVIOUS
<1>3. IsFiniteSet(DOMAIN events)
  <2>. DEFINE n == Len(events)
  <2>1. IsFiniteSet(1..n)
    BY <1>1, FS_Interval
  <2>. QED
    BY <1>1, <2>1
<1>. QED
  BY <1>1, <1>2, <1>3, RiskRange DEF RiskTable

\* What a sum of the risks is put together from.
RiskIsLast(events, g, S) ==
    \A s \in SUBSET S : \A i \in s : g[s] = Risk(events[i]) + g[s \ {i}]

\* Any place of a batch may be added last.
LEMMA RiskTotal ==
    ASSUME NEW events \in Seq(Findings), NEW S, S = DOMAIN events
    PROVE  /\ Total(RiskTable(events), S)[{}] = 0
           /\ RiskIsLast(events, Total(RiskTable(events), S), S)
           /\ \A s \in SUBSET S : Total(RiskTable(events), S)[s] \in Nat
           /\ \A i \in S : Risk(events[i]) \in Nat
<1>1. /\ IsFiniteSet(S)
      /\ \A i \in S : RiskTable(events)[i] = Risk(events[i]) /\ RiskTable(events)[i] \in Nat
  BY RiskTableFacts
<1>2. \A i \in S : RiskTable(events)[i] \in Nat
  BY <1>1
<1>3. \A s \in SUBSET S : Total(RiskTable(events), S)[s] \in Nat
  BY <1>1, <1>2, TotalIsNumber
<1>. DEFINE table == RiskTable(events)
            total == Total(table, S)
<1>4. total[{}] = 0 /\ AnyIsLast(table, total, S)
  BY <1>1, <1>2, AnyLast
<1>. HIDE DEF total
<1>5. RiskIsLast(events, total, S)
  BY <1>1, <1>4 DEF AnyIsLast, RiskIsLast
<1>. QED
  BY <1>1, <1>3, <1>4, <1>5 DEF total

\* It is the sum of the risks, whatever the order.
LEMMA RiskSumIsTotal ==
    ASSUME NEW events \in Seq(Findings)
    PROVE  RiskSum(events) = Total(RiskTable(events), DOMAIN events)[DOMAIN events]
<1>. DEFINE S == DOMAIN events
            g == Total(RiskTable(events), S)
            f == SumFrom(events)
            bad == {s \in SUBSET S : f[s] # g[s]}
<1>1. \A s \in SUBSET S : s # {} => Max(s) \in s
  BY RiskTableFacts, GreatestIndex
<1>2. /\ g[{}] = 0
      /\ \A s \in SUBSET S : \A i \in s : g[s] = Risk(events[i]) + g[s \ {i}]
      /\ \A s \in SUBSET S : g[s] \in Nat
      /\ \A i \in S : Risk(events[i]) \in Nat
  <2>1. g[{}] = 0 /\ RiskIsLast(events, g, S)
    BY RiskTotal
  <2>2. (\A s \in SUBSET S : g[s] \in Nat) /\ \A i \in S : Risk(events[i]) \in Nat
    BY RiskTotal
  <2>. HIDE DEF g
  <2>. QED
    BY <2>1, <2>2 DEF RiskIsLast
<1>3. g = [s \in SUBSET S |-> g[s]]
  <2>1. g = [s \in SUBSET S |-> Added(RiskTable(events), g, s)]
    <3>1. IsFiniteSet(S) /\ \A i \in S : RiskTable(events)[i] \in Int
      BY RiskTableFacts
    <3>. QED
      BY <3>1, TotalRecurs
  <2>. HIDE DEF g
  <2>. QED
    BY <2>1
<1>. HIDE DEF g
<1>4. ASSUME NEW s \in SUBSET S PROVE g[s] = SumStep(events, g, s)
  <2>1. CASE s = {}
    BY <1>2, <2>1 DEF SumStep
  <2>2. CASE s # {}
    <3>. DEFINE i == Max(s)
    <3>1. i \in s /\ i \in S
      BY <1>1, <2>2
    <3>2. SumStep(events, g, s) = g[s \ {i}] + Risk(events[i])
      BY <2>2 DEF SumStep
    <3>. HIDE DEF i
    <3>3. g[s \ {i}] \in Nat /\ Risk(events[i]) \in Nat /\ g[s] = Risk(events[i]) + g[s \ {i}]
      BY <1>2, <3>1
    <3>. QED
      BY <3>2, <3>3
  <2>. QED
    BY <2>1, <2>2
<1>5. g = [s \in SUBSET S |-> SumStep(events, g, s)]
  BY <1>3, <1>4
<1>6. f = [s \in SUBSET S |-> SumStep(events, f, s)]
  BY <1>5 DEF SumFrom
<1>. HIDE DEF f
<1>7. \A s \in SUBSET S : f[s] = SumStep(events, f, s)
  BY <1>6, Zenon
<1>8. ASSUME bad # {} PROVE FALSE
  <2>1. PICK s \in bad : \A t \in SUBSET s : t # s => t \notin bad
    <3>1. bad \in SUBSET SUBSET S /\ IsFiniteSet(S)
      BY RiskTableFacts
    <3>. HIDE DEF bad, S
    <3>. QED
      BY <1>8, <3>1, SmallestSubset
  <2>2. CASE s = {}
    BY <1>2, <1>7, <2>1, <2>2 DEF SumStep
  <2>3. CASE s # {}
    <3>. DEFINE i == Max(s)
    <3>1. i \in s
      BY <1>1, <2>1, <2>3
    <3>2. /\ f[s] = f[s \ {i}] + Risk(events[i])
          /\ g[s] = g[s \ {i}] + Risk(events[i])
      BY <1>4, <1>7, <2>1, <2>3 DEF SumStep
    <3>. HIDE DEF i
    <3>3. f[s \ {i}] = g[s \ {i}]
      BY <2>1, <3>1
    <3>. QED
      BY <2>1, <3>2, <3>3
  <2>. QED
    BY <2>2, <2>3
<1>9. f[S] = g[S]
  BY <1>8
<1>. QED
  BY <1>9, FoldIsSum DEF f, g

\* The places of a batch of n, from behind.
Mirror(n, s) == {i \in 1..n : n - i + 1 \in s}

\* The reverse of a batch has its findings at the mirrored places.
LEMMA ReverseFacts ==
    ASSUME NEW events \in Seq(Findings)
    PROVE  /\ Reverse(events) \in Seq(Findings)
           /\ Len(Reverse(events)) = Len(events)
           /\ DOMAIN Reverse(events) = DOMAIN events
           /\ \A i \in DOMAIN events : Len(events) - i + 1 \in DOMAIN events
           /\ \A i \in DOMAIN events : Reverse(events)[i] = events[Len(events) - i + 1]
<1>. DEFINE n == Len(events)
<1>1. n \in Nat /\ DOMAIN events = 1..n /\ \A i \in 1..n : events[i] \in Findings
  OBVIOUS
<1>2. \A i \in 1..n : n - i + 1 \in 1..n
  BY <1>1
<1>3. Reverse(events) = [i \in 1..n |-> events[n - i + 1]]
  BY DEF Reverse
<1>. HIDE DEF n
<1>4. Reverse(events) \in [1..n -> Findings]
  BY <1>1, <1>2, <1>3
<1>5. Reverse(events) \in Seq(Findings) /\ Len(Reverse(events)) = n
  BY <1>1, <1>3, <1>4
<1>. QED
  BY <1>1, <1>2, <1>3, <1>5 DEF n

\* A batch and its reverse have the same sum: of the sets of places where they differ, a
\* smallest would have a smaller one.
LEMMA ReverseSum ==
    ASSUME NEW events \in Seq(Findings)
    PROVE  RiskSum(Reverse(events)) = RiskSum(events)
<1>. DEFINE n == Len(events)
            S == 1..n
            back == Reverse(events)
            g == Total(RiskTable(events), S)
            h == Total(RiskTable(back), S)
            bad == {s \in SUBSET S : h[s] # g[Mirror(n, s)]}
<1>1. /\ n \in Nat
      /\ back \in Seq(Findings)
      /\ DOMAIN events = S /\ DOMAIN back = S
      /\ \A i \in S : n - i + 1 \in S /\ back[i] = events[n - i + 1]
      /\ IsFiniteSet(S)
  BY RiskTableFacts, ReverseFacts
<1>. HIDE DEF n, S, back
<1>2. /\ g[{}] = 0
      /\ \A s \in SUBSET S : \A i \in s : g[s] = Risk(events[i]) + g[s \ {i}]
  <2>1. g[{}] = 0 /\ RiskIsLast(events, g, S)
    BY <1>1, RiskTotal
  <2>. HIDE DEF g
  <2>. QED
    BY <2>1 DEF RiskIsLast
<1>3. /\ h[{}] = 0
      /\ \A s \in SUBSET S : \A i \in s : h[s] = Risk(back[i]) + h[s \ {i}]
  <2>1. h[{}] = 0 /\ RiskIsLast(back, h, S)
    BY <1>1, RiskTotal
  <2>. HIDE DEF h
  <2>. QED
    BY <2>1 DEF RiskIsLast
<1>. HIDE DEF g, h
<1>4. ASSUME bad # {} PROVE FALSE
  <2>1. PICK s \in bad : \A t \in SUBSET s : t # s => t \notin bad
    <3>1. bad \in SUBSET SUBSET S
      OBVIOUS
    <3>. HIDE DEF bad
    <3>. QED
      BY <1>1, <1>4, <3>1, SmallestSubset
  <2>2. CASE s = {}
    <3>1. Mirror(n, s) = {}
      BY <2>2 DEF Mirror
    <3>. QED
      BY <1>2, <1>3, <2>1, <2>2, <3>1
  <2>3. CASE s # {}
    <3>1. PICK i \in s : TRUE
      BY <2>3
    <3>. DEFINE j == n - i + 1
                t == s \ {i}
    <3>2. i \in S /\ j \in S /\ back[i] = events[j] /\ n - j + 1 = i
      BY <1>1, <2>1 DEF S
    <3>3. Mirror(n, s) \in SUBSET S /\ j \in Mirror(n, s)
      BY <3>1, <3>2 DEF Mirror, S
    <3>4. Mirror(n, t) = Mirror(n, s) \ {j}
      BY <1>1, <3>2 DEF Mirror, S
    <3>. HIDE DEF j
    <3>5. h[s] = Risk(back[i]) + h[t]
      BY <1>3, <2>1
    <3>6. g[Mirror(n, s)] = Risk(events[j]) + g[Mirror(n, t)]
      BY <1>2, <3>3, <3>4
    <3>7. h[t] = g[Mirror(n, t)]
      BY <2>1, <3>1
    <3>. QED
      BY <2>1, <3>2, <3>5, <3>6, <3>7
  <2>. QED
    BY <2>2, <2>3
<1>5. h[S] = g[Mirror(n, S)]
  BY <1>4
<1>6. Mirror(n, S) = S
  BY <1>1 DEF Mirror, S
<1>7. RiskSum(events) = g[S] /\ RiskSum(back) = h[S]
  BY <1>1, RiskSumIsTotal DEF g, h
<1>. QED
  BY <1>5, <1>6, <1>7 DEF back

\* Nothing that a batch is scored by depends on its order.
LEMMA ReverseScores ==
    ASSUME NEW events \in Seq(Findings), NEW policy
    PROVE  /\ ScoreEvents(Reverse(events)) = ScoreEvents(events)
           /\ MatchesKnownBadHash(Reverse(events), policy) = MatchesKnownBadHash(events, policy)
<1>. DEFINE back == Reverse(events)
            n == Len(events)
<1>1. /\ Len(back) = n /\ DOMAIN back = DOMAIN events
      /\ \A i \in DOMAIN events : n - i + 1 \in DOMAIN events
      /\ \A i \in DOMAIN events : back[i] = events[n - i + 1]
      /\ \A i \in DOMAIN events : n - (n - i + 1) + 1 = i
      /\ back \in Seq(Findings) /\ n \in Nat
  BY ReverseFacts
<1>2. \A i \in DOMAIN events : events[i] = back[n - i + 1]
  BY <1>1
<1>3. RiskSum(back) = RiskSum(events)
  BY ReverseSum
<1>. HIDE DEF back, n
<1>4. {Risk(back[i]) : i \in DOMAIN back} = {Risk(events[i]) : i \in DOMAIN events}
  BY <1>1, <1>2
<1>5. {back[i].category : i \in DOMAIN back} = {events[i].category : i \in DOMAIN events}
  BY <1>1, <1>2
<1>6. MatchesKnownBadHash(back, policy) = MatchesKnownBadHash(events, policy)
  BY <1>1, <1>2 DEF MatchesKnownBadHash
<1>7. back = << >> <=> events = << >>
  BY <1>1 DEF n
<1>8. \A e : ScoreEvents(e) =
         [ peak       |-> Max({0} \cup {Risk(e[i]) : i \in DOMAIN e}),
           average    |-> IF e = << >> THEN 0 ELSE RiskSum(e) \div Len(e),
           categories |-> {e[i].category : i \in DOMAIN e} \ {""} ]
  BY DEF ScoreEvents, RiskSum
<1>9. Len(back) = Len(events)
  BY <1>1 DEF n
<1>10. ScoreEvents(back) = ScoreEvents(events)
  BY <1>3, <1>4, <1>5, <1>7, <1>8, <1>9, Zenon
<1>. QED
  BY <1>6, <1>10 DEF back

\* The order of the findings of a batch changes no decision (decide.rs:30, 160).
THEOREM OrderDoesNotMatter == StreamSpec => []OrderInBatchIrrelevant
<1>1. OrderInBatchIrrelevant
  <2>1. SUFFICES ASSUME NEW batch \in Batches, NEW policy \in Policies
                 PROVE  BuildDecision(session, Reverse(batch), policy, decision)
                          = BuildDecision(session, batch, policy, decision)
    BY DEF OrderInBatchIrrelevant
  <2>2. batch \in Seq(Findings)
    BY DecisionStreamAssumption
  <2>3. /\ ScoreEvents(Reverse(batch)) = ScoreEvents(batch)
        /\ MatchesKnownBadHash(Reverse(batch), policy) = MatchesKnownBadHash(batch, policy)
        /\ Len(Reverse(batch)) = Len(batch)
    BY <2>2, ReverseScores, ReverseFacts
  <2>. QED
    BY <2>3, Zenon DEF BuildDecision, ApplyKnownBadHashBoost
<1>. QED
  BY <1>1, PTL
================================================================================
