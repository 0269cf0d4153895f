-------------------------- MODULE CoreCycleProofs --------------------------
(***************************************************************************)
(* For any scanners, scores, settings and bounds: the core terminates a    *)
(* process by the evidence window only on what was found in that process.  *)
(*                                                                         *)
(* The property speaks of one step; it follows from an invariant that ties *)
(* the window to the process: a bound window is bound to the target, its   *)
(* samples come from the process that has the target's identifier now, and *)
(* the cycles it counts were scans of that process.                        *)
(*                                                                         *)
(* And every state is well typed, which takes a bound on what a cycle      *)
(* finds: a finite set of scores has a greatest.                           *)
(***************************************************************************)
EXTENDS CoreCycle, FiniteSetTheorems, WellFoundedInduction, TLAPS

Shape ==
    /\ procs \in [Pids -> Processes \union {None}]
    /\ started \in 0..MaxStarts
    /\ target \in Pids \union {None}
    /\ onTarget \in 0..Settle
    /\ pc \in {"scan", "judge"} => target # None

\* The window is empty or bound to the target.
BoundInv ==
    \/ bound = None /\ samples = {} /\ onTarget = 0
    \/ bound = target /\ target # None

\* Its samples are of the process that is running there, taken after it settled.
OwnInv ==
    target # None /\ procs[target] # None =>
        \A s \in samples : /\ s.from.id = procs[target].id
                           /\ s.from.scans >= Settle

\* No cycle is counted that was not a cycle of this process.
CountInv ==
    target # None /\ procs[target] # None =>
        /\ onTarget <= procs[target].scans
        /\ pc = "judge" => Counted <= procs[target].scans

IInv == Shape /\ BoundInv /\ OwnInv /\ CountInv

-----------------------------------------------------------------------------
\* Counting up to Settle stays within it and is monotonic.
LEMMA UpToSettleFacts ==
    ASSUME NEW m \in Nat, NEW n \in Nat, m <= n
    PROVE  /\ UpToSettle(n) \in 0..Settle
           /\ UpToSettle(m) <= UpToSettle(n)
           /\ n <= Settle => n <= UpToSettle(n + 1)
BY CoreCycleAssumption DEF UpToSettle

\* At first nothing is bound.
LEMMA InitIInv == Init => IInv
<1>. SUFFICES ASSUME Init PROVE IInv
  OBVIOUS
<1>1. Shape
  BY CoreCycleAssumption DEF Init, Shape
<1>2. BoundInv
  BY DEF Init, BoundInv
<1>3. OwnInv /\ CountInv
  BY DEF Init, OwnInv, CountInv
<1>. QED
  BY <1>1, <1>2, <1>3 DEF IInv

\* The steps of the surroundings leave the core alone, and never put another
\* process where the core holds one.
LEMMA SurroundingsIInv ==
    ASSUME IInv, Surroundings
    PROVE  IInv'
<1>. USE CoreCycleAssumption DEF IInv
<1>1. ASSUME NEW p \in Pids, NEW cheats \in SUBSET Scanners, Start(p, cheats)
      PROVE  IInv'
  <2>1. Shape'
    <3>1. started + 1 \in 1..MaxStarts /\ 0 \in 0..Settle
      BY <1>1 DEF Start, Shape
    <3>2. [id |-> started + 1, cheats |-> cheats, scans |-> 0] \in Processes
      BY <3>1 DEF Processes
    <3>. QED
      BY <1>1, <3>1, <3>2 DEF Start, Shape, evidence
  <2>2. target # None => procs'[target] = procs[target]
    BY <1>1 DEF Start, Shape
  <2>3. OwnInv' /\ CountInv' /\ BoundInv'
    BY <1>1, <2>2 DEF Start, OwnInv, CountInv, BoundInv, evidence, Counted
  <2>. QED
    BY <2>1, <2>3
<1>2. ASSUME NEW p \in Pids, Exit(p)
      PROVE  IInv'
  <2>1. Shape'
    BY <1>2 DEF Exit, Shape, evidence
  <2>2. target # None /\ procs'[target] # None => procs'[target] = procs[target]
    BY <1>2 DEF Exit, Shape
  <2>3. OwnInv' /\ CountInv' /\ BoundInv'
    BY <1>2, <2>2 DEF Exit, OwnInv, CountInv, BoundInv, evidence, Counted
  <2>. QED
    BY <2>1, <2>3
<1>3. ASSUME NEW p \in Pids, NEW s \in Scanners, Toggle(p, s)
      PROVE  IInv'
  <2>1. procs[p] \in Processes
    BY <1>3 DEF Toggle, Shape
  <2>2. PICK c \in SUBSET Scanners : procs' = [procs EXCEPT ![p].cheats = c]
    BY <1>3, <2>1 DEF Toggle, Shape, Processes
  <2>3. Shape'
    BY <1>3, <2>1, <2>2 DEF Toggle, Shape, Processes, evidence
  <2>4. target # None /\ procs'[target] # None =>
            /\ procs[target] # None
            /\ procs'[target].id = procs[target].id
            /\ procs'[target].scans = procs[target].scans
    BY <1>3, <2>1, <2>2 DEF Toggle, Shape, Processes
  <2>5. OwnInv' /\ CountInv' /\ BoundInv'
    BY <1>3, <2>4 DEF Toggle, OwnInv, CountInv, BoundInv, evidence, Counted
  <2>. QED
    BY <2>3, <2>5
<1>4. ASSUME NEW c \in Contents, Edit(c)
      PROVE  IInv'
  BY <1>4 DEF Edit, Shape, OwnInv, CountInv, BoundInv, evidence, Counted
<1>. QED
  BY <1>1, <1>2, <1>3, <1>4 DEF Surroundings

\* The steps before the scan keep the window or empty it.
LEMMA LoopIInv ==
    ASSUME IInv,
           KeepConfig \/ ReadConfig \/ SwapConfig \/ Acquire \/ Probe \/ Lost
    PROVE  IInv'
<1>. USE CoreCycleAssumption DEF IInv, env, evidence
<1>1. CASE KeepConfig \/ ReadConfig \/ SwapConfig \/ Probe
  <2>1. Shape'
    BY <1>1 DEF KeepConfig, ReadConfig, SwapConfig, Probe, Shape
  <2>2. OwnInv' /\ CountInv' /\ BoundInv'
    BY <1>1 DEF KeepConfig, ReadConfig, SwapConfig, Probe, OwnInv, CountInv,
                BoundInv, Counted
  <2>. QED
    BY <2>1, <2>2
<1>2. CASE Acquire
  <2>1. Shape'
    BY <1>2 DEF Acquire, Shape
  <2>2. bound = None /\ samples = {} /\ onTarget = 0
    BY <1>2 DEF Acquire, BoundInv
  <2>3. target' # None /\ procs[target'] # None => procs[target'].scans \in Nat
    BY <1>2 DEF Acquire, Shape, Processes
  <2>. QED
    BY <1>2, <2>1, <2>2, <2>3 DEF Acquire, OwnInv, CountInv, BoundInv
<1>3. CASE Lost
  <2>1. Shape'
    BY <1>3 DEF Lost, ResetEvidence, Shape
  <2>. QED
    BY <1>3, <2>1 DEF Lost, ResetEvidence, OwnInv, CountInv, BoundInv
<1>. QED
  BY <1>1, <1>2, <1>3

\* A cycle counts for the process before it counts for the window.
LEMMA ScanIInv ==
    ASSUME IInv, Scan \/ ScanNothing
    PROVE  IInv'
<1>. USE CoreCycleAssumption DEF IInv, evidence
<1>1. Count /\ pc = "scan" /\ target \in Pids /\ target # None
  BY DEF Scan, ScanNothing, Shape
<1>2. CASE procs[target] = None
  <2>1. procs' = procs
    BY <1>1, <1>2 DEF Count
  <2>. QED
    BY <1>1, <1>2, <2>1 DEF Count, Shape, OwnInv, CountInv, BoundInv
<1>3. CASE procs[target] # None
  <2>. DEFINE n == procs[target].scans
  <2>1. procs[target] \in Processes /\ n \in 0..Settle
    BY <1>1, <1>3 DEF Shape, Processes
  <2>2. procs' = [procs EXCEPT ![target].scans = UpToSettle(n + 1)]
    BY <1>1, <1>3, <2>1 DEF Count, Shape
  <2>3. UpToSettle(n + 1) \in 0..Settle /\ n <= UpToSettle(n + 1)
    BY <2>1, UpToSettleFacts DEF UpToSettle
  <2>4. Shape'
    BY <1>1, <2>1, <2>2, <2>3 DEF Count, Shape, Processes
  <2>5. /\ procs'[target].id = procs[target].id
        /\ procs'[target].scans = UpToSettle(n + 1)
    BY <1>1, <2>1, <2>2 DEF Shape, Processes
  <2>6. OwnInv' /\ BoundInv'
    BY <1>1, <1>3, <2>5 DEF Count, OwnInv, BoundInv
  <2>7. onTarget \in Nat /\ onTarget <= n
    BY <1>1, <1>3 DEF Shape, CountInv
  <2>8. Counted <= UpToSettle(n + 1)
    BY <2>1, <2>7 DEF Counted, UpToSettle
  <2>9. CountInv'
    BY <1>1, <2>1, <2>3, <2>5, <2>7, <2>8 DEF Count, CountInv, Counted
  <2>. QED
    BY <2>4, <2>6, <2>9
<1>. QED
  BY <1>2, <1>3

\* What Push leaves is of the process at hand, taken after it settled.
LEMMA PushOwn ==
    ASSUME IInv, pc = "judge", procs[target] # None
    PROVE  /\ Counted \in 0..Settle
           /\ Counted <= procs[target].scans
           /\ \A s \in Push : /\ s.from.id = procs[target].id
                              /\ s.from.scans >= Settle
<1>. USE CoreCycleAssumption DEF IInv
<1>1. target # None /\ procs[target] \in Processes
  BY DEF Shape
<1>2. procs[target].scans \in 0..Settle
  BY <1>1 DEF Processes
<1>3. Counted \in 0..Settle /\ Counted <= procs[target].scans
  BY <1>1 DEF Counted, UpToSettle, Shape, CountInv
<1>4. \A s \in samples : /\ s.from.id = procs[target].id
                         /\ s.from.scans >= Settle
  BY <1>1 DEF OwnInv
<1>5. Counted >= Settle => procs[target].scans >= Settle
  BY <1>2, <1>3
<1>6. Origin.id = procs[target].id /\ Origin.scans = procs[target].scans
  BY DEF Origin
<1>. QED
  BY <1>2, <1>3, <1>4, <1>5, <1>6 DEF Push, Recent

\* Judging adds such a sample, or empties the window with the target.
LEMMA JudgeIInv ==
    ASSUME IInv, Spare \/ Terminate \/ TerminateFails \/ Sleep
    PROVE  IInv'
<1>. USE CoreCycleAssumption DEF IInv, env, evidence
<1>1. CASE Spare \/ TerminateFails
  <2>1. /\ pc = "judge" /\ pc' = "sleep" /\ target # None
        /\ UNCHANGED <<procs, started, target>>
        /\ samples' = Recent(Push) /\ bound' = target /\ onTarget' = Counted
    BY <1>1 DEF Spare, TerminateFails, Judged, Shape
  <2>2. Counted \in 0..Settle
    BY DEF Counted, UpToSettle, Shape
  <2>3. Shape' /\ BoundInv'
    BY <2>1, <2>2 DEF Shape, BoundInv
  <2>4. OwnInv' /\ CountInv'
    <3>1. CASE procs[target] # None
      BY <2>1, <3>1, PushOwn DEF OwnInv, CountInv, Recent
    <3>2. CASE procs[target] = None
      BY <2>1, <3>2 DEF OwnInv, CountInv
    <3>. QED
      BY <3>1, <3>2
  <2>. QED
    BY <2>3, <2>4
<1>2. CASE Terminate
  <2>1. Shape'
    BY <1>2 DEF Terminate, Judged, ResetEvidence, Shape
  <2>. QED
    BY <1>2, <2>1 DEF Terminate, Judged, ResetEvidence, OwnInv, CountInv, BoundInv
<1>3. CASE Sleep
  <2>1. Shape' /\ BoundInv' /\ CountInv'
    BY <1>3 DEF Sleep, Shape, BoundInv, CountInv
  <2>2. OwnInv'
    BY <1>3 DEF Sleep, OwnInv
  <2>. QED
    BY <2>1, <2>2
<1>. QED
  BY <1>1, <1>2, <1>3

\* The invariant is inductive.
LEMMA NextIInv == IInv /\ [Next]_vars => IInv'
<1>. SUFFICES ASSUME IInv, [Next]_vars PROVE IInv'
  OBVIOUS
<1>1. CASE Core
  BY <1>1, LoopIInv, ScanIInv, JudgeIInv DEF Core
<1>2. CASE Surroundings
  BY <1>2, SurroundingsIInv
<1>3. CASE UNCHANGED vars
  BY <1>3 DEF vars, IInv, Shape, BoundInv, OwnInv, CountInv, Counted
<1>. QED
  BY <1>1, <1>2, <1>3 DEF Next

\* A step that kills by the window judges by proper samples alone.
LEMMA KillIsProper ==
    ASSUME IInv, [Next]_vars, CoreKills, loaded.gated
    PROVE  ShouldEnforce(Proper(target))
<1>1. Terminate
  <2>1. CASE Core
    BY <2>1 DEF CoreKills, Core, KeepConfig, ReadConfig, SwapConfig, Acquire,
                Probe, Lost, Scan, ScanNothing, Spare, TerminateFails, Sleep
  <2>2. CASE Surroundings
    BY <2>2 DEF CoreKills, Surroundings, Start, Exit, Toggle, Edit
  <2>3. CASE UNCHANGED vars
    BY <2>3 DEF CoreKills, vars
  <2>. QED
    BY <2>1, <2>2, <2>3 DEF Next
<1>2. procs[target] # None /\ pc = "judge" /\ ShouldEnforce(Recent(Push))
  BY <1>1 DEF Terminate, Judged, Convicted, CoreKills
<1>3. Proper(target) = Recent(Push)
  BY <1>2, PushOwn DEF Proper, Recent
<1>. QED
  BY <1>2, <1>3

\* The invariant holds throughout.
THEOREM Bound == Spec => []IInv
<1>. QED
  BY InitIInv, NextIInv, PTL DEF Spec

\* With the evidence window on, a process is terminated only on recent
\* samples of that very process, taken after it had settled.
THEOREM OnlyOwnEvidence == Spec => EnforcedOnEvidence
<1>1. IInv /\ [Next]_vars =>
          [CoreKills /\ loaded.gated => ShouldEnforce(Proper(target))]_vars
  BY KillIsProper
<1>. QED
  BY <1>1, Bound, PTL DEF Spec, EnforcedOnEvidence

-----------------------------------------------------------------------------
(* The state stays well typed, and no sample grows older than its window    *)
(* allows before it is dropped.                                            *)

\* Among natural numbers there is a least.
LEMMA LeastNumber ==
    ASSUME NEW T \in SUBSET Nat, T # {}
    PROVE  \E m \in T : \A k \in T : m <= k
<1> DEFINE Less == {p \in Nat \X Nat : p[1] < p[2]}
<1>1. IsWellFoundedOn(Less, Nat)
  <2>1. Less = OpToRel(<, Nat)
    BY DEF OpToRel
  <2>. QED
    BY <2>1, NatLessThanWellFounded
<1>2. PICK m \in T : \A k \in T : ~(<<k, m>> \in Less)
  <2>. HIDE DEF Less
  <2>. QED
    BY <1>1, WFMin
<1>3. ASSUME NEW k \in T PROVE m <= k
  <2>1. <<k, m>> \notin Less /\ k \in Nat /\ m \in Nat
    BY <1>2
  <2>2. ~(k < m)
    BY <2>1
  <2>. QED
    BY <2>1, <2>2
<1>. QED
  BY <1>3

\* A finite set of numbers has a bound.
LEMMA FiniteIsBounded ==
    ASSUME NEW T \in SUBSET Nat, IsFiniteSet(T)
    PROVE  \E n \in Nat : \A t \in T : t <= n
<1> DEFINE Bounded(S) == \E n \in Nat : \A t \in S : t <= n
           Sizes == {k \in Nat : \E S \in SUBSET T : Cardinality(S) = k /\ ~Bounded(S)}
<1>1. SUFFICES ASSUME ~Bounded(T) PROVE FALSE
  OBVIOUS
<1>2. Cardinality(T) \in Sizes
  BY <1>1, FS_CardinalityType
<1>3. PICK k \in Sizes : \A j \in Sizes : k <= j
  <2>1. Sizes \in SUBSET Nat /\ Sizes # {}
    BY <1>2
  <2>. HIDE DEF Sizes
  <2>. QED
    BY <2>1, LeastNumber
<1>4. PICK S \in SUBSET T : Cardinality(S) = k /\ ~Bounded(S)
  OBVIOUS
<1>5. PICK x \in S : TRUE
  BY <1>4
<1>6. Cardinality(S \ {x}) = k - 1 /\ k - 1 \in Nat
  <2>1. IsFiniteSet(S)
    BY FS_Subset
  <2>2. Cardinality(S \ {x}) = Cardinality(S) - 1
    BY <1>5, <2>1, FS_RemoveElement
  <2>3. Cardinality(S \ {x}) \in Nat
    BY <2>1, FS_Subset, FS_CardinalityType
  <2>. QED
    BY <1>4, <2>2, <2>3
<1>7. Bounded(S \ {x})
  <2>1. k - 1 \notin Sizes
    BY <1>3
  <2>. QED
    BY <1>6, <2>1
<1>8. PICK n \in Nat : \A t \in S \ {x} : t <= n
  BY <1>7
<1>9. Bounded(S)
  <2>1. CASE x <= n
    BY <1>8, <2>1
  <2>2. CASE ~(x <= n)
    <3>1. x \in Nat /\ \A t \in S : t <= x
      BY <1>8, <2>2
    <3>. QED
      BY <3>1
  <2>. QED
    BY <2>1, <2>2
<1>. QED
  BY <1>4, <1>9

\* A finite set of numbers that is not empty has a greatest.
LEMMA MaxOfFinite ==
    ASSUME NEW T \in SUBSET Nat, IsFiniteSet(T), T # {}
    PROVE  Max(T) \in T
<1> DEFINE Bounds == {m \in Nat : \A t \in T : t <= m}
<1>1. Bounds \in SUBSET Nat /\ Bounds # {}
  BY FiniteIsBounded
<1>2. PICK m \in Bounds : \A k \in Bounds : m <= k
  <2>. HIDE DEF Bounds
  <2>. QED
    BY <1>1, LeastNumber
<1>3. m \in T
  <2>1. SUFFICES ASSUME m \notin T PROVE FALSE
    OBVIOUS
  <2>2. PICK t \in T : TRUE
    OBVIOUS
  <2>3. m - 1 \in Nat /\ \A u \in T : u <= m - 1
    BY <1>2, <2>1, <2>2
  <2>4. m - 1 \in Bounds
    BY <2>3
  <2>. QED
    BY <1>2, <2>4
<1>4. \E x \in T : \A y \in T : x >= y
  BY <1>2, <1>3
<1>. QED
  BY <1>4 DEF Max

\* There are finitely many scanners.
LEMMA FiniteScanners == IsFiniteSet(Scanners)
<1>1. ASSUME NEW a, NEW b, NEW c, NEW d, NEW e, NEW S, IsFiniteSet(S)
      PROVE  IsFiniteSet(S \union {a, b, c, d, e})
  <2>1. IsFiniteSet(S \union {a})
    BY <1>1, FS_AddElement
  <2>2. IsFiniteSet((S \union {a}) \union {b})
    BY <2>1, FS_AddElement
  <2>3. IsFiniteSet(((S \union {a}) \union {b}) \union {c})
    BY <2>2, FS_AddElement
  <2>4. IsFiniteSet((((S \union {a}) \union {b}) \union {c}) \union {d})
    BY <2>3, FS_AddElement
  <2>5. IsFiniteSet(((((S \union {a}) \union {b}) \union {c}) \union {d}) \union {e})
    BY <2>4, FS_AddElement
  <2>6. S \union {a, b, c, d, e} =
          ((((S \union {a}) \union {b}) \union {c}) \union {d}) \union {e}
    OBVIOUS
  <2>. QED
    BY <2>5, <2>6
<1> DEFINE A == {"target", "baseline", "lifetime", "modules", "overlays"}
           B == {"debugger", "threads", "hooks", "inline_hooks", "manual_maps"}
           C == {"handles", "regions", "watched", "devices", "image"}
           D == {"artifacts", "services", "timing", "privileges", "eat_hooks"}
           E == {"pipes", "syscall_stubs", "hollowing", "mitigations", "stealth"}
           F == {"writable_image", "persistence", "ports", "etw", "exception"}
           G == {"hosts", "token", "connections", "hosts", "hosts"}
<1>2. DOMAIN Schedule = A \union B \union C \union D \union E \union F \union G
  BY DEF Schedule
<1>3. IsFiniteSet(A)
  <2>1. IsFiniteSet({} \union A)
    BY <1>1, FS_EmptySet
  <2>. QED
    BY <2>1
<1>. HIDE DEF A
<1>4. IsFiniteSet(A \union B)
  BY <1>1, <1>3
<1>5. IsFiniteSet(A \union B \union C)
  BY <1>1, <1>4
<1>6. IsFiniteSet(A \union B \union C \union D)
  BY <1>1, <1>5
<1>7. IsFiniteSet(A \union B \union C \union D \union E)
  BY <1>1, <1>6
<1>8. IsFiniteSet(A \union B \union C \union D \union E \union F)
  BY <1>1, <1>7
<1>9. IsFiniteSet(A \union B \union C \union D \union E \union F \union G)
  BY <1>1, <1>8
<1>. HIDE DEF B, C, D, E, F, G
<1>10. Scanners \subseteq DOMAIN Schedule
  BY CoreCycleAssumption
<1>11. IsFiniteSet(DOMAIN Schedule)
  BY <1>2, <1>9
<1>. QED
  BY <1>10, <1>11, FS_Subset

\* The highest risk of a cycle is that of a scanner, or zero.
LEMMA HighestIsRisk ==
    ASSUME NEW S \in SUBSET Scanners
    PROVE  Max({0} \union {Risk[s] : s \in S}) \in {0} \union {Risk[s] : s \in Scanners}
<1> DEFINE T == {Risk[s] : s \in S}
           f == [s \in S |-> Risk[s]]
<1>1. IsFiniteSet(S)
  BY FiniteScanners, FS_Subset
<1>2. f \in Surjection(S, T)
  BY DEF Surjection
<1>3. IsFiniteSet(T)
  <2>. HIDE DEF T, f
  <2>. QED
    BY <1>1, <1>2, FS_Surjection
<1>4. IsFiniteSet({0} \union T)
  <2>. HIDE DEF T
  <2>1. IsFiniteSet(T \union {0})
    BY <1>3, FS_AddElement
  <2>2. T \union {0} = {0} \union T
    OBVIOUS
  <2>. QED
    BY <2>1, <2>2
<1>5. {0} \union T \in SUBSET Nat /\ {0} \union T # {}
  BY CoreCycleAssumption
<1>6. Max({0} \union T) \in {0} \union T
  <2>. HIDE DEF T
  <2>. QED
    BY <1>4, <1>5, MaxOfFinite
<1>. QED
  BY <1>6

\* What the risks and the samples of this instance may be.
Risks == {0} \union {Risk[s] : s \in Scanners}

Samples == [age : 0..Window + 1, risk : Risks, from : [id : 0..MaxStarts, scans : 0..Settle]]

\* Who is about to sleep has dropped what is too old, or holds nothing.
FreshInv == pc = "sleep" => \A s \in samples : s.age <= Window

TypeInv == TypeOK /\ FreshInv

\* The cycle count stays below the common multiple of the periods.
LEMMA NextCycle ==
    ASSUME NEW n \in Nat
    PROVE  n % Turn \in 0..Turn - 1
BY CoreCycleAssumption

\* At first the state is well typed.
LEMMA InitType == Init => TypeInv
<1>. SUFFICES ASSUME Init PROVE TypeInv
  OBVIOUS
<1>1. file \in [content : Contents, time : 1..MaxEdits + 1, raced : BOOLEAN]
      /\ loaded \in Settings
      /\ stamp \in 0..MaxEdits + 1
  <2>1. 1 \in 1..MaxEdits + 1 /\ FALSE \in BOOLEAN
    BY CoreCycleAssumption
  <2>2. file \in [content : Contents, time : 1..MaxEdits + 1, raced : BOOLEAN]
    BY <2>1 DEF Init
  <2>3. loaded \in Settings
    BY DEF Init, Settings, Defaults
  <2>. QED
    BY <2>1, <2>2, <2>3, CoreCycleAssumption DEF Init
<1>2. read \in Contents /\ 0 \in 0..Turn - 1
  BY CoreCycleAssumption DEF Init, Contents
<1>. QED
  BY <1>1, <1>2, CoreCycleAssumption DEF Init, TypeInv, TypeOK, FreshInv

\* The surroundings start processes, load cheats and edit the file within their bounds.
LEMMA SurroundingsType ==
    ASSUME TypeInv, Shape', Surroundings
    PROVE  TypeInv'
<1>. USE CoreCycleAssumption DEF TypeInv, FreshInv, Shape
<1>1. CASE \E c \in Contents : Edit(c)
  <2>1. PICK c \in Contents : Edit(c)
    BY <1>1
  <2>2. file' \in [content : Contents, time : 1..MaxEdits + 1, raced : BOOLEAN]
    BY <2>1 DEF Edit, TypeOK
  <2>. QED
    BY <2>1, <2>2 DEF Edit, TypeOK, config, evidence
<1>2. CASE UNCHANGED <<file, config, pc, cycle, risk, evidence, faults>>
  BY <1>2 DEF TypeOK, config, evidence
<1>. QED
  BY <1>1, <1>2 DEF Surroundings, Start, Exit, Toggle

\* The configuration in force is one that was read, and its stamp a time of the file.
LEMMA LoopType ==
    ASSUME TypeInv, BoundInv, Shape',
           KeepConfig \/ ReadConfig \/ SwapConfig \/ Acquire \/ Probe \/ Lost
    PROVE  TypeInv'
<1>. USE CoreCycleAssumption DEF TypeInv, FreshInv, Shape, env, config, evidence
<1>1. CASE KeepConfig \/ Probe
  BY <1>1 DEF KeepConfig, Probe, TypeOK
<1>2. CASE ReadConfig
  BY <1>2 DEF ReadConfig, TypeOK
<1>3. CASE SwapConfig
  <2>1. loaded' \in Settings /\ stamp' \in 0..MaxEdits + 1
    BY <1>3 DEF SwapConfig, TypeOK
  <2>2. read' \in Contents
    BY <1>3 DEF SwapConfig, Contents
  <2>. QED
    BY <1>3, <2>1, <2>2 DEF SwapConfig, TypeOK
<1>4. CASE Acquire
  <2>1. samples = {}
    BY <1>4 DEF Acquire, BoundInv
  <2>. QED
    BY <1>4, <2>1 DEF Acquire, TypeOK
<1>5. CASE Lost
  BY <1>5 DEF Lost, ResetEvidence, TypeOK
<1>. QED
  BY <1>1, <1>2, <1>3, <1>4, <1>5

\* A cycle reports a risk of its scanners.
LEMMA ScanType ==
    ASSUME TypeInv, Shape, Shape', Scan \/ ScanNothing
    PROVE  TypeInv'
<1>. USE CoreCycleAssumption DEF TypeInv, FreshInv, config, evidence
<1>1. /\ pc = "scan" /\ pc' = "judge" /\ cycle' = (cycle + 1) % Turn
      /\ UNCHANGED <<file, config, evidence>>
  BY DEF Scan, ScanNothing, Count
<1>2. cycle' \in 0..Turn - 1
  <2>1. cycle + 1 \in Nat
    BY DEF TypeOK
  <2>. QED
    BY <1>1, <2>1, NextCycle
<1>3. risk' \in Risks /\ faults' \in 0..MaxFaults
  <2>1. CASE Scan
    <3>1. procs[target] \in Processes
      BY <2>1 DEF Scan, Shape
    <3>2. {t \in procs[target].cheats : Due(t, cycle')} \in SUBSET Scanners
      BY <3>1 DEF Processes
    <3>3. HighestRisk(target, cycle') \in Risks
      BY <3>2, HighestIsRisk DEF HighestRisk, Risks
    <3>. QED
      BY <2>1, <3>3 DEF Scan, TypeOK
  <2>2. CASE ScanNothing
    BY <2>2 DEF ScanNothing, Risks, TypeOK
  <2>. QED
    BY <2>1, <2>2
<1>. QED
  BY <1>1, <1>2, <1>3 DEF TypeOK, Risks, Shape

\* Judging takes a sample of the cycle, and sleeping makes those that are left older.
LEMMA JudgeType ==
    ASSUME TypeInv, Shape, Shape', BoundInv', Spare \/ Terminate \/ TerminateFails \/ Sleep
    PROVE  TypeInv'
<1>. USE CoreCycleAssumption DEF TypeInv, FreshInv, env, config, evidence
<1>1. samples \subseteq Samples /\ risk \in Risks
  BY DEF TypeOK, Samples, Risks
<1>2. CASE Spare \/ TerminateFails
  <2>1. /\ pc = "judge" /\ pc' = "sleep" /\ risk' = 0 /\ target \in Pids
        /\ UNCHANGED <<file, config, cycle>>
        /\ samples' = Recent(Push) /\ bound' = target
        /\ faults' \in 0..MaxFaults
    BY <1>2 DEF Spare, TerminateFails, Judged, Shape, TypeOK
  <2>2. Origin \in [id : 0..MaxStarts, scans : 0..Settle]
    BY <2>1 DEF Origin, Shape, Processes
  <2>3. [age |-> 0, risk |-> risk, from |-> Origin] \in Samples
    BY <1>1, <2>2 DEF Samples
  <2>4. Push \subseteq Samples
    BY <1>1, <2>3 DEF Push, Recent
  <2>5. samples' \subseteq Samples /\ \A s \in samples' : s.age <= Window
    BY <2>1, <2>4 DEF Recent
  <2>. QED
    BY <2>1, <2>5 DEF TypeOK, Samples, Risks, Shape
<1>3. CASE Terminate
  BY <1>3 DEF Terminate, Judged, ResetEvidence, TypeOK, Shape
<1>4. CASE Sleep
  <2>1. pc = "sleep" /\ pc' = "top" /\ UNCHANGED <<file, config, cycle, risk, bound, faults>>
    BY <1>4 DEF Sleep
  <2>2. ASSUME NEW s \in samples
        PROVE  [age |-> s.age + 1, risk |-> s.risk, from |-> s.from] \in Samples
    BY <1>1, <2>1 DEF Samples
  <2>3. samples' \subseteq Samples
    BY <1>4, <2>2 DEF Sleep
  <2>. QED
    BY <2>1, <2>3 DEF TypeOK, Samples, Risks, Shape
<1>. QED
  BY <1>2, <1>3, <1>4

\* Every step keeps the types.
LEMMA NextType == IInv /\ TypeInv /\ [Next]_vars => TypeInv'
<1>. SUFFICES ASSUME IInv, TypeInv, [Next]_vars PROVE TypeInv'
  OBVIOUS
<1>1. Shape' /\ BoundInv'
  BY NextIInv DEF IInv
<1>2. CASE Core
  BY <1>1, <1>2, LoopType, ScanType, JudgeType DEF Core, IInv
<1>3. CASE Surroundings
  BY <1>1, <1>3, SurroundingsType
<1>4. CASE UNCHANGED vars
  BY <1>4 DEF vars, TypeInv, TypeOK, FreshInv
<1>. QED
  BY <1>2, <1>3, <1>4 DEF Next

\* The loop's variables stay within their types; in particular no sample outlives its
\* window by more than one pass, and a risk is one of the scanners' (evidence.hpp:129).
THEOREM WellTyped == Spec => []TypeOK
<1>1. TypeInv => TypeOK
  BY DEF TypeInv
<1>. QED
  BY <1>1, Bound, InitType, NextType, PTL DEF Spec
=============================================================================
