--------------------------- MODULE TrackingProofs ---------------------------
(***************************************************************************)
(* For any modules, bounds and number of games and crashes: what was once  *)
(* reported as new never enters a baseline, as long as the disk does what  *)
(* it is asked to; and the lifetime tracker reports what came since its    *)
(* last look at this very process.                                         *)
(*                                                                         *)
(* The baseline in memory is always the one in the file, and a file that   *)
(* can be loaded is never written again. Before there is one nothing can   *)
(* have been reported, since whoever reports has a baseline.               *)
(***************************************************************************)
EXTENDS Tracking, WellFoundedInduction, TLAPS

\* A game has its own module, which is what makes its baseline loadable.
GameInv ==
    game # None =>
        /\ game = [pid |-> game.pid, modules |-> game.modules,
                   regions |-> game.regions, handles |-> game.handles]
        /\ Game \in DOMAIN game.modules

\* The file holds the baseline, and nothing that was reported.
DiskInv ==
    ~DiskFaults =>
        /\ baseline # None => Loadable /\ baseline = disk
        /\ ~Loadable => reported = {}
        /\ Loadable => reported \cap DOMAIN disk = {}

IInv == GameInv /\ DiskInv

-----------------------------------------------------------------------------
\* At first there is no game, no file, and nothing was reported.
LEMMA InitIInv == Init => IInv
BY DEF Init, IInv, GameInv, DiskInv, Loadable

\* What happens to the game leaves the core's memory and the file alone, and
\* never takes the game's own module away.
LEMMA SurroundingsIInv ==
    ASSUME IInv, Surroundings
    PROVE  IInv'
<1>1. ASSUME NEW p \in Pids, Start(p) PROVE IInv'
  <2>1. GameInv'
    BY <1>1 DEF Start, GameInv
  <2>. QED
    BY <1>1, <2>1 DEF Start, core, baselining, IInv, DiskInv, Loadable
<1>2. ASSUME Exit PROVE IInv'
  BY <1>2 DEF Exit, core, baselining, IInv, GameInv, DiskInv, Loadable
<1>3. ASSUME NEW n \in Names, NEW t \in Texts, Write(n, t) PROVE IInv'
  <2>1. GameInv'
    BY <1>3 DEF Write, Change, IInv, GameInv
  <2>. QED
    BY <1>3, <2>1 DEF Write, Change, core, baselining, IInv, DiskInv, Loadable
<1>4. ASSUME NEW n \in Names, Unload(n) PROVE IInv'
  <2>1. GameInv'
    BY <1>4 DEF Unload, Change, IInv, GameInv
  <2>. QED
    BY <1>4, <2>1 DEF Unload, Change, core, baselining, IInv, DiskInv, Loadable
<1>5. ASSUME NEW r \in Regions, NEW p \in Protections, Protect(r, p)
      PROVE  IInv'
  <2>1. GameInv'
    BY <1>5 DEF Protect, Change, IInv, GameInv
  <2>. QED
    BY <1>5, <2>1 DEF Protect, Change, core, baselining, IInv, DiskInv, Loadable
<1>6. ASSUME NEW o \in Owners, NEW i \in 1..MaxHandles,
             CloseHandle(o, i) \/ \E a \in Accesses : OpenHandle(o, a, i)
      PROVE  IInv'
  <2>1. PICK h : game' = [game EXCEPT !.handles[o] = h]
    BY <1>6 DEF CloseHandle, OpenHandle
  <2>2. Change
    BY <1>6 DEF CloseHandle, OpenHandle
  <2>3. GameInv'
    BY <2>1, <2>2 DEF Change, IInv, GameInv
  <2>. QED
    BY <2>2, <2>3 DEF Change, core, baselining, IInv, DiskInv, Loadable
<1>. QED
  BY <1>1, <1>2, <1>3, <1>4, <1>5, <1>6 DEF Surroundings

\* A step that leaves baseline, file and reports alone, or gives the baseline
\* up, keeps the file in order.
LEMMA Kept ==
    ASSUME IInv, UNCHANGED <<game, disk, reported>>,
           baseline' \in {baseline, None}
    PROVE  IInv'
BY DEF IInv, GameInv, DiskInv, Loadable

\* The steps of the core keep the invariant: only three of them touch the
\* baseline's file or the reports.
LEMMA CoreIInv ==
    ASSUME IInv, Core \/ Crash
    PROVE  IInv'
<1>. USE DEF around, baselining
<1>1. CASE Acquire
  BY <1>1, Kept DEF Acquire
<1>2. CASE Lost
  BY <1>2, Kept DEF Lost, ResetSessionState
<1>3. CASE Open
  BY <1>3, Kept DEF Open
<1>4. CASE Sleep
  BY <1>4, Kept DEF Sleep
<1>5. CASE ModulesUnknown
  BY <1>5, Kept DEF ModulesUnknown, ThenLifetime, Bound
<1>6. CASE LoadBaseline
  BY <1>6 DEF LoadBaseline, ThenLifetime, IInv, GameInv, DiskInv, Loadable
<1>7. CASE CreateBaseline
  <2>. SUFFICES ASSUME ~DiskFaults PROVE IInv'
    BY <1>7 DEF CreateBaseline, ThenLifetime, IInv, GameInv, DiskInv
  <2>1. ~Loadable /\ disk' = baseline' /\ reported' = {} /\ game' = game
    BY <1>7 DEF CreateBaseline, ThenLifetime, IInv, DiskInv
  <2>2. Game \in DOMAIN game.modules
    BY <1>7 DEF CreateBaseline, Establishing, Alive, IInv, GameInv
  <2>3. DOMAIN baseline' = DOMAIN game.modules
    BY <1>7 DEF CreateBaseline, Snapshot
  <2>. QED
    BY <2>1, <2>2, <2>3 DEF IInv, GameInv, DiskInv, Loadable
<1>8. CASE Diff
  <2>1. /\ Bound = baseline /\ baseline # None /\ baseline' = baseline
        /\ UNCHANGED <<game, disk>>
        /\ reported' = reported \union Births
    BY <1>8 DEF Diff, ThenLifetime, Bound
  <2>2. Births \cap DOMAIN baseline = {}
    BY <2>1 DEF Births
  <2>. QED
    BY <2>1, <2>2 DEF IInv, GameInv, DiskInv, Loadable
<1>9. CASE ObserveRegions
  BY <1>9, Kept DEF ObserveRegions
<1>10. CASE ObserveHandles
  BY <1>10, Kept DEF ObserveHandles
<1>11. CASE HandlesUnknown
  BY <1>11, Kept DEF HandlesUnknown
<1>12. CASE Crash
  <2>1. baseline' = None /\ UNCHANGED <<game, reported>>
    BY <1>12 DEF Crash, ResetSessionState
  <2>2. CASE UNCHANGED disk
    BY <2>1, <2>2, Kept
  <2>3. CASE ~Loadable
    BY <2>1, <2>3 DEF IInv, GameInv, DiskInv
  <2>. QED
    BY <1>12, <2>2, <2>3 DEF Crash
<1>. QED
  BY <1>1, <1>2, <1>3, <1>4, <1>5, <1>6, <1>7, <1>8, <1>9, <1>10, <1>11, <1>12
     DEF Core

\* Every step keeps the invariant.
LEMMA NextIInv == IInv /\ [Next]_vars => IInv'
<1>. SUFFICES ASSUME IInv, [Next]_vars PROVE IInv'
  OBVIOUS
<1>1. CASE UNCHANGED vars
  BY <1>1, Kept DEF vars
<1>. QED
  BY <1>1, CoreIInv, SurroundingsIInv DEF Next

\* The claim of baseline.hpp:499 that a stored baseline is the reference of
\* every later session: what was reported against it stays suspicious.
THEOREM StaysReported == Spec => []NeverForgiven
<1>1. IInv => NeverForgiven
  BY DEF IInv, DiskInv, NeverForgiven
<1>. QED
  BY <1>1, InitIInv, NextIInv, PTL DEF Spec

-----------------------------------------------------------------------------
(* What the lifetime tracker remembers is what it met in this very process, *)
(* and it remembers nothing of another one.                                 *)

\* The handles of a table that ScanExternalHandles keeps.
HandlesOf(table) == {k \in Owners \X Accesses : k[2] \in Worst(k[1], table[k[1]])}

\* The memory of a game and the handles on it.
ShapeInv ==
    game # None =>
        /\ game = [pid |-> game.pid, modules |-> game.modules,
                   regions |-> game.regions, handles |-> game.handles]
        /\ game.pid \in Pids
        /\ game.handles \in [Owners -> Seq(Accesses)]

\* The tracker is bound to the target before it looks, and forgets with it.
BoundInv ==
    /\ mishaps \in Nat
    /\ pc \in {"baseline", "regions", "handles"} => target # None
    /\ pc \in {"regions", "handles"} => trackedPid = target
    /\ trackedPid \in {None, target}
    /\ trackedPid = None => regions = None /\ handles = None

\* It remembers the regions and handles it met, and that the regions were executable.
MemoryInv ==
    /\ regions = None <=> seenRegions = None
    /\ regions # None => /\ DOMAIN regions = seenRegions
                         /\ \A r \in seenRegions : regions[r].executable
    /\ handles = None <=> seenHandles = None
    /\ handles # None => /\ seenHandles \in [Owners -> Seq(Accesses)]
                         /\ handles = HandlesOf(seenHandles)

LookInv == ShapeInv /\ BoundInv /\ MemoryInv

\* At first nothing is bound and nothing was met.
LEMMA InitLook == Init => LookInv
BY DEF Init, LookInv, ShapeInv, BoundInv, MemoryInv

\* A step that leaves the tracker alone keeps what it remembers in order.
LEMMA KeptLook ==
    ASSUME LookInv, ShapeInv', mishaps' \in Nat,
           UNCHANGED <<loop, lifetime, seen>>
    PROVE  LookInv'
BY DEF LookInv, BoundInv, MemoryInv, HandlesOf, loop, lifetime, seen

\* The game's handles stay sequences of accesses.
LEMMA SurroundingsLook ==
    ASSUME LookInv, Surroundings
    PROVE  LookInv'
<1>1. UNCHANGED <<loop, lifetime, seen>> /\ mishaps' \in Nat
  BY DEF Surroundings, Start, Exit, Write, Unload, Protect, OpenHandle, CloseHandle, Change,
     core, LookInv, BoundInv
<1>2. ShapeInv'
  <2>1. ASSUME NEW p \in Pids, Start(p) PROVE ShapeInv'
    BY <2>1 DEF Start, ShapeInv
  <2>2. ASSUME Exit PROVE ShapeInv'
    BY <2>2 DEF Exit, ShapeInv
  <2>3. ASSUME NEW n \in Names, Unload(n) \/ \E t \in Texts : Write(n, t) PROVE ShapeInv'
    BY <2>3 DEF Unload, Write, Change, LookInv, ShapeInv
  <2>4. ASSUME NEW r \in Regions, NEW p \in Protections, Protect(r, p) PROVE ShapeInv'
    BY <2>4 DEF Protect, Change, LookInv, ShapeInv
  <2>5. ASSUME NEW o \in Owners, NEW i \in 1..MaxHandles, NEW a \in Accesses,
               OpenHandle(o, a, i)
        PROVE  ShapeInv'
    <3>1. InsertAt(game.handles[o], i, a) \in Seq(Accesses)
      BY <2>5 DEF OpenHandle, Change, LookInv, ShapeInv, InsertAt
    <3>. QED
      BY <2>5, <3>1 DEF OpenHandle, Change, LookInv, ShapeInv
  <2>6. ASSUME NEW o \in Owners, NEW i \in 1..MaxHandles, CloseHandle(o, i) PROVE ShapeInv'
    <3>1. RemoveAt(game.handles[o], i) \in Seq(Accesses)
      BY <2>6 DEF CloseHandle, Change, LookInv, ShapeInv, RemoveAt
    <3>. QED
      BY <2>6, <3>1 DEF CloseHandle, Change, LookInv, ShapeInv
  <2>. QED
    BY <2>1, <2>2, <2>3, <2>4, <2>5, <2>6 DEF Surroundings
<1>. QED
  BY <1>1, <1>2, KeptLook

\* Where the tracker is bound to its process again, it was bound to it already or to none.
LEMMA BindLook ==
    ASSUME LookInv, pc = "baseline", ThenLifetime, mishaps' \in Nat
    PROVE  LookInv'
<1>. USE DEF ThenLifetime, BindProcess, around, seen, LookInv
<1>1. ShapeInv'
  BY DEF ShapeInv
<1>2. target # None /\ target' = target /\ trackedPid' = target
  BY DEF BoundInv
<1>3. UNCHANGED <<regions, handles>>
  BY DEF BoundInv
<1>4. BoundInv'
  BY <1>2, <1>3 DEF BoundInv
<1>5. MemoryInv'
  BY <1>3 DEF MemoryInv, HandlesOf
<1>. QED
  BY <1>1, <1>4, <1>5

\* Where the target is given up, so is all that is known of it.
LEMMA ResetLook ==
    ASSUME LookInv, ResetSessionState, seenRegions' = None, seenHandles' = None,
           game' = game, target' = None, pc' \in {"top", "sleep"}, mishaps' \in Nat
    PROVE  LookInv'
BY DEF LookInv, ShapeInv, BoundInv, MemoryInv, ResetSessionState

\* The steps of the core.
LEMMA CoreLook ==
    ASSUME LookInv, Core \/ Crash
    PROVE  LookInv'
<1>0. /\ mishaps' \in Nat
      /\ game' = game
      /\ ShapeInv'
  <2>1. mishaps' \in Nat
    BY DEF Core, Crash, Acquire, Lost, Open, Sleep, ModulesUnknown, LoadBaseline, CreateBaseline,
       Diff, ObserveRegions, ObserveHandles, HandlesUnknown, Refused, LookInv, BoundInv
  <2>2. game' = game
    BY DEF Core, Crash, Acquire, Lost, Open, Sleep, ModulesUnknown, LoadBaseline, CreateBaseline,
       Diff, ObserveRegions, ObserveHandles, HandlesUnknown, ThenLifetime, around
  <2>. QED
    BY <2>1, <2>2 DEF LookInv, ShapeInv
<1>1. CASE Acquire
  BY <1>0, <1>1, TrackingAssumption
  DEF Acquire, lifetime, seen, LookInv, ShapeInv, BoundInv, MemoryInv, HandlesOf
<1>2. CASE Lost
  BY <1>0, <1>2, ResetLook DEF Lost
<1>3. CASE Open
  BY <1>0, <1>3 DEF Open, lifetime, seen, LookInv, BoundInv, MemoryInv, HandlesOf
<1>4. CASE Sleep
  BY <1>0, <1>4 DEF Sleep, lifetime, seen, LookInv, BoundInv, MemoryInv, HandlesOf
<1>5. CASE ModulesUnknown \/ LoadBaseline \/ CreateBaseline \/ Diff
  BY <1>0, <1>5, BindLook DEF ModulesUnknown, LoadBaseline, CreateBaseline, Diff, Establishing
<1>6. CASE ObserveRegions
  <2>1. /\ DOMAIN regions' = Suspicious /\ seenRegions' = Suspicious
        /\ regions' \in [Suspicious -> Observations] /\ Suspicious \in SUBSET Regions
    BY <1>6 DEF ObserveRegions, Suspicious, Observations
  <2>2. regions' # None /\ seenRegions' # None
    BY <2>1, NoneIsNothingSeen
  <2>3. ASSUME NEW r \in Suspicious PROVE regions'[r].executable
    <3>1. RegionRisk(game.regions[r]) >= 40
      BY DEF Suspicious
    <3>2. game.regions[r] = "rwx"
      BY <3>1 DEF RegionRisk
    <3>3. regions'[r].executable = (game.regions[r] \in {"rx", "rwx"})
      BY <1>6 DEF ObserveRegions
    <3>. QED
      BY <3>2, <3>3
  <2>4. UNCHANGED <<handles, seenHandles, trackedPid, target>> /\ pc = "regions"
        /\ pc' \in {"handles", "sleep"}
    BY <1>6 DEF ObserveRegions
  <2>5. BoundInv'
    BY <1>0, <2>4 DEF LookInv, BoundInv
  <2>6. MemoryInv'
    BY <2>1, <2>2, <2>3, <2>4 DEF LookInv, MemoryInv, HandlesOf
  <2>. QED
    BY <1>0, <2>5, <2>6 DEF LookInv
<1>7. CASE ObserveHandles
  <2>1. game # None /\ game.handles \in [Owners -> Seq(Accesses)]
    BY <1>7 DEF ObserveHandles, Alive, LookInv, ShapeInv
  <2>2. /\ handles' = HandlesOf(game.handles) /\ seenHandles' = game.handles
        /\ handles' \in SUBSET (Owners \X Accesses)
    BY <1>7 DEF ObserveHandles, ExternalHandles, HandlesOf
  <2>3. handles' # None /\ seenHandles' # None
    BY <2>1, <2>2, NoneIsNothingSeen
  <2>4. UNCHANGED <<regions, seenRegions, trackedPid, target>> /\ pc = "handles"
        /\ pc' = "sleep"
    BY <1>7 DEF ObserveHandles
  <2>5. BoundInv'
    BY <1>0, <2>4 DEF LookInv, BoundInv
  <2>6. MemoryInv'
    BY <2>1, <2>2, <2>3, <2>4 DEF LookInv, MemoryInv, HandlesOf
  <2>. QED
    BY <1>0, <2>5, <2>6 DEF LookInv
<1>8. CASE HandlesUnknown
  BY <1>0, <1>8 DEF HandlesUnknown, lifetime, seen, LookInv, BoundInv, MemoryInv, HandlesOf
<1>9. CASE Crash
  BY <1>0, <1>9, ResetLook DEF Crash
<1>. QED
  BY <1>1, <1>2, <1>3, <1>4, <1>5, <1>6, <1>7, <1>8, <1>9 DEF Core

\* Every step keeps it.
LEMMA NextLook == LookInv /\ [Next]_vars => LookInv'
<1>. SUFFICES ASSUME LookInv, [Next]_vars PROVE LookInv'
  OBVIOUS
<1>1. CASE UNCHANGED vars
  <2>1. /\ UNCHANGED <<loop, lifetime, seen>> /\ mishaps' \in Nat
        /\ ShapeInv'
    BY <1>1 DEF vars, loop, lifetime, seen, LookInv, ShapeInv, BoundInv
  <2>. QED
    BY <2>1, KeptLook
<1>. QED
  BY <1>1, CoreLook, SurroundingsLook DEF Next

\* Among natural numbers there is a least.
LEMMA LeastNumber ==
    ASSUME NEW T \in SUBSET Nat, T # {}
    PROVE  \E m \in T : \A k \in T : m <= k
<1> DEFINE Less == {p \in Nat \X Nat : p[1] < p[2]}
<1>1. IsWellFoundedOn(Less, Nat)
  <2>1. Less = OpToRel(<, Nat)
    BY DEF OpToRel
  <2>. QED
    BY <2>1, NatLessThanWellFounded
<1>2. PICK m \in T : \A k \in T : ~(<<k, m>> \in Less)
  <2>. HIDE DEF Less
  <2>. QED
    BY <1>1, WFMin
<1>3. ASSUME NEW k \in T PROVE m <= k
  <2>1. <<k, m>> \notin Less /\ k \in Nat /\ m \in Nat
    BY <1>2
  <2>2. ~(k < m)
    BY <2>1
  <2>. QED
    BY <2>1, <2>2
<1>. QED
  BY <1>3

\* Numbers up to a bound have a greatest.
LEMMA Greatest ==
    ASSUME NEW n \in Nat, NEW T \in SUBSET (1..n), T # {}
    PROVE  Max(T) \in T
<1> DEFINE Bounds == {m \in Nat : \A t \in T : t <= m}
<1>1. n \in Bounds /\ Bounds \in SUBSET Nat
  OBVIOUS
<1>2. PICK m \in Bounds : \A k \in Bounds : m <= k
  <2>. HIDE DEF Bounds
  <2>. QED
    BY <1>1, LeastNumber
<1>3. m \in T
  <2>1. SUFFICES ASSUME m \notin T PROVE FALSE
    OBVIOUS
  <2>2. PICK t \in T : TRUE
    OBVIOUS
  <2>3. m - 1 \in Nat /\ \A u \in T : u <= m - 1
    BY <1>2, <2>1, <2>2
  <2>4. m - 1 \in Bounds
    BY <2>3
  <2>. QED
    BY <1>2, <2>4
<1>4. \E x \in T : \A y \in T : x >= y
  BY <1>2, <1>3
<1>. QED
  BY <1>4 DEF Max

\* The risk of a handle is a number.
LEMMA RiskOfHandle ==
    ASSUME NEW o \in Owners, NEW a \in Accesses
    PROVE  HandleRisk(o, a) \in Int
BY TrackingAssumption DEF HandleRisk, Larger

\* A handle that is worse than all of a table is not the worst of the table.
LEMMA WorseIsNew ==
    ASSUME NEW o \in Owners, NEW table \in Seq(Accesses), NEW a \in Accesses,
           \A i \in DOMAIN table : HandleRisk(o, table[i]) < HandleRisk(o, a)
    PROVE  a \notin Worst(o, table)
<1> DEFINE top == {i \in DOMAIN table :
                     /\ HandleRisk(o, table[i]) >= 20
                     /\ \A j \in DOMAIN table :
                            HandleRisk(o, table[j]) <= HandleRisk(o, table[i])}
<1>1. Worst(o, table) = IF top = {} THEN {} ELSE {table[Max(top)]}
  BY DEF Worst
<1>2. ASSUME top # {} PROVE table[Max(top)] # a
  <2>1. Len(table) \in Nat /\ top \in SUBSET (1..Len(table))
    OBVIOUS
  <2>2. Max(top) \in top
    BY <1>2, <2>1, Greatest
  <2>3. HandleRisk(o, table[Max(top)]) < HandleRisk(o, a)
    BY <2>2
  <2>. QED
    BY <2>3, RiskOfHandle
<1>. HIDE DEF top
<1>. QED
  BY <1>1, <1>2

\* What is worst in a table is an access.
LEMMA WorstIsAccess ==
    ASSUME NEW o \in Owners, NEW table \in Seq(Accesses)
    PROVE  Worst(o, table) \subseteq Accesses
<1> DEFINE top == {i \in DOMAIN table :
                     /\ HandleRisk(o, table[i]) >= 20
                     /\ \A j \in DOMAIN table :
                            HandleRisk(o, table[j]) <= HandleRisk(o, table[i])}
<1>1. Worst(o, table) = IF top = {} THEN {} ELSE {table[Max(top)]}
  BY DEF Worst
<1>2. ASSUME top # {} PROVE table[Max(top)] \in Accesses
  <2>1. Len(table) \in Nat /\ top \in SUBSET (1..Len(table))
    OBVIOUS
  <2>2. Max(top) \in 1..Len(table)
    BY <1>2, <2>1, Greatest
  <2>. QED
    BY <2>2
<1>. HIDE DEF top
<1>. QED
  BY <1>1, <1>2

\* A look at the regions reports those that are new since the last one.
LEMMA RegionsReport ==
    ASSUME LookInv, ObserveRegions
    PROVE  found' = IF seenRegions = None THEN {}
                    ELSE {<<"region_birth", r>> : r \in Suspicious \ seenRegions}
<1>1. Escalated(Suspicious) = {}
  BY DEF Escalated, Known, LookInv, MemoryInv
<1>2. Born(Suspicious) = IF seenRegions = None THEN {} ELSE Suspicious \ seenRegions
  BY DEF Born, Known, LookInv, MemoryInv
<1>3. found' = {<<"region_birth", r>> : r \in Born(Suspicious)}
  BY <1>1 DEF ObserveRegions, EmitFindings
<1>. QED
  BY <1>2, <1>3

\* A look at the handles reports an owner with a worse one, and none whose are the same.
LEMMA HandlesReport ==
    ASSUME LookInv, ObserveHandles, NEW o \in Owners
    PROVE  LET new == {k \in found' : k[2][1] = o}
           IN  IF seenHandles = None THEN new = {}
               ELSE IF seenHandles[o] = game.handles[o] THEN new = {}
                    ELSE Worse(o, seenHandles[o]) => new # {}
<1> DEFINE new == {k \in found' : k[2][1] = o}
<1>1. /\ ExternalHandles = HandlesOf(game.handles)
      /\ game.handles[o] \in Seq(Accesses)
  BY DEF ObserveHandles, Alive, LookInv, ShapeInv, ExternalHandles, HandlesOf
<1>2. found' = {<<"handle_birth", k>> :
                   k \in IF handles = None THEN {} ELSE ExternalHandles \ handles}
  BY DEF ObserveHandles, EmitFindings
<1>3. CASE seenHandles = None
  <2>1. handles = None
    BY <1>3 DEF LookInv, MemoryInv
  <2>. QED
    BY <1>2, <1>3, <2>1
<1>4. CASE seenHandles # None
  <2>1. /\ handles # None /\ handles = HandlesOf(seenHandles)
        /\ seenHandles[o] \in Seq(Accesses)
    BY <1>4 DEF LookInv, MemoryInv
  <2>2. found' = {<<"handle_birth", k>> : k \in HandlesOf(game.handles) \ HandlesOf(seenHandles)}
    BY <1>1, <1>2, <2>1
  <2>3. ASSUME seenHandles[o] = game.handles[o] PROVE new = {}
    <3>1. ASSUME NEW k \in HandlesOf(game.handles), k[1] = o PROVE k \in HandlesOf(seenHandles)
      BY <2>3, <3>1 DEF HandlesOf
    <3>. QED
      BY <2>2, <3>1
  <2>4. ASSUME Worse(o, seenHandles[o]) PROVE new # {}
    <3>1. PICK a \in Worst(o, game.handles[o]) :
              \A i \in DOMAIN seenHandles[o] :
                  HandleRisk(o, seenHandles[o][i]) < HandleRisk(o, a)
      BY <2>4 DEF Worse
    <3>2. a \in Accesses
      BY <1>1, WorstIsAccess
    <3>3. a \notin Worst(o, seenHandles[o])
      BY <2>1, <3>1, <3>2, WorseIsNew
    <3>4. <<o, a>> \in HandlesOf(game.handles) \ HandlesOf(seenHandles)
      BY <3>1, <3>2, <3>3 DEF HandlesOf
    <3>5. <<"handle_birth", <<o, a>>>> \in found'
      BY <2>2, <3>4
    <3>. QED
      BY <3>5
  <2>. QED
    BY <1>4, <2>3, <2>4
<1>. QED
  BY <1>3, <1>4

\* What the lifetime tracker reports came since its last look at this very process
\* (lifetime.hpp:120, 227).
THEOREM ReportsWhatCame == Spec => LifetimeSinceLastLook
<1> DEFINE RegionsClaim ==
             RegionsLook =>
                 found' = IF seenRegions = None THEN {}
                          ELSE {<<"region_birth", r>> : r \in Suspicious \ seenRegions}
           HandlesClaim ==
             HandlesLook =>
                 \A o \in Owners :
                    LET new == {k \in found' : k[2][1] = o}
                    IN  IF seenHandles = None THEN new = {}
                        ELSE IF seenHandles[o] = game.handles[o] THEN new = {}
                             ELSE Worse(o, seenHandles[o]) => new # {}
<1>1. ASSUME LookInv, [Next]_vars PROVE [RegionsClaim /\ HandlesClaim]_vars
  <2>1. ASSUME Next, RegionsLook PROVE ObserveRegions
    BY <2>1 DEF RegionsLook, Next, Core, Crash, Acquire, Lost, Open, Sleep, ModulesUnknown,
       LoadBaseline, CreateBaseline, Establishing, Diff, ObserveHandles, HandlesUnknown,
       Surroundings, Start, Exit, Write, Unload, Protect, OpenHandle, CloseHandle, Change,
       core, loop
  <2>2. ASSUME Next, HandlesLook PROVE ObserveHandles
    <3>1. pc = "handles" /\ pc' = "sleep" /\ Alive /\ mishaps' = mishaps
      BY <2>2 DEF HandlesLook
    <3>2. ~HandlesUnknown
      BY <1>1, <3>1 DEF HandlesUnknown, Refused, LookInv, BoundInv
    <3>. QED
      BY <2>2, <3>1, <3>2
      DEF Next, Core, Crash, Acquire, Lost, Open, Sleep, ModulesUnknown,
          LoadBaseline, CreateBaseline, Establishing, Diff, ObserveRegions,
          Surroundings, Start, Exit, Write, Unload, Protect, OpenHandle, CloseHandle, Change,
          core, loop
  <2>3. CASE Next
    <3>1. RegionsClaim
      BY <1>1, <2>1, <2>3, RegionsReport
    <3>2. HandlesClaim
      BY <1>1, <2>2, <2>3, HandlesReport
    <3>. QED
      BY <3>1, <3>2
  <2>. QED
    BY <1>1, <2>3
<1>2. LifetimeSinceLastLook <=> [][RegionsClaim /\ HandlesClaim]_vars
  BY PTL DEF LifetimeSinceLastLook
<1>. HIDE DEF RegionsClaim, HandlesClaim
<1>. QED
  BY <1>1, <1>2, InitLook, NextLook, PTL DEF Spec
=============================================================================
