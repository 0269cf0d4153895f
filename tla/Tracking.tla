------------------------------ MODULE Tracking ------------------------------
(***************************************************************************)
(* What the core remembers of a game from one scan to the next: the        *)
(* baseline of its modules, kept on disk for the game's build              *)
(* (client/core/baseline.hpp), its suspicious memory regions and the       *)
(* handles other processes hold on it (client/core/lifetime.hpp), and the  *)
(* alerts already sent (client/core/alert.hpp).                            *)
(*                                                                         *)
(* The game comes and goes and changes between any two of the steps; the   *)
(* core may crash and start again. There is one build of the game.         *)
(***************************************************************************)
EXTENDS Naturals, FiniteSets, FiniteSetsExt, SequencesExt

CONSTANTS
    Pids,         \* process identifiers the game may get
    Names,        \* module names, never those of whitelisted_modules
    Game,         \* the one of them that is the game itself
    Texts,        \* contents of a module's code section
    Regions,      \* places in memory
    Owners,       \* processes that may hold handles on the game
    Trusted,      \* those in whitelisted_processes
    Weight,       \* risk_weights.external_process_handle
    Cooldown,     \* duplicate_cooldown_ms, in passes of the loop
    MaxHandles,   \* bound: handles of one owner at a time
    MaxGames,     \* bound: games started
    MaxChanges,   \* bound: changes in and around the games
    MaxMishaps,   \* bound: refused calls and crashes of the core
    DiskFaults,   \* may a baseline fail to be written or opened?
    None,         \* no game, no process, nothing known
    Unread,       \* the text of a module that could not be read
    Garbled       \* a checksum that was cut off in the file

ASSUME TrackingAssumption ==
    /\ Game \in Names
    /\ Trusted \subseteq Owners
    /\ {Weight, Cooldown, MaxHandles} \subseteq Nat \ {0}
    /\ {MaxGames, MaxChanges, MaxMishaps} \subseteq Nat
    /\ DiskFaults \in BOOLEAN
    /\ None \notin Pids
    /\ {Unread, Garbled} \cap Texts = {}

Protections == {"rw", "rx", "rwx"}   \* "rw" for all that does not execute
Accesses == {"limited", "read", "write"}

\* What the lifetime tracker keeps, and what it met, of regions and handles.
Observations == [executable : BOOLEAN, seenWritable : BOOLEAN]

ASSUME NoneIsNothingSeen ==
    /\ \A S \in SUBSET Regions : None # S /\ None \notin [S -> Observations]
    /\ \A S \in SUBSET (Owners \X Accesses) : None # S
    /\ None \notin [Owners -> Seq(Accesses)]

\* What a baseline says of modules: their text, where it could be read.
Snapshots ==
    UNION {[S -> Texts \union {Unread, Garbled}] : S \in SUBSET Names}

\* The alerts, and the findings they come from, without their process.
Keys == {<<"module_birth", n>> : n \in Names}
          \union {<<"code_mutation", n>> : n \in Names}
          \union {<<"region_birth", r>> : r \in Regions}
          \union {<<"region_escalate", r>> : r \in Regions}
          \union {<<"handle_birth", k>> : k \in Owners \X Accesses}

VARIABLES
    game,       \* the running game, or None
    games,      \* games started so far
    changes,    \* changes so far
    pc,         \* where the loop is
    target,     \* targetPid
    cycle,      \* cycleCounter_, modulo 6
    baseline,   \* snapshot_, None when it is not established
    baselinePid,
    regions,    \* regions_, None when not primed
    handles,    \* the keys of handles_, None when not primed
    trackedPid,
    recent,     \* recentAlerts_: passes since the alert of a process, no
                \* more than Cooldown, which stands for one never sent too
    disk,       \* the baseline file of the build, None when there is none
    found,      \* the findings of the last step
    mishaps,    \* refused calls and crashes so far
    \* For the properties only:
    seenRegions,   \* what the scan before the next one met in this very
    seenHandles,   \* target since it was acquired, or None
    reported       \* modules ever reported as births

around == <<game, games, changes>>
loop == <<pc, target, cycle>>
baselining == <<baseline, baselinePid>>
lifetime == <<regions, handles, trackedPid>>
seen == <<seenRegions, seenHandles>>
vars == <<game, games, changes, pc, target, cycle, baseline, baselinePid,
          regions, handles, trackedPid, recent, disk, found, mishaps,
          seenRegions, seenHandles, reported>>

Silent == [p \in Pids |-> [k \in Keys |-> Cooldown]]

Init ==
    /\ game = None
    /\ games = 0
    /\ changes = 0
    /\ pc = "top"
    /\ target = None
    /\ cycle = 0
    /\ baseline = None
    /\ baselinePid = None
    /\ regions = None
    /\ handles = None
    /\ trackedPid = None
    /\ recent = Silent
    /\ disk = None
    /\ found = {}
    /\ mishaps = 0
    /\ seenRegions = None
    /\ seenHandles = None
    /\ reported = {}

-----------------------------------------------------------------------------
(* The game and what others do to it.                                      *)

core == <<loop, baselining, lifetime, recent, disk, found, mishaps, seen,
          reported>>

\* The game starts, with its own module and perhaps with others, and with
\* what was injected before the core finds it.
Start(p) ==
    /\ game = None
    /\ p # target
    /\ games < MaxGames
    /\ games' = games + 1
    /\ \E S \in SUBSET Names, t \in Texts, hot \in SUBSET Regions :
           game' = [pid |-> p,
                    modules |-> [n \in S \union {Game} |-> t],
                    regions |-> [r \in Regions |->
                                     IF r \in hot THEN "rwx" ELSE "rw"],
                    handles |-> [o \in Owners |-> <<>>]]
    /\ UNCHANGED <<changes, core>>

Exit ==
    /\ game # None
    /\ game' = None
    /\ UNCHANGED <<games, changes, core>>

Change ==
    /\ game # None
    /\ changes < MaxChanges
    /\ changes' = changes + 1
    /\ UNCHANGED <<games, core>>

\* A module is loaded, or its text is overwritten.
Write(n, t) ==
    /\ Change
    /\ n \in DOMAIN game.modules => game.modules[n] # t
    /\ game' = [game EXCEPT !.modules =
                    [m \in DOMAIN @ \union {n} |-> IF m = n THEN t ELSE @[m]]]

Unload(n) ==
    /\ Change
    /\ n \in DOMAIN game.modules \ {Game}
    /\ game' = [game EXCEPT !.modules =
                    [m \in DOMAIN @ \ {n} |-> @[m]]]

Protect(r, p) ==
    /\ Change
    /\ game.regions[r] # p
    /\ game' = [game EXCEPT !.regions[r] = p]

\* A handle is opened; it may take any place among those of its owner.
OpenHandle(o, a, i) ==
    /\ Change
    /\ i \in 1..Len(game.handles[o]) + 1
    /\ Len(game.handles[o]) < MaxHandles
    /\ game' = [game EXCEPT !.handles[o] = InsertAt(@, i, a)]

CloseHandle(o, i) ==
    /\ Change
    /\ i \in DOMAIN game.handles[o]
    /\ game' = [game EXCEPT !.handles[o] = RemoveAt(@, i)]

-----------------------------------------------------------------------------
(* Alerts.                                                                 *)

\* Mutant of the next: a suppressed alert counts as one that was sent.
Refreshed(ages, F) == [k \in Keys |-> IF k \in F THEN 0 ELSE ages[k]]

\* DispatchAlert sends what was not sent within the cooldown.
Dispatched(ages, F) ==
    [k \in Keys |-> IF k \in F /\ ages[k] >= Cooldown THEN 0 ELSE ages[k]]

EmitFindings(F) ==
    /\ found' = F
    /\ recent' = [recent EXCEPT ![target] = Dispatched(@, F)]

-----------------------------------------------------------------------------
(* The loop around the trackers.                                           *)

Alive == game # None /\ game.pid = target

Refused == mishaps < MaxMishaps /\ mishaps' = mishaps + 1

\* Mutant of the next: the lifetime tracker is left to BindProcess.
ResetBaselineOnly ==
    /\ baseline' = None
    /\ baselinePid' = None
    /\ UNCHANGED lifetime

ResetSessionState ==
    /\ baseline' = None
    /\ baselinePid' = None
    /\ regions' = None
    /\ handles' = None
    /\ trackedPid' = None

Acquire ==
    /\ pc = "top"
    /\ target = None
    /\ target' = IF game = None THEN None ELSE game.pid
    /\ pc' = "sleep"
    /\ UNCHANGED <<around, cycle, baselining, lifetime, recent, disk, found,
                   mishaps, seen, reported>>

\* The game has ended, may not be probed, or was terminated.
Lost ==
    /\ pc = "top"
    /\ target # None
    /\ (~Alive /\ UNCHANGED mishaps) \/ Refused
    /\ target' = None
    /\ ResetSessionState
    /\ pc' = "sleep"
    /\ seenRegions' = None
    /\ seenHandles' = None
    /\ UNCHANGED <<around, cycle, recent, disk, found, reported>>

\* RunCycle counts the cycle and opens the process.
Open ==
    /\ pc = "top"
    /\ target # None
    /\ Alive
    /\ cycle' = (cycle + 1) % 6
    /\ \/ pc' = "baseline" /\ UNCHANGED mishaps
       \/ pc' = "sleep" /\ Refused
    /\ UNCHANGED <<around, target, baselining, lifetime, recent, disk, found,
                   seen, reported>>

Aged(n) == IF n < Cooldown THEN n + 1 ELSE n

Sleep ==
    /\ pc = "sleep"
    /\ recent' = [p \in Pids |-> [k \in Keys |-> Aged(recent[p][k])]]
    /\ found' = {}
    /\ pc' = "top"
    /\ UNCHANGED <<around, target, cycle, baselining, lifetime, disk, mishaps,
                   seen, reported>>

-----------------------------------------------------------------------------
(* SessionBaseline.                                                        *)

\* The state of the snapshot once the tracker is bound to the target.
Bound == IF baselinePid = target THEN baseline ELSE None

\* TrackLifetime comes next: it binds its tracker and scans what is due.
Regional == cycle % 2 = 0
Handling == cycle % 3 = 1

BindProcess ==
    /\ trackedPid' = target
    /\ IF trackedPid = target
       THEN UNCHANGED <<regions, handles>>
       ELSE regions' = None /\ handles' = None

ThenLifetime ==
    /\ baselinePid' = target
    /\ BindProcess
    /\ pc' = IF Regional THEN "regions"
             ELSE IF Handling THEN "handles" ELSE "sleep"
    /\ UNCHANGED <<around, target, cycle, seen>>

\* The module scan fails.
ModulesUnknown ==
    /\ pc = "baseline"
    /\ (~Alive /\ UNCHANGED mishaps) \/ Refused
    /\ baseline' = Bound
    /\ found' = {}
    /\ ThenLifetime
    /\ UNCHANGED <<recent, disk, reported>>

\* Mutant of the next: every session makes a baseline of its own.
NeverLoadable == FALSE

\* LoadFromDisk takes any file that names a module.
Loadable == disk # None /\ DOMAIN disk # {}

\* What may be left of a snapshot whose writing ends half way: some of its
\* lines, the last one perhaps without the end of its checksum.
Pieces(b) ==
    UNION {{[n \in S |-> IF n = cut THEN Garbled ELSE b[n]] :
               cut \in S \union {None}} : S \in SUBSET DOMAIN b}

\* A snapshot of the modules, some of which could not be read.
Snapshot(unread) ==
    [n \in DOMAIN game.modules |->
        IF n \in unread THEN Unread ELSE game.modules[n]]

Establishing == pc = "baseline" /\ Alive /\ Bound = None

LoadBaseline ==
    /\ Establishing
    /\ Loadable
    /\ baseline' = disk
    /\ found' = {}
    /\ ThenLifetime
    /\ UNCHANGED <<recent, disk, mishaps, reported>>

\* No file that can be loaded: the session's own modules are the baseline.
CreateBaseline ==
    /\ Establishing
    /\ ~Loadable \/ DiskFaults
    /\ \/ baseline' = Snapshot({}) /\ UNCHANGED mishaps
       \/ Refused /\ \E n \in DOMAIN game.modules :
                         baseline' = Snapshot({n})
    /\ \/ disk' = baseline'
       \/ DiskFaults /\ disk' \in {disk} \union Pieces(baseline')
    /\ found' = {}
    /\ ThenLifetime
    /\ UNCHANGED <<recent, reported>>

Births == {n \in DOMAIN game.modules : n \notin DOMAIN Bound}

Mutated ==
    {n \in DOMAIN game.modules \cap DOMAIN Bound :
        Bound[n] \notin {Unread, game.modules[n]}}

Diff ==
    /\ pc = "baseline"
    /\ Alive
    /\ Bound # None
    /\ EmitFindings({<<"module_birth", n>> : n \in Births}
                      \union {<<"code_mutation", n>> : n \in Mutated})
    /\ reported' = reported \union Births
    /\ baseline' = Bound
    /\ ThenLifetime
    /\ UNCHANGED <<disk, mishaps>>

-----------------------------------------------------------------------------
(* LifetimeTracker.                                                        *)

\* ScanSuspiciousRegions scores private memory, large or not, and reports
\* what reaches forty.
RegionRisk(p) == (IF p = "rwx" THEN 45 + 20 ELSE 0)
                   + (IF p \in {"rx", "rwx"} THEN 10 ELSE 0)

Suspicious == IF Alive THEN {r \in Regions : RegionRisk(game.regions[r]) >= 40}
                       ELSE {}

Known(r) == regions # None /\ r \in DOMAIN regions

Born(S) == {r \in S : regions # None /\ ~Known(r)}

Escalated(S) ==
    {r \in S : Known(r) /\ regions[r].seenWritable /\ ~regions[r].executable}

ObserveRegions ==
    /\ pc = "regions"
    /\ EmitFindings({<<"region_birth", r>> : r \in Born(Suspicious)}
                      \union {<<"region_escalate", r>> :
                                  r \in Escalated(Suspicious)})
    /\ regions' = [r \in Suspicious |->
                      [executable |-> game.regions[r] \in {"rx", "rwx"},
                       seenWritable |-> game.regions[r] \in {"rw", "rwx"}]]
    /\ seenRegions' = Suspicious
    /\ pc' = IF Handling THEN "handles" ELSE "sleep"
    /\ UNCHANGED <<around, target, cycle, baselining, handles, trackedPid,
                   disk, mishaps, seenHandles, reported>>

Larger(a, b) == IF a > b THEN a ELSE b

\* ScanExternalHandles: the risk of a handle ...
HandleRisk(o, a) ==
    LET base == IF a = "limited" THEN Larger(5, Weight \div 3) ELSE Weight
    IN  (IF o \notin Trusted THEN base + 10
         ELSE IF base > 25 THEN base - 25 ELSE 0)
          + (IF a = "write" THEN 20 ELSE 0)

\* ... of which it keeps for each owner the last of those with the highest,
\* if that is at least twenty.
Worst(o, table) ==
    LET risk(i) == HandleRisk(o, table[i])
        top == {i \in DOMAIN table :
                   /\ risk(i) >= 20
                   /\ \A j \in DOMAIN table : risk(j) <= risk(i)}
    IN  IF top = {} THEN {} ELSE {table[Max(top)]}

ExternalHandles ==
    {k \in Owners \X Accesses : k[2] \in Worst(k[1], game.handles[k[1]])}

ObserveHandles ==
    /\ pc = "handles"
    /\ Alive
    /\ EmitFindings({<<"handle_birth", k>> :
           k \in IF handles = None THEN {} ELSE ExternalHandles \ handles})
    /\ handles' = ExternalHandles
    /\ seenHandles' = game.handles
    /\ pc' = "sleep"
    /\ UNCHANGED <<around, target, cycle, baselining, regions, trackedPid,
                   disk, mishaps, seenRegions, reported>>

\* The process cannot be opened, or the handle table not be read.
HandlesUnknown ==
    /\ pc = "handles"
    /\ (~Alive /\ UNCHANGED mishaps) \/ Refused
    /\ found' = {}
    /\ pc' = "sleep"
    /\ UNCHANGED <<around, target, cycle, baselining, lifetime, recent, disk,
                   seen, reported>>

-----------------------------------------------------------------------------
(* The core crashes and starts again, perhaps while it saves a baseline.   *)
Crash ==
    /\ mishaps < MaxMishaps
    /\ mishaps' = mishaps + 1
    /\ \/ UNCHANGED disk
       \/ Establishing /\ ~Loadable /\ disk' \in Pieces(Snapshot({}))
    /\ pc' = "top"
    /\ target' = None
    /\ cycle' = 0
    /\ ResetSessionState
    /\ recent' = Silent
    /\ found' = {}
    /\ seenRegions' = None
    /\ seenHandles' = None
    /\ UNCHANGED <<around, reported>>

Core ==
    \/ Acquire \/ Lost \/ Open \/ Sleep
    \/ ModulesUnknown \/ LoadBaseline \/ CreateBaseline \/ Diff
    \/ ObserveRegions \/ ObserveHandles \/ HandlesUnknown

Surroundings ==
    \/ \E p \in Pids : Start(p)
    \/ Exit
    \/ \E n \in Names : Unload(n) \/ \E t \in Texts : Write(n, t)
    \/ \E r \in Regions, p \in Protections : Protect(r, p)
    \/ \E o \in Owners, i \in 1..MaxHandles :
           CloseHandle(o, i) \/ \E a \in Accesses : OpenHandle(o, a, i)

Next == Core \/ Crash \/ Surroundings

\* The loop never blocks for good; nothing else is bound to happen.
Spec == Init /\ [][Next]_vars /\ WF_vars(Core)

-----------------------------------------------------------------------------
\* The state is well typed.
TypeOK ==
    /\ game = None \/ /\ game.pid \in Pids
                      /\ DOMAIN game.modules \subseteq Names
                      /\ Game \in DOMAIN game.modules
                      /\ game.regions \in [Regions -> Protections]
                      /\ \A o \in Owners : Len(game.handles[o]) <= MaxHandles
    /\ games \in 0..MaxGames /\ changes \in 0..MaxChanges
    /\ pc \in {"top", "baseline", "regions", "handles", "sleep"}
    /\ target \in Pids \union {None}
    /\ cycle \in 0..5
    /\ baseline = None \/ baseline \in Snapshots
    /\ disk = None \/ disk \in Snapshots
    /\ {baselinePid, trackedPid} \subseteq Pids \union {None}
    /\ regions = None \/ DOMAIN regions \subseteq Regions
    /\ handles = None \/ handles \subseteq Owners \X Accesses
    /\ recent \in [Pids -> [Keys -> 0..Cooldown]]
    /\ found \subseteq Keys
    /\ mishaps \in 0..MaxMishaps
    /\ reported \subseteq Names

\* A module that was ever reported as new is never part of a baseline, in no
\* later session and after no crash of the core, a crash in the middle of
\* writing the file included (baseline.hpp:499, 352, 423).
NeverForgiven ==
    ~DiskFaults /\ baseline # None => reported \cap DOMAIN baseline = {}

\* The owner's riskiest handle is worse than all it had in table s.
Worse(o, s) ==
    \E a \in Worst(o, game.handles[o]) :
        \A i \in DOMAIN s : HandleRisk(o, s[i]) < HandleRisk(o, a)

RegionsLook == pc = "regions" /\ pc' \in {"handles", "sleep"}
HandlesLook == pc = "handles" /\ pc' = "sleep" /\ Alive /\ mishaps' = mishaps

\* What the lifetime tracker reports is what came since its last look at this
\* very process: the first look reports nothing, an owner whose handles are
\* the same is left alone, and one that has got a worse handle is reported
\* (lifetime.hpp:120, 227; engine.hpp:1417, main.cpp:432).
LifetimeSinceLastLook ==
    [][/\ RegionsLook =>
             found' = IF seenRegions = None THEN {}
                      ELSE {<<"region_birth", r>> :
                                r \in Suspicious \ seenRegions}
       /\ HandlesLook =>
             \A o \in Owners :
                LET new == {k \in found' : k[2][1] = o}
                IN  IF seenHandles = None
                    THEN new = {}
                    ELSE IF seenHandles[o] = game.handles[o]
                         THEN new = {}
                         ELSE Worse(o, seenHandles[o]) => new # {}]_vars

\* A module that is not in the baseline and stays is alerted again and again:
\* the cooldown delays a finding that persists and never silences it
\* (alert.hpp:203, 283).
Foreign(n) ==
    /\ Alive
    /\ baseline # None
    /\ n \in DOMAIN game.modules \ DOMAIN baseline

AlertedAgain ==
    \A n \in Names :
        <>[]Foreign(n) =>
            []<><<\E p \in Pids : /\ recent[p][<<"module_birth", n>>] = Cooldown
                                  /\ recent'[p][<<"module_birth", n>>] = 0>>_vars
=============================================================================
