------------------------------ MODULE CoreCycle ------------------------------
(***************************************************************************)
(* The main loop of the security core (client/core/main.cpp): reload the   *)
(* configuration when its file changed, find the game or notice that it is *)
(* gone, run the scanners that are due, add the highest risk to the        *)
(* evidence window and terminate the game when the window is convincing.   *)
(*                                                                         *)
(* One tick is one pass of the loop, its scans and its sleep together.     *)
(* Around the loop, processes come and go, cheats come and go in them, the *)
(* configuration file is edited, and calls on a process may be refused.    *)
(***************************************************************************)
EXTENDS Naturals, FiniteSets, FiniteSetsExt, Schedule

CONSTANTS
    Pids,        \* process identifiers
    Scanners,    \* the scanners that may find something in this instance
    Risk,        \* scanner -> the risk score of its finding
    Window,      \* evidence_window_ms, in ticks
    MinSamples, MinAverage, MinPeak,   \* evidence_min_*
    High, MinHigh,                     \* evidence_(min_)sustained_high_*
    Settle,      \* evidence_settle_cycles
    Threshold,   \* enforce_risk_threshold
    Turn,        \* a common multiple of the scanners' periods
    MaxStarts,   \* bound: games started
    MaxEdits,    \* bound: edits of the configuration file
    MaxFaults,   \* bound: refused calls on a process
    Written,     \* what valid configuration files say
    None,        \* no process, no target
    Absent,      \* there is no configuration file
    Broken       \* it does not parse or does not pass ValidateSnapshot

Settings == [observe : BOOLEAN,   \* observe_only
             gated : BOOLEAN]     \* enable_evidence_window
Defaults == [observe |-> TRUE, gated |-> TRUE]

ASSUME CoreCycleAssumption ==
    /\ Scanners \subseteq DOMAIN Schedule
    /\ Risk \in [Scanners -> Nat]
    /\ Settle \in Nat /\ Turn \in Nat \ {0}
    /\ {Window, MinAverage, MinPeak, High} \subseteq Nat
    /\ {MinSamples, MinHigh, Threshold} \subseteq Nat \ {0}
    /\ MaxStarts \in Nat /\ MaxEdits \in Nat /\ MaxFaults \in Nat
    /\ \A s \in Scanners : Turn % Schedule[s][1] = 0
    /\ Written \subseteq Settings
    /\ None \notin Pids

Contents == Written \union {Broken, Absent}

VARIABLES
    procs,      \* pid -> the process of the game that has it, or None
    started,    \* games started so far
    file,       \* the configuration file: its content, its write time, and (for
                \* the properties) whether a load was under way that had read
                \* what was there before
    loaded,     \* snapshot_ : the configuration in force
    stamp,      \* lastWriteTime_, 0 when there is none
    read,       \* what LoadConfigDetailed has read and not put in force yet
    pc,         \* where the loop is
    target,     \* targetPid, None for 0
    cycle,      \* cycleCounter_, modulo Turn
    risk,       \* report.highestRisk of the cycle that is being judged
    samples,    \* samples_ : age, risk and (for the properties) the process
                \* the sample was taken from and which of its scans it was
    bound,      \* boundPid_, None for 0
    onTarget,   \* cyclesOnTarget_, counted no further than Settle
    faults      \* calls refused so far

env == <<procs, started, file>>
config == <<loaded, stamp, read>>
evidence == <<samples, bound, onTarget>>
vars == <<procs, started, file, loaded, stamp, read, pc, target, cycle,
          risk, samples, bound, onTarget, faults>>

\* A process of the game: which one it is, the scanners that would find
\* something in it now, and how often it was scanned (no further than Settle).
Processes == [id : 1..MaxStarts, cheats : SUBSET Scanners, scans : 0..Settle]

Init ==
    /\ procs = [p \in Pids |-> None]
    /\ started = 0
    /\ file \in [content : Contents, time : {1}, raced : {FALSE}]
    /\ loaded = (IF file.content \in Settings THEN file.content ELSE Defaults)
    /\ stamp = (IF file.content \in Settings THEN 1 ELSE 0)
    /\ read = Absent
    /\ pc = "top"
    /\ target = None
    /\ cycle = 0
    /\ risk = 0
    /\ samples = {}
    /\ bound = None
    /\ onTarget = 0
    /\ faults = 0

-----------------------------------------------------------------------------
(* The surroundings.                                                       *)

\* The game starts. Its identifier was free, and the core is not still
\* holding it for a process that ended since the core last looked.
Start(p, cheats) ==
    /\ procs[p] = None
    /\ p # target
    /\ started < MaxStarts
    /\ started' = started + 1
    /\ procs' = [procs EXCEPT ![p] = [id |-> started + 1, cheats |-> cheats,
                                      scans |-> 0]]
    /\ UNCHANGED <<file, config, pc, target, cycle, risk, evidence, faults>>

Exit(p) ==
    /\ procs[p] # None
    /\ procs' = [procs EXCEPT ![p] = None]
    /\ UNCHANGED <<started, file, config, pc, target, cycle, risk, evidence,
                   faults>>

\* A cheat is loaded or unloaded.
Toggle(p, s) ==
    /\ procs[p] # None
    /\ procs' = [procs EXCEPT ![p].cheats =
                     IF s \in @ THEN @ \ {s} ELSE @ \union {s}]
    /\ UNCHANGED <<started, file, config, pc, target, cycle, risk, evidence,
                   faults>>

\* The file is written, and its write time is one it never had.
Edit(c) ==
    /\ file.time <= MaxEdits
    /\ c # file.content
    /\ file' = [content |-> c, time |-> file.time + 1,
                raced |-> pc = "stamp" /\ read \in Settings]
    /\ UNCHANGED <<procs, started, config, pc, target, cycle, risk, evidence,
                   faults>>

-----------------------------------------------------------------------------
(* ConfigManager.                                                          *)

\* Mutant of the next: a configuration that was loaded is never looked at again.
LoadedOnce == file.content = Absent \/ stamp # 0

Unchanged == file.content = Absent \/ file.time = stamp

\* ReloadIfChanged: no file, or the write time of the last load.
KeepConfig ==
    /\ pc = "top"
    /\ Unchanged
    /\ pc' = "target"
    /\ UNCHANGED <<env, config, target, cycle, risk, evidence, faults>>

\* LoadConfigDetailed reads the file ...
ReadConfig ==
    /\ pc = "top"
    /\ ~Unchanged
    /\ read' = file.content
    /\ pc' = "stamp"
    /\ UNCHANGED <<env, loaded, stamp, target, cycle, risk, evidence, faults>>

\* ... and asks for its write time when the content has proved valid. An
\* invalid content changes nothing, so that the next pass tries again.
SwapConfig ==
    /\ pc = "stamp"
    /\ IF read \in Settings
       THEN /\ loaded' = read
            /\ stamp' = IF file.content = Absent THEN 0 ELSE file.time
       ELSE UNCHANGED <<loaded, stamp>>
    /\ read' = Absent
    /\ pc' = "target"
    /\ UNCHANGED <<env, target, cycle, risk, evidence, faults>>

-----------------------------------------------------------------------------
(* The target.                                                             *)

\* EvidenceWindow::Reset
ResetEvidence ==
    /\ samples' = {}
    /\ bound' = None
    /\ onTarget' = 0

\* GetProcessIdByName finds the game, or the pass ends.
Acquire ==
    /\ pc = "target"
    /\ target = None
    /\ LET games == {p \in Pids : procs[p] # None}
       IN  IF games = {} THEN target' = None ELSE target' \in games
    /\ pc' = "sleep"
    /\ UNCHANGED <<env, config, cycle, risk, evidence, faults>>

\* The probe finds the process alive.
Probe ==
    /\ pc = "target"
    /\ target # None
    /\ procs[target] # None
    /\ pc' = "scan"
    /\ UNCHANGED <<env, config, target, cycle, risk, evidence, faults>>

\* Mutant of the next: the evidence window is not reset.
LostKeepingEvidence ==
    /\ pc = "target"
    /\ target # None
    /\ \/ procs[target] = None /\ UNCHANGED faults
       \/ faults < MaxFaults /\ faults' = faults + 1
    /\ target' = None
    /\ pc' = "sleep"
    /\ UNCHANGED <<env, config, cycle, risk, evidence>>

\* The probe finds no process, or is refused: the target is given up.
Lost ==
    /\ pc = "target"
    /\ target # None
    /\ \/ procs[target] = None /\ UNCHANGED faults
       \/ faults < MaxFaults /\ faults' = faults + 1
    /\ target' = None
    /\ ResetEvidence
    /\ pc' = "sleep"
    /\ UNCHANGED <<env, config, cycle, risk>>

-----------------------------------------------------------------------------
(* The scan cycle.                                                         *)

\* What the scanners that are due in cycle n find in process p.
HighestRisk(p, n) ==
    Max({0} \union {Risk[s] : s \in {t \in procs[p].cheats : Due(t, n)}})

\* Cycles are counted no further than they matter.
UpToSettle(n) == IF n < Settle THEN n ELSE Settle

\* The cycle counts, for the core and for the process it is about.
Count ==
    /\ cycle' = (cycle + 1) % Turn
    /\ procs' = IF procs[target] = None THEN procs
               ELSE [procs EXCEPT ![target].scans = UpToSettle(@ + 1)]
    /\ pc' = "judge"
    /\ UNCHANGED <<started, file, config, target, evidence>>

\* RunCycle opens the process and runs the scanners that are due.
Scan ==
    /\ pc = "scan"
    /\ procs[target] # None
    /\ Count
    /\ risk' = HighestRisk(target, cycle')
    /\ UNCHANGED faults

\* RunCycle cannot open the process: an empty report.
ScanNothing ==
    /\ pc = "scan"
    /\ \/ procs[target] = None /\ UNCHANGED faults
       \/ faults < MaxFaults /\ faults' = faults + 1
    /\ Count
    /\ risk' = 0

-----------------------------------------------------------------------------
(* The evidence window.                                                    *)

\* Mutant of the next: nothing is pruned.
NeverPruned(S) == S

\* Prune
Recent(S) == {s \in S : s.age <= Window}

\* The process at the target's identifier, for the properties only.
Origin == IF procs[target] = None
          THEN [id |-> 0, scans |-> 0]
          ELSE [id |-> procs[target].id, scans |-> procs[target].scans]

\* Mutant of the next: BindTarget resets the count whether or not it is bound.
CountedAfresh == UpToSettle(1)

\* cyclesOnTarget_ after BindTarget and the count of this cycle.
Counted == UpToSettle((IF bound = target THEN onTarget ELSE 0) + 1)

\* Push: bind the window to the target, count the cycle, and once the cycles
\* to settle are over take the sample and drop those that are too old.
Push ==
    LET kept == IF bound = target THEN samples ELSE {}
    IN  IF Counted < Settle
        THEN kept
        ELSE Recent(kept \union {[age |-> 0, risk |-> risk, from |-> Origin]})

Peak(S) == Max({s.risk : s \in S})
Average(S) == MapThenSumSet(LAMBDA s : s.risk, S) \div Cardinality(S)
Sustained(S) == Cardinality({s \in S : s.risk >= High})

\* Evaluate
ShouldEnforce(S) ==
    /\ S # {}
    /\ Cardinality(S) >= MinSamples
    /\ Peak(S) >= MinPeak
    /\ Average(S) >= MinAverage \/ Sustained(S) >= MinHigh

\* What the pass decides after the push, by the settings it started with.
Convicted ==
    /\ ~loaded.observe
    /\ IF loaded.gated
       THEN /\ Counted >= Settle
            /\ ShouldEnforce(Recent(Push))
            /\ Peak(Recent(Push)) >= Threshold
       ELSE risk >= Threshold

Judged == pc = "judge" /\ pc' = "sleep" /\ risk' = 0

Spare ==
    /\ Judged
    /\ ~Convicted
    /\ samples' = Recent(Push)
    /\ bound' = target
    /\ onTarget' = Counted
    /\ UNCHANGED <<env, config, target, cycle, faults>>

\* TerminatePid ends whatever process has the identifier now.
Terminate ==
    /\ Judged
    /\ Convicted
    /\ procs[target] # None
    /\ procs' = [procs EXCEPT ![target] = None]
    /\ target' = None
    /\ ResetEvidence
    /\ UNCHANGED <<started, file, config, cycle, faults>>

\* The process has ended by itself, or may not be terminated.
TerminateFails ==
    /\ Judged
    /\ Convicted
    /\ \/ procs[target] = None /\ UNCHANGED faults
       \/ faults < MaxFaults /\ faults' = faults + 1
    /\ samples' = Recent(Push)
    /\ bound' = target
    /\ onTarget' = Counted
    /\ UNCHANGED <<env, config, target, cycle>>

Sleep ==
    /\ pc = "sleep"
    /\ samples' = {[age |-> s.age + 1, risk |-> s.risk, from |-> s.from] :
                       s \in samples}
    /\ pc' = "top"
    /\ UNCHANGED <<env, config, target, cycle, risk, bound, onTarget, faults>>

-----------------------------------------------------------------------------
Core ==
    \/ KeepConfig \/ ReadConfig \/ SwapConfig
    \/ Acquire \/ Probe \/ Lost
    \/ Scan \/ ScanNothing
    \/ Spare \/ Terminate \/ TerminateFails
    \/ Sleep

Surroundings ==
    \/ \E p \in Pids, cheats \in SUBSET Scanners : Start(p, cheats)
    \/ \E p \in Pids : Exit(p) \/ \E s \in Scanners : Toggle(p, s)
    \/ \E c \in Contents : Edit(c)

Next == Core \/ Surroundings

\* The loop never blocks for good; nothing else is bound to happen.
Spec == Init /\ [][Next]_vars /\ WF_vars(Core)

-----------------------------------------------------------------------------
\* The state is well typed.
TypeOK ==
    /\ procs \in [Pids -> Processes \union {None}]
    /\ started \in 0..MaxStarts
    /\ file \in [content : Contents, time : 1..MaxEdits + 1, raced : BOOLEAN]
    /\ loaded \in Settings
    /\ stamp \in 0..MaxEdits + 1
    /\ read \in Contents
    /\ pc \in {"top", "stamp", "target", "scan", "judge", "sleep"}
    /\ target \in Pids \union {None}
    /\ cycle \in 0..Turn - 1
    /\ risk \in {0} \union {Risk[s] : s \in Scanners}
    /\ samples \subseteq
          [age : 0..Window + 1, risk : {0} \union {Risk[s] : s \in Scanners},
           from : [id : 0..MaxStarts, scans : 0..Settle]]
    /\ bound \in Pids \union {None}
    /\ onTarget \in 0..Settle
    /\ faults \in 0..MaxFaults

\* The samples that really speak of process p: taken from that very process,
\* within the window, after it had settled.
Proper(p) ==
    {s \in Push : /\ s.from.id = procs[p].id
                  /\ s.age <= Window
                  /\ s.from.scans >= Settle}

CoreKills == pc = "judge" /\ target # None /\ target' = None

\* With the evidence window on, a process is terminated only on what was
\* found in that very process (evidence.hpp:80, 97, 129), never on samples of
\* an earlier process, older than the window, or from before it settled.
EnforcedOnEvidence ==
    [][CoreKills /\ loaded.gated => ShouldEnforce(Proper(target))]_vars

\* Findings that are high in every cycle, with a peak from a scanner that
\* runs now and then, in a game that stays: while the core may enforce, it
\* cannot go on for ever (evidence.hpp:117, the schedule of RunCycle).
Flagrant ==
    /\ target # None
    /\ procs[target] # None
    /\ ~loaded.observe
    /\ \E s \in procs[target].cheats : Schedule[s][1] = 1 /\ Risk[s] >= High
    /\ \E s \in procs[target].cheats :
           /\ Risk[s] >= MinPeak
           /\ Risk[s] >= Threshold

CheatIsStopped == ~<>[]Flagrant

\* A valid configuration that is written and then left alone comes into force and
\* stays so, whatever the file held before, a broken or missing file included
\* (config.hpp:326, 350). One is excepted: it was written while a load that had read
\* what was there before was still to take the write time (config.cpp:1331).
EditsTakeEffect ==
    /\ <>[][UNCHANGED file]_vars
    /\ <>[](file.content \in Settings /\ ~file.raced)
    => <>[](loaded = file.content)
=============================================================================
