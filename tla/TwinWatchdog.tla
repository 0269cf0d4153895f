----------------------------- MODULE TwinWatchdog -----------------------------
(***************************************************************************)
(* The core and its twin watchdog, which start each other again: the       *)
(* heartbeat mapping they share (client/core/twin_watchdog.hpp),           *)
(* EnsureTwinWatchdog and the loop of the core (client/core/main.cpp), and *)
(* the loop of the watchdog (client/core/watchdog_main.cpp).               *)
(*                                                                         *)
(* A process identifier is not used twice.  A heartbeat is a counter that  *)
(* is only compared with an earlier value of itself, so the model keeps    *)
(* who has seen its latest value.  A process may die at any time, or       *)
(* freeze: it then lives and does nothing more.                            *)
(***************************************************************************)
EXTENDS Integers, FiniteSets

CONSTANTS
  Cores, Watchdogs,     \* the processes of either program there may ever be
  WatchdogStallLimit,   \* looks without a core heartbeat until the watchdog acts (6)
  CoreStallLimit,       \* looks without a watchdog heartbeat until the core acts (8)
  CorePeriod,           \* a running core takes a step between that many looks at it
  MaxFaults,            \* bound: processes that die or freeze
  Nobody                \* no process

ASSUME TwinAssumption ==
  /\ Cores # {} /\ Cores \cap Watchdogs = {} /\ Nobody \notin Cores \cup Watchdogs
  /\ WatchdogStallLimit \in Nat \ {0} /\ CoreStallLimit \in Nat \ {0}
  /\ CorePeriod \in Nat \ {0} /\ MaxFaults \in Nat

\* Between two heartbeats a core takes no more than three steps.
ASSUME PeriodAssumption == 3 * CorePeriod <= WatchdogStallLimit

Processes == Cores \cup Watchdogs

VARIABLES
  life,       \* life[p]: "unborn", "running", "frozen" or "dead"
  pc,         \* pc[p]: what p does next
  view,       \* the processes that have the mapping open
  created,    \* those of them that created it
  corePid,    \* the mapping
  watchdogPid,
  unseen,     \* the processes that have not seen the twin's latest heartbeat
  stalls,     \* stalledCycles of a watchdog, watchdogStallCount of a core
  parent,     \* parentPid of a watchdog
  child,      \* history: child[p] is the process p launched last
  lag,        \* history: looks at a core since its last step
  faults,     \* history: how many processes died or froze
  killed      \* history: cores a watchdog terminated while they ran

twinVars == <<life, pc, view, created, corePid, watchdogPid, unseen, stalls, parent, child, lag,
          faults, killed>>

mapping == <<view, created, corePid, watchdogPid, unseen>>

Living(programs) == {p \in programs : life[p] \in {"running", "frozen"}}

\* Mutant: a process that can still be opened passes for alive, its exit code unread.
Openable(p) == p # Nobody /\ life[p] # "unborn"

\* IsProcessAlive
Alive(p) == p \in Living(Processes)

\* The identifier the next process of either program gets: which one does not matter.
Unborn(programs) == {p \in programs : life[p] = "unborn"}
Fresh(programs)  == CHOOSE p \in Unborn(programs) : TRUE

TwinInit ==
  LET core == CHOOSE c \in Cores : TRUE
  IN
    /\ life = [p \in Processes |-> IF p = core THEN "running" ELSE "unborn"]
    /\ pc = [p \in Processes |-> "map"]
    /\ view = {} /\ created = {} /\ corePid = Nobody /\ watchdogPid = Nobody
    /\ unseen = {}
    /\ stalls = [p \in Processes |-> 0]
    /\ parent = [w \in Watchdogs |-> Nobody]
    /\ child = [p \in Processes |-> Nobody]
    /\ lag = [c \in Cores |-> 0]
    /\ faults = 0 /\ killed = {}

-----------------------------------------------------------------------------
(* Steps of both programs *)

\* p takes a step of its own; a core that does is not overdue.
Step(p, from, to) ==
  /\ life[p] = "running"
  /\ pc[p] = from
  /\ pc' = [pc EXCEPT ![p] = to]

Reset(p) == lag' = IF p \in Cores THEN [lag EXCEPT ![p] = 0] ELSE lag

\* The view of the mapping is closed; with its last view the mapping is gone.
Holders(p) == Living(view) \ {p}

\* A cleared heartbeat is zero again, which a core may or may not have seen last.
Cleared(p) == unseen' \in {unseen \ {p}, unseen \cup ({p} \cap Cores)}

\* OpenOrCreate, up to the mutex: Close, then open the mapping or create an empty one.
Map(p) ==
  /\ Step(p, "map", "register")
  /\ Reset(p)
  /\ view' = Holders(p) \cup {p}
  /\ \/ /\ Holders(p) = {}
        /\ created' = {p} /\ corePid' = Nobody /\ watchdogPid' = Nobody
        /\ Cleared(p)
     \/ /\ Holders(p) # {}
        /\ created' = created \ {p} /\ UNCHANGED <<corePid, watchdogPid, unseen>>
  /\ UNCHANGED <<life, stalls, parent, child, faults, killed>>

\* OpenOrCreate, under the mutex: whoever created the mapping clears it, whatever a twin
\* may have written meanwhile, and either program then enters its own identifier.
RegisterCore(c) ==
  /\ Step(c, "register", "pulse")
  /\ Reset(c)
  /\ corePid' = c
  /\ IF c \in created
       THEN watchdogPid' = Nobody /\ Cleared(c)
       ELSE UNCHANGED <<watchdogPid, unseen>>
  /\ UNCHANGED <<life, view, created, stalls, parent, child, faults, killed>>

RegisterWatchdog(w) ==
  /\ Step(w, "register", "look")
  /\ watchdogPid' = w
  /\ IF w \in created
       THEN corePid' = Nobody /\ Cleared(w)
       ELSE UNCHANGED <<corePid, unseen>>
  /\ UNCHANGED <<life, view, created, stalls, parent, child, lag, faults, killed>>

\* A process that was launched enters the mapping, or is dead or frozen, before its launcher
\* looks again.
Joining(p) ==
  /\ p # Nobody /\ life[p] = "running"
  /\ pc[p] \in {"map", "register"} /\ p \notin {corePid, watchdogPid}

Prompt(p) == ~Joining(child[p])

\* LaunchSiblingProcess
Launch(p, programs) ==
  /\ Unborn(programs) # {}
  /\ life' = [life EXCEPT ![Fresh(programs)] = "running"]
  /\ child' = [child EXCEPT ![p] = Fresh(programs)]

-----------------------------------------------------------------------------
(* The core *)

\* Mutant: the watchdog is launched without a look at the one there is.
AlwaysLaunch == "launch"

\* The rest of EnsureTwinWatchdog: unless a watchdog is alive, one is launched.
LaunchUnlessAlive == IF Alive(watchdogPid) THEN "loop" ELSE "launch"

EnsurePulse(c) ==
  /\ Step(c, "pulse", LaunchUnlessAlive)
  /\ Reset(c)
  /\ corePid' = c
  /\ unseen' = unseen \cup Watchdogs
  /\ UNCHANGED <<life, view, created, watchdogPid, stalls, parent, child, faults, killed>>

LaunchWatchdog(c) ==
  /\ Step(c, "launch", "loop")
  /\ Reset(c)
  /\ Launch(c, Watchdogs)
  /\ parent' = [parent EXCEPT ![Fresh(Watchdogs)] = c]
  /\ UNCHANGED <<mapping, stalls, faults, killed>>

WatchdogMissing == ~Alive(watchdogPid)

\* The main loop: a heartbeat, and a look at the watchdog, dead or stalled.
CoreLoop(c) ==
  LET count   == IF c \in unseen THEN 0 ELSE stalls[c] + 1
      ensures == WatchdogMissing \/ count >= CoreStallLimit
  IN  /\ Prompt(c)
      /\ Step(c, "loop", IF ensures THEN "map" ELSE "loop")
      /\ Reset(c)
      /\ corePid' = c
      /\ unseen' = (IF WatchdogMissing THEN unseen ELSE unseen \ {c}) \cup Watchdogs
      /\ stalls' = [stalls EXCEPT ![c] = IF ensures THEN 0 ELSE count]
      /\ UNCHANGED <<life, view, created, watchdogPid, parent, child, faults, killed>>

-----------------------------------------------------------------------------
(* The watchdog *)

\* The core a watchdog looks at: the one in the mapping, or else the last it knew.
Watched(w) == IF corePid # Nobody THEN corePid ELSE parent[w]

\* What every look does first: a heartbeat, and a snapshot of the mapping.
Look(w, to) ==
  /\ Prompt(w)
  /\ Step(w, "look", to)
  /\ \A c \in Cores : life[c] = "running" => lag[c] < CorePeriod
  /\ lag' = [c \in Cores |-> IF life[c] = "running" THEN lag[c] + 1 ELSE lag[c]]
  /\ watchdogPid' = w
  /\ parent' = [parent EXCEPT ![w] = Watched(w)]
  /\ UNCHANGED <<life, view, created, corePid, child, faults, killed>>

\* The core is dead: its heartbeat is not looked at.
\* Mutant: once it has found the core dead the watchdog has nothing left to watch.
LeaveDead(w) == FALSE

FindDead(w) ==
  /\ ~Alive(Watched(w))
  /\ Look(w, "launch")
  /\ stalls' = [stalls EXCEPT ![w] = 0]
  /\ unseen' = unseen \cup Cores

\* Mutant: one look without a heartbeat is too many.
StalledAtOnce(count) == count >= 1

Stalled(count) == count >= WatchdogStallLimit

Count(w) == IF w \in unseen THEN 0 ELSE stalls[w] + 1

FindAlive(w) ==
  /\ Alive(Watched(w)) /\ ~Stalled(Count(w))
  /\ Look(w, "look")
  /\ stalls' = [stalls EXCEPT ![w] = Count(w)]
  /\ unseen' = (unseen \ {w}) \cup Cores

FindStalled(w) ==
  /\ Alive(Watched(w)) /\ Stalled(Count(w))
  /\ Look(w, "kill")
  /\ stalls' = [stalls EXCEPT ![w] = 0]
  /\ unseen' = (unseen \ {w}) \cup Cores

\* Mutant: another core is launched beside the stalled one.
LeaveStalled(w) ==
  /\ Step(w, "kill", "launch")
  /\ UNCHANGED <<life, mapping, stalls, parent, child, lag, faults, killed>>

\* TerminateProcess on the core that was found stalled, whatever it does by now.
Kill(w) ==
  /\ Step(w, "kill", "launch")
  /\ life' = [life EXCEPT ![parent[w]] = "dead"]
  /\ killed' = IF life[parent[w]] = "running" THEN killed \cup {parent[w]} ELSE killed
  /\ UNCHANGED <<mapping, stalls, parent, child, lag, faults>>

LaunchCore(w) ==
  /\ Step(w, "launch", "look")
  /\ Launch(w, Cores)
  /\ UNCHANGED <<mapping, stalls, parent, lag, faults, killed>>

-----------------------------------------------------------------------------
(* Faults *)

Fault(p, fate) ==
  /\ faults < MaxFaults /\ faults' = faults + 1
  /\ life[p] = "running"
  /\ life' = [life EXCEPT ![p] = fate]
  /\ UNCHANGED <<pc, mapping, stalls, parent, child, lag, killed>>

CoreStep(c) ==
  \/ Map(c)
  \/ RegisterCore(c)
  \/ EnsurePulse(c)
  \/ LaunchWatchdog(c)
  \/ CoreLoop(c)

WatchdogStep(w) ==
  \/ Map(w)
  \/ RegisterWatchdog(w)
  \/ FindDead(w)
  \/ FindAlive(w)
  \/ FindStalled(w)
  \/ Kill(w)
  \/ LaunchCore(w)

TwinNext ==
  \/ \E c \in Cores : CoreStep(c)
  \/ \E w \in Watchdogs : WatchdogStep(w)
  \/ \E p \in Processes : Fault(p, "dead")
  \/ \E p \in Processes : Fault(p, "frozen")

TwinSpec == TwinInit /\ [][TwinNext]_twinVars

\* Both programs loop for ever, with sleeps of some seconds.
Fairness ==
  /\ \A c \in Cores : WF_twinVars(CoreStep(c))
  /\ \A w \in Watchdogs : WF_twinVars(WatchdogStep(w))

FairTwinSpec == TwinSpec /\ Fairness

-----------------------------------------------------------------------------
(* Properties *)

TwinTypeOK ==
  /\ life \in [Processes -> {"unborn", "running", "frozen", "dead"}]
  /\ pc \in [Processes -> {"map", "register", "pulse", "launch", "loop", "look", "kill"}]
  /\ view \subseteq Processes /\ created \subseteq Processes /\ unseen \subseteq Processes
  /\ corePid \in Cores \cup {Nobody} /\ watchdogPid \in Watchdogs \cup {Nobody}
  /\ stalls \in [Processes -> Nat]
  /\ \A w \in Watchdogs : stalls[w] < WatchdogStallLimit
  /\ \A c \in Cores : stalls[c] < CoreStallLimit
  /\ parent \in [Watchdogs -> Cores \cup {Nobody}]
  /\ child \in [Processes -> Processes \cup {Nobody}]
  /\ lag \in [Cores -> 0..CorePeriod]
  /\ faults \in 0..MaxFaults /\ killed \subseteq Cores

Running(programs) == {p \in programs : life[p] = "running"}

\* In the mapping once, and not on the way to be again.
Registered(programs) == {p \in Living(programs) : pc[p] \notin {"map", "register"}}

(***************************************************************************)
(* However processes die, freeze and are started again, there are never    *)
(* two cores, nor two watchdogs, that live and have entered the mapping.   *)
(***************************************************************************)
OneOfEach ==
  /\ Cardinality(Registered(Cores)) <= 1
  /\ Cardinality(Registered(Watchdogs)) <= 1

(***************************************************************************)
(* No watchdog ever kills a core that is neither dead nor frozen, not even *)
(* one that has only just been started in the place of another.            *)
(***************************************************************************)
KillsOnlyStalled == killed = {}

(***************************************************************************)
(* As long as a watchdog runs, a core that died or froze is replaced by a  *)
(* running one.                                                            *)
(***************************************************************************)
CoreComesBack ==
  Running(Cores) = {} ~> \/ Running(Cores) # {}
                        \/ Running(Watchdogs) = {}
                        \/ Unborn(Cores) = {}

(***************************************************************************)
(* As long as a core runs, a watchdog that died, or that froze before it   *)
(* had entered the mapping, is replaced by a running one.                  *)
(***************************************************************************)
WatchdogComesBack ==
  Registered(Watchdogs) = {} ~> \/ Running(Watchdogs) # {}
                               \/ Running(Cores) = {}
                               \/ Unborn(Watchdogs) = {}
=============================================================================
