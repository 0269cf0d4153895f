# Mjölnir in TLA+

Mjölnir watches a game for cheats. A C++ **core** scans the game's process, weighs
what it finds and may terminate it; a **twin watchdog** keeps the core running; an
**agent** in Rust reads the core's alerts from a named pipe and carries them to a
**control plane** server, which decides about a player's session. This directory
holds TLA+ models of these programs, translated from their source, the TLC runs that
check them on small instances, and TLAPS proofs of some of their properties for all
instances. `PROJECT.json` maps every definition to the lines it stands for, lists the
hazards of the code with the properties aimed at them, and names for each property a
plausible bug (a *mutant*) that TLC catches with it.

Check a model with `tlc -config X.cfg M`, a proof with `tlapm M.tla`.

## 1. Inventory

Paths are relative to `src/`.

| Component | State | Operations | Interacts with |
|---|---|---|---|
| Decision engine (`server/src/decide.rs`) | none | score a batch, boost for known hashes, decide, combine with the prior decision | called by ingest |
| Control plane handlers (`server/src/main.rs`) | locals of each request | create session, ingest, put policy, issue / show / verify challenge | the store, the agent and the studio over HTTP |
| Store (`server/src/store.rs`) | maps behind a lock, one JSON file per entry | put (file, then map), get, load all | files |
| Agent bridge (`client/agent/main.rs`) | queue, session id | enqueue, flush, open session, poll challenges | HTTP; one async lock shared by two tasks |
| Agent pipe reader (`client/agent/main.rs`) | incomplete line, last nonce, seen nonces | listen, read, split, verify | the pipe |
| Core pipe client (`client/core/ipc.hpp`) | handle, nonce | frame an alert, connect, write | the pipe; called by several threads |
| Twin watchdog (`twin_watchdog.hpp`, `watchdog_main.cpp`, part of `main.cpp`) | shared mapping with process identifiers and heartbeats, stall counts | pulse, look, terminate, start again | the other of the two processes |
| Core main loop (`client/core/main.cpp`, `RunCycle`) | target, cycle counter | reload, acquire, probe, scan, judge, terminate | everything in the core |
| Evidence window and enforcement (`evidence.hpp`, `enforce.hpp`) | samples, bound process, settle count | bind, push, prune, evaluate, terminate | main loop |
| Configuration (`config.cpp`) | snapshot, write time | load, validate, swap, reload if changed | main loop; the file is edited by others |
| Session trackers (`baseline.hpp`, `lifetime.hpp`, `injection.hpp`, `timing.hpp`) | baseline of modules in memory and in a file, regions, handles | establish, diff, observe, reset | main loop |
| Alert dispatch (`alert.hpp`) | recent alerts, sequence, sink, log | dispatch, prune, rotate | all finders; the pipe client |
| Integrity cache (`integrity.hpp`) | verdict per path, with write time and age | look up, hash, verify, store, clear | scan of modules, self protection; files change under it |
| Self protection (`self_protect.hpp`, `mitigations.hpp`) | hash of the own image, last pulse, a thread | initialize, pulse, inspect | main loop, alerts, integrity cache |
| Scanners (some thirty headers) | none | read system state, score | `RunCycle`, which levels, names and reports |
| API keys, UI, installation scripts, log reader | little or none | | |

Where it is hard:

* **Concurrency.** The server's lock guards a map access, not a request; the pipe
  client takes a nonce under one lock and writes under another; two tasks of the agent
  share the bridge over awaits; core and watchdog share memory and can die anywhere.
* **Failure.** A put is a file and then a map; an ingest is three puts; a write to the
  pipe may be short; an answer may be lost; a baseline is written in place; a file
  cannot be read for a moment, or is replaced while it is inspected.
* **Ordering and identity.** Nonces restart with the core; a process identifier may
  mean another process; a sample may be of another run of the game.
* **Time.** Challenges expire while polls fail; heartbeats stall; windows forget;
  alerts are suppressed for a while; verdicts on files are kept for ten minutes.
* **Addition.** Some thirty scanners score by themselves; thresholds in the core, names
  of categories and averages in the server decide what the sums mean. Budgets and caps
  drop findings, and documents with a hundred keys change every number.

What makes each part correct is stated with its module below. The hazards in
`PROJECT.json` give the line of each and, where no property covers one, the reason.

## 2. Modules

A module that needs constants TLC's configuration language cannot write has an
`MC` module beside it.

### The server

**`Decide`** — `score_events`, `apply_hash_boost`, `decide_action`, `build_decision`
as operators over sequences of findings, in integers. `KickAverage` keeps the
rounding of `floor(threshold * 0.7)` in doubles, which is one too low at 90, 170 and
180. Reasons and times are left out.

**`DecisionStream`** — one session that takes in every sequence of small batches under
changing policies. What must not matter: a batch sent twice only inflates the count
(`RetryOnlyCounts`), where a timer cuts the batches changes no ban, peak or count
(`BansSurviveBatching`), nor does the order within a batch (`OrderInBatchIrrelevant`);
an observing policy never escalates (`ObserveOnlyNeverEscalates`).

**`ControlPlane`** — handlers as tasks with a program counter and local variables, one
step per access to the store: a put is a step for the file and one for the map; every
write may fail; the process may die between any two steps and restarts by loading
the files. Rename is taken to be atomic and durable. Evidence is written and never
read back (but for the challenge, see below) and is left out.
`AnswersAreDurable`: what a client was told survives. `MapsMatchFiles`: maps and
files agree when no request is under way. `StickyDecisions`: a stored verdict never weakens.
`StoredPoliciesOrdered`: racing updates, each validated alone, never store a kick
threshold that is not below the ban threshold.

**`SessionLedger`** — what the server promises about sessions, abstractly: findings
are recorded and then judged, neither is ever withdrawn or weakened. `ControlPlane`
implements it (`ImplementsLedger`): the ledger's record and verdict are the session
and decision *files*.

**`Challenge`** — challenges of one session: issued, superseded, shown, answered,
replayed, expired; the server restarts. `PresenceIsLive`: a receipt means that an
agent was shown that very challenge and answered it. `AnsweredInTime`: an agent that
is there answers every challenge that is not superseded before it expires.

### Agent and pipe

**`AgentBridge`** — `ServerBridge` and its two tasks; `guard` says who holds the lock
and which request it awaits. `NothingLost`: a finding is dropped only by overflow,
from the front. `StoredInOrder`, `BatchFits` (the server's limit of 200 is never
exceeded), `AnsweredNotResent`, and the liveness property `EventuallyStored`, through
failures, lost answers and forgotten sessions. The agent's queue is only in memory;
its own restart is not modelled.

**`IpcChannel`** — both ends of the pipe: nonce and frame per alerting thread, short
writes, dead handles, the reader's line buffer, the nonce watermark, restarts of both
ends. `AcceptedInOrder`, `NothingFollowsAFragment`, `SeenBounded`, `AgentComesBack`.

### The core

**`TwinWatchdog`** — both programs' loops over the mapping, which exists as long as
one process has it open; processes die or freeze at any step. `OneOfEach`,
`KillsOnlyStalled`, `CoreComesBack`, `WatchdogComesBack`.

**`CoreCycle`** — the main loop: reload (`KeepConfig`, `ReadConfig`, `SwapConfig`),
target (`Acquire`, `Probe`, `Lost`), scan (`Scan`, `ScanNothing`, with the schedule of
all scanners), judgement (`Spare`, `Terminate`, `TerminateFails`). The evidence window
is a set of samples with age and risk, and with a ghost field that says which process
each came from. `EnforcedOnEvidence`: with the window on, a game is terminated only if
the samples of *that very process*, recent and taken after it settled, convict by
themselves. `CheatIsStopped`: findings that are high in every cycle, with a peak from
a scanner that runs now and then, end in termination if the core may enforce.
`EditsTakeEffect`: a valid configuration that is written and left alone comes into
force and stays, unless it was written while a load that had read what was there before
was still to take the write time (the ghost field `raced` of the file). The code loses that
edit (section 3), and the run contains it.

**`Schedule`** — which scanners run in which cycle, the table of `RunCycle`; used by
`CoreCycle` and `Detect`.

**`CodeScans`, `HostScans`, `ModuleScans`** — what every scanner makes of what there is,
as operators: a *fact* is something to be found (a patched prologue of one shape, an
overlay with certain styles, a handle with certain rights, a module with its file and
signer), a scanner maps the set of facts and the weights of the configuration to
findings with category, level and risk. Conditions, caps, aggregation per owner and the
order in which a score is built are kept; bytes, addresses and names are abstracted to
what the conditions tell apart (`Shapes`, for instance, has one member for each kind of
prologue that some scanner tells from another, so that a patch one scanner knows and
another does not is in the model). Modules go through path signs, whitelist, signer,
hash lists and the budget of inspections (`Inspections`: every choice that the sort by
risk allows), and new ones through baseline and injection heuristics.

**`Snapshot`** — `LoadConfigDetailed` and `ValidateSnapshot`: a document (JSON values by
type) becomes a candidate over the default values, with every switch, limit, weight
and list that some scanner or the loop reads, the type each is read with, its range,
and the normalisation of names and hashes. A reading with one bad value refuses the
whole document.

**`Detect`** — composes all of these with `Decide`: facts appear and vanish, documents are
written and loaded, the game starts again, a cycle runs and is judged as the server would
judge it. `InForceIsTheFile`: the configuration in force is what a fresh reading makes
of the last valid document, nothing of earlier ones is left over and nothing of a refused one comes in.
`KnownBadIsReported`: a loaded module with a known bad file is reported with its hash in
every cycle, whatever speaks for it, unless the configuration or the budget of
inspections keeps it from being looked at (reported to `EmitFinding`: what was sent within
the last thirty seconds is not sent again, see section 4). `CodeChangesKick`: changed code that one
cycle scores at the kick threshold gets the player kicked or banned at once, through the core's category
names, the server's critical list and its averages. `WorseIsNotMilder`: one
more trace never makes any scanner find less.

**`Integrity`** — `InspectFile` step by step (attributes, write time, cache, hash,
signature, store), with the scan of modules and the look at the core's own image as its
callers, while files are replaced and calls fail between any two steps.
`CachedIsCurrent`: what a look would take from the cache is the verdict on the file as it
is. `AlertMeansChange`: no alarm over the core's own image without a change or a recent failure.
`VerdictsCatchUp`: what is said of a file that stays comes to be true and stays so.

**`Tracking`** — baseline, lifetime tracker and alert cooldown, between which the game
changes: modules, protections, handles come and go. `NeverForgiven`: a module once
reported as new enters no later baseline. `LifetimeSinceLastLook`: what is reported
appeared since the last look at this very process, and nothing worse goes unreported.
`AlertedAgain`: the cooldown delays what persists and never silences it.

## 3. Runs

| Run | Bounds | Result |
|---|---|---|
| `decision_stream` | six batches of up to two findings, eight policies, five findings | holds |
| `control_plane_serial` | two handlers, two sessions, one game, two findings each | holds, 570 000 states |
| `control_plane_overlap` | two handlers, one session, clients that do not wait | **violates `StickyDecisions`** |
| `ipc_channel` | two threads, four nonces, two runs of the core, limits 2 and 1 | holds, 70 000 states |
| `ipc_core_restart` | one thread, three nonces, two runs | **violates `OnlyStaleRefused`** |
| `agent_bridge` | queue of two, four findings, three sessions, two lost answers | holds |
| `challenge` | two handlers, two challenges, two failures, lifetime four polls | holds |
| `twin_watchdog` | three processes of each program, two faults, a limit of three looks | holds, 26 000 states |
| `core_cycle` | one identifier, two games, two scanners, window of two ticks, two edits at any point, one refused call | holds, 1 270 000 states |
| `tracking` | one identifier, two games, one foreign module, one region, one owner of up to two handles, two changes, one mishap | holds, 460 000 states |
| `detect` | every two of some fifty facts, seven documents, five cycles that between them run every scanner, lists cut off at one | holds, 127 000 states |
| `integrity` | one module and the core's image, a cache for one of them, two files replaced, two failed calls | holds, 680 000 states |

`detect` and `integrity` check that the loop never deadlocks. The other runs do not: with
the bounds on requests, faults and starts their models come to rest, and so do the
programs when nothing happens around them. `TypeOK` is an invariant of the runs
`core_cycle`, `ipc_channel` and `integrity`; the other modules define one as
documentation of their state and spend their runs on the rest.

**Why the bounds are enough.** The limits (queue, nonce window, evidence window,
thresholds of stalls) are constants, and the instances make them small so that they
are reached and passed: the queue overflows, the nonce set is pruned, samples expire
within a game, both stall limits trigger. Two of everything that competes are enough for the races the
code can have, since no operation involves a third party; a second game on the one
process identifier is what makes stale state visible. In `CoreCycle` and `Tracking`
scores are those of the shipped weights; only their order relative to the thresholds
matters. In `Detect` two facts at a time are every pair of traces, which is where one
finding can displace, cap or dilute another; the limits of the lists are one, so that two facts pass them. In
`Integrity` a cache for one entry is emptied by the other, and two writes and two
failures fall into one inspection.

**The two violations.** Each contradicts a text of the repository, quoted in
`PROJECT.json` under `findings`.

1. *A ban is overwritten* (`control_plane_overlap`). `ingest` reads the prior decision
   and stores its own with nothing held in between. It needs two requests of one
   session at once: a client whose request timed out after eight seconds and was sent
   again, or two agents of one session. With `ClientsWait` the property holds.
2. *Fresh frames are refused* (`ipc_core_restart`). A restarted core counts nonces from
   one; the agent keeps the old watermark over connections.

Found while modelling, and without a run of their own:

* A watchdog that freezes after it has registered stays: the core says that it starts
  it again (`main.cpp:368`), and `EnsureTwinWatchdog` then finds it alive.
  `WatchdogComesBack` excepts it.
* The lifetime tracker is given only the riskiest handle of each owner (`handles.hpp:545`)
  and reports one that was there all along as new when a riskier one is closed.
* An edit between the reading of the configuration file and the reading of its write time
  (`config.cpp:1331`) is taken for loaded, and the core goes on with what was there before
  until the next edit. No text of the repository promises otherwise; `EditsTakeEffect`
  excepts exactly such an edit, and without `~file.raced` TLC finds it violated.
* The branch `region_escalate` cannot be reached (`Escalated` is always empty): the scan
  it feeds on lists only regions that are already executable.
* With the shipped settings a single sample of 170 among three carries the average over
  55, so that one cycle may terminate a game although `config.hpp:203` wants more than
  the peak of one cycle. Conversely a valid configuration may ask for more samples
  than its window can hold at its interval, and then nothing is ever enforced.
* The flags and the object of a debugger together are worth less than the object alone
  (35 against 40, `debugger.hpp:207`); `WorseIsNotMilder` excepts this case.
* A known bad file is never hashed if it is whitelisted or in a system folder, unless
  `require_valid_signature` is on (`engine.hpp:338`), or if eight riskier modules are
  loaded (`engine.hpp:314`); the guards of `KnownBadIsReported` name both.
* `trusted_publishers` are normalised like file names (`config.cpp:1161`), so that a
  publisher with a slash in its name can never match. A weight of 2^64 - k is read as -k
  (`config.cpp:179`, `IntegerOf`).
* `monitor_only_processes` keeps nothing from being terminated: what counts is the list
  of the enforcement (`enforce.hpp:204`).
* An error while the core hashes its own image is taken for the end of the file
  (`integrity.hpp:225`): the hash of the part is compared ever after. If the image cannot
  be opened at the start, the check is off for good.
* A configuration may ask for a scan every ten minutes (`config.cpp:1997`), and the
  watchdog takes a core for stalled that has not beaten for six looks of two seconds
  (`watchdog_main.cpp:113`): it then kills a core that is well. With `CorePeriod` 1 and a
  limit of two, against `PeriodAssumption`, TLC finds `KillsOnlyStalled` violated.
* A weight for known bad files below 40 may leave a file that is known to be bad unreported
  once Microsoft's signature takes 20 off (`engine.hpp:369`): the proof of `KnownBadReported`
  does not go through for it, and `Sensible` asks for the 40.
* The settings `max_alerts_per_minute`, `whitelisted_signatures`,
  `suspicious_module_directories`, `log_level` and `strict_mode` are read and validated
  and then used by nothing.

## 4. Assumptions

*Fairness.* The core's loop never blocks for good and is weakly fair
(`CoreCycle`, `Tracking`); so are the loops of core and watchdog processes
(`TwinWatchdog`), and the agent's listening and reading (`IpcChannel`). In
`AgentBridge` the timers make tasks act again and again (weak), a request that is
tried for ever is answered at some time, and so is a lock that is free again and
again obtained (strong: the queue of the async lock is fair, and a network that never
lets anything through is no case in which delivery is promised). Nothing external
(requests, crashes, edits, cheats) is ever assumed to happen.

*Per module.*

* `ControlPlane`: an answer lost in the network is the same as a client that does not
  wait. `MapsMatchFiles` and `StickyDecisions` are checked for clients that wait.
* `Challenge`: sixty seconds are four polls of fifteen; a handler takes less than a
  tick; failures are so few that a poll fits (`ChallengeAssumption`).
* `TwinWatchdog`: identifiers are not used twice; a process that was started has entered
  its identifier, or is dead or frozen, before the one that started it looks again (`Prompt`,
  `Joining`); a running core takes a step between `CorePeriod` looks at it, and the limit of
  the watchdog covers three of these periods (`PeriodAssumption`: between two heartbeats a
  core that enters the mapping again takes three steps). With the shipped numbers - a scan
  every three seconds, a look every two, a limit of six - that holds with nothing to spare;
  see section 3. No process freezes inside the mutex; system calls succeed.
  A clean shutdown is a death like any other. Which unborn process is started is a
  `CHOOSE`: they are interchangeable.
* `CoreCycle`: one tick is a pass, scans and sleep together. The name of the target is
  fixed. An identifier is not given to another process while the core still holds it
  (`Start`); a reuse within one pass would pass the probe unnoticed. Termination is
  immediate. All scanners are enabled. Every edit has a new write time. Of the configuration
  only `observe_only`, `enable_evidence_window` and validity change; what else a document can
  say is in `Snapshot`. In the run a file that wants the core to observe leaves the window on
  (`MCWritten`): while it observes, the core does not ask for it. Two edits are a good, a
  broken and again a good file, and one edit that races with a load and one before it.
* `Detect`: facts stand still during a cycle; the report is what the scanners hand to
  `EmitFinding`, of which those that were sent within the last thirty seconds are not
  sent again (`engine.hpp:274-286`; `Tracking` models that cooldown); calls do not fail (a
  failed scan makes no finding); what cannot be the case of one process at a time is excluded (`Exclusive`);
  what a scanner keeps when its list is full is any set that its order allows (`Picks`).
  A fresh baseline is made when the game is another process. `CodeChangesKick` is stated for policies
  that enforce and know no hashes, and `WorseIsNotMilder` and `KnownBadIsReported` for
  configurations whose weights are not negative where a bonus is meant and that give a
  known bad file at least 40, with and without the trust in its publisher (`Sensible`; the
  default is 100 and 75). Facts tell what the scanner of their kind can know and nothing else:
  modules have signs of the list, processes the rights that are looked for, and so on
  (`FactsAssumption`).
* `DecisionStream`: findings have a risk of 32 bits and texts (`Findings`), policies a flag and
  numbers.
* `Integrity`: a file never has a write time again that it had before; one inspection is
  short against the ten minutes of a verdict, so that time passes between inspections.
  Failed calls are bounded. `AlertMeansChange` assumes that the image could be read as a
  whole when the core started.
* `Tracking`: one build of the game, all of whose modules are off the whitelist; a text that can be read when a
  baseline is made can be read later; an alert older than the cooldown has the effect
  of none, so pruning is not a step of its own. A baseline that fails to be written or
  opened (`DiskFaults`) is off in the run and excluded from `NeverForgiven`: it does
  let a reported module into the next baseline. A crash in the middle of the write is
  in the run. That nothing was seen yet is no set and no function (`NoneIsNothingSeen`).

## 5. Proofs

The theorems hold for every value of the constants that satisfies the named assumptions
of section 4. Except for the last steps they are proofs about single steps: an invariant
that implies the property, holds at the start and is kept by every action.

**`IpcChannelProofs`**, for any threads, limits and bounds (`IpcAssumption`):
`TypeCorrect`, `Ordered` (`AcceptedInOrder`), `Framed` (`NothingFollowsAFragment`),
`Bounded` (`SeenBounded`). Order needs that everything accepted lies below the
watermark (`OrderInv`); framing that the pipe and the line buffer are empty unless
connected (`FramingInv`); the bound that what is remembered lies in `1..last`
(`SeenInv`), since pruning leaves at most the window below it.

**`CoreCycleProofs`**, for any scanners, scores, settings and number of games
(`CoreCycleAssumption`): `WellTyped` (`TypeOK`) and `OnlyOwnEvidence`, which states
`EnforcedOnEvidence`. That property is
about a step; the inductive invariant `IInv` ties window and process together: a
bound window is bound to the target (`BoundInv`), its samples come from the process
that has the identifier now, taken after it settled (`OwnInv`), and no cycle is counted
that was not a scan of that process (`CountInv`). Without the last one the settling
of one process could be credited to the next. For types the difficulty is the report of a
scan, whose risk is the greatest of a set of scores: `HighestIsRisk` proves that a finite
set of numbers has a greatest; and ages, which `FreshInv` keeps within the window until the sleep adds
one.

**`TrackingProofs`**, for any modules and any number of games and crashes
(`TrackingAssumption`): `StaysReported` states `NeverForgiven`. The baseline in memory
is the one in the file, a file that can be loaded is never written again, and before
there is one nothing can have been reported (`DiskInv`); a game always has its own
module, which makes what is saved loadable (`GameInv`). `ReportsWhatCame` states
`LifetimeSinceLastLook`, which is about steps: a look at regions or at handles reports what
is new against what the last look at this very process met, which the model keeps as history,
and the tracker has a memory of its own. `LookInv` says that the two agree: the tracker is
bound to the target before it looks and forgets with it (`BoundInv`), and it remembers the
regions that were met and of each owner's handles the worst (`MemoryInv`). A handle worse
than all of an owner's earlier ones was not the worst of those, so it is not taken for
known (`WorseIsNew`).

**`IntegrityProofs`**, for any files, contents, ages, capacities, writes and failures
(`IntegrityAssumption`): `TypeCorrect` (`TypeOK`, with the bound of the cache),
`NothingStale` (`CachedIsCurrent`) and `NoFalseAlarm` (`AlertMeansChange`). The inductive
invariant `IInv` says that no write time lies in the future (`TimesInv`), that a whole
entry with the present write time has the present content (`CacheInv`), the same of
the inspection under way (`JobInv`), which is what makes storing sound, and that an
entry of the core's image that is not whole is no younger than the last failure (`FailedInv`).

**`JudgementProofs`** is about the two judges, the core of what it finds and the server of
what it is sent.

* For any facts, documents and limits (`DetectAssumption`, `FactsAssumption`,
  `ModuleScansAssumption`):
  `FreshReading` states `InForceIsTheFile`; `NumbersInRange` that whatever documents are
  written, no limit and no weight out of its range is ever put in force; `KnownBadReported`
  states `KnownBadIsReported`. The last needs that the report on the table was made of
  the modules and of the configuration as they still are (`ReportInv`), and that the
  configuration has numbers for weights and no empty hash in its list (`WeighedInv`). A
  module that was inspected scores 20 at least (`KnownBadScores`); one that was not stands
  behind a full list of others (`BehindTheInspected`). Its own risk is a sum over signs, and
  that such a sum is a number is `SumIsNumber`. `ChangedCodeKicks` states `CodeChangesKick`:
  whatever else a cycle reports, the decision on its whole report is not milder than the one
  on the finding about changed code. Its invariant `JudgedInv` says that every finding of
  every scanner has a number for its risk and, if it is about changed code, a category that
  is judged critical. That goes by one lemma per group of scanners, which `ScanJudged` puts
  together. The report is a finite set, so it can be listed (`ListedAll`), and the peak of
  the list is the risk of the changed code at least (`KickedAtOnce`).
* For any batches, policies and starting record (`DecisionStreamAssumption`): `RetriesOnlyCount`
  (`RetryOnlyCounts`), `ObserversDoNothing` (`ObserveOnlyNeverEscalates`), `CutsDoNotMatter`
  (`BansSurviveBatching`). All rest on `PeakFacts`: the peak of a batch is one of its risks,
  or zero, and none exceeds it; so the peak of two batches one after the other is that of
  their concatenation (`TwoPeaks`), and with it the ban (`TwoBans`). `OrderDoesNotMatter`
  (`OrderInBatchIrrelevant`) needs the average too: the fold takes the findings from the last
  one down, the sum it computes may be taken in any order (`RiskSumIsTotal`), and of the
  sets of places where a batch and its reverse had different sums a smallest would have
  a smaller one (`ReverseSum`).

**`WatchProofs`** is about those who watch over each other.

* `Challenge`, for any handlers, periods and bounds (`ChallengeAssumption`, with polls that
  may fail so often that two more still fit into a challenge's life): `TypeCorrect`; `LiveOnly`
  (`PresenceIsLive`) needs that all that is sent or verified has been shown (`ShownInv`);
  `InTime` (`AnsweredInTime`) that while a challenge is active and not verified every poll
  that ended has failed but the one that was under way before, and that polls end within
  a period of each other (`PollInv`, `IssueInv`).
* `TwinWatchdog`, for any processes, limits and faults (`TwinAssumption`): `NeverTwo` states
  `OneOfEach`. Its invariant `TwinInv` says of every pair of processes how they stand: who
  has registered is the one in the mapping (`MappingInv`), beside a running process others of its
  program are only *adrift*, frozen before they entered (`AloneInv`); a running core and
  a running watchdog have launched or watch each other (`PairInv`); who is about to kill or
  to launch has no living twin but those adrift (`KillInv`, `LaunchInv`). `KillsJustly`
  (`KillsOnlyStalled`, with `PeriodAssumption`) counts on top of it: a watchdog has counted
  less than its `Patience` with a running core, unless a heartbeat is there that it has
  not seen (`StallInv`).

**`ControlPlaneProofs`**, for any sessions, games, handlers, batches and updates
(`ControlPlaneAssumption`; `RecordsAssumption`: the absence of a record is not one), in
two layers. Whatever clients do: `TypeCorrect` (`TypeOK`) and `PoliciesOrdered`
(`StoredPoliciesOrdered`); a policy is ordered from its validation to its file, whatever
replaces the one it was laid over (`LocalInv`). If clients wait for their answers
(`ClientsWait`, which the violating run shows to be needed): `Durable`
(`AnswersAreDurable`), `MapsMatch` (`MapsMatchFiles`), `Sticky` (`StickyDecisions`) and
`Implements` (`ImplementsLedger`). The inductive invariant `SerialInv` says that one handler
at most is at a session (`AloneInv`), so what it read is still so when it writes
(`ProgressInv`: the session it judges is the one in the file, its decision covers the
stored one); that maps and files agree unless it is between them (`MappedInv`); and that
no decision is ahead of its session's record (`RecordedInv`), without which an ingest
after a crash between the two files could weaken a verdict. Of all steps only
`WriteSession` and `WriteDecision` change the ledger.

**`AgentBridgeProofs`**, for any capacity and bounds (`BridgeAssumption`): `Complete`
(`NothingLost`), `InOrderOfReading` (`StoredInOrder`), `Fitting` (`BatchFits`), `NotResent`
(`AnsweredNotResent`). The queue stays empty while a batch is in flight, so a batch goes
back whole (`SendInv`); both are increasing (`OrderInv`); and whatever is still to be
stored was stored before anything later that is stored already (`OvertakenInv`), which is
what makes the order survive lost answers.

*Induction over data.* The library's induction theorems take an operator, which the
installed provers cannot instantiate. Where a proof needs one, it takes a least
counterexample instead (`LeastNumber`, from the well-foundedness of the natural numbers):
`PeakFacts`, `MaxOfFinite`, `FiniteMax`, `Greatest`, `TotalRecurs` with `SumIsNumber`, which
show that the recursive function inside a fold over a finite set exists and what it is, and
`AnyLast`, that a sum does not depend on the order in which it is taken.

Only model-checked: all liveness properties, `AlertedAgain` of `Tracking` among them (beyond
the prover); of `Detect` `WorseIsNotMilder`, which compares the findings of all scanners
before and after a change, sums, picks and full lists included.

## 6. Not modelled

System calls and what scanners read with them; the bytes of frames, MACs, JSON, file
names; read-only handlers, the webhook, API keys, validation that only refuses; the
log file and its rotation; the UI (a second reader of the pipe that only displays);
the installation scripts and the log reader (sequential, no shared state). Of self
protection, the pulse thread (it only reports that the loop is stuck) and the policies
the core sets for itself. `memory.hpp` beyond opening and probing the
target: its pattern search is called by nothing.

## 7. Plan

Done, in this order, by importance: the verdict on a player (`Decide`,
`DecisionStream`, `ControlPlane`, `SessionLedger`), the path of a finding
(`IpcChannel`, `AgentBridge`), presence (`Challenge`), survival (`TwinWatchdog`),
enforcement (`CoreCycle`), memory of a session (`Tracking`), configuration and scores
(`Snapshot`, `CodeScans`, `HostScans`, `ModuleScans`, `Detect`), verdicts on files
(`Integrity`).

Next:

1. Proofs: `WorseIsNotMilder`, by a lemma per scanner.
2. `SelfProtect` — the pulse thread against a stuck loop, and alerts of two threads.
