-------------------------------- MODULE Detect --------------------------------
(***************************************************************************)
(* A scan cycle as a whole: what there is to be found in the game and on   *)
(* the machine, the configuration in force, and the report that RunCycle   *)
(* (client/core/engine.hpp) makes of them.                                 *)
(*                                                                         *)
(* Facts come and go and the configuration file is edited and loaded       *)
(* between the passes, and a cycle may have any number.  Calls that fail   *)
(* make no finding and are left out here; so is the lifetime tracker,      *)
(* which is modelled with its history in Tracking, and a baseline is not   *)
(* persisted.  The report is what the cycle hands to EmitFinding: of that, *)
(* what DispatchAlert sent within the last 30 seconds is not sent again    *)
(* (engine.hpp:274), which Tracking models.                                *)
(***************************************************************************)
EXTENDS Schedule, ModuleScans, Snapshot, Decide

CONSTANTS
    Facts,          \* all that may ever be found
    Documents,      \* contents of the configuration file
    Cycles,         \* numbers of cycles
    MaxRegions, MaxThreads, MaxMaps,    \* findings of one scan
    MaxFacts,       \* bound: facts at a time
    None            \* no report, no baseline, no document

ASSUME DetectAssumption ==
    /\ {MaxRegions, MaxThreads, MaxMaps, MaxFacts} \subseteq Nat
    /\ Cycles \subseteq Nat
    /\ None \notin Documents

\* What facts tell is what the scanners know of them.
ASSUME FactsAssumption ==
    \A f \in Facts :
        /\ f.fact = "module" => f.signs \subseteq ModuleSigns
        /\ f.fact = "process" => f.rights \subseteq {"debug", "load_driver", "tcb"}
        /\ f.fact = "parent" => f.sign \in {"none", "unopened", "untrusted"}
        /\ f.fact = "debugger" => f.sign \in Range(DebuggerSigns)
        /\ f.fact = "token" => f.sign \in {"elevated", "system", "high", "low", "impersonation"}
        /\ f.fact = "mitigation" =>
              f.sign \in {"no_dep", "dep_not_permanent", "no_aslr", "no_cfg", "remote_downgrade"}
        /\ f.fact = "overlay" => /\ f.styles \subseteq DOMAIN OverlayStyles
                                /\ f.coverage \in DOMAIN OverlayCoverage
        /\ f.fact \in {"device", "artifact"} => f.own \in Int
        /\ f.fact = "autorun" => f.place \in DOMAIN AutorunPlaces

VARIABLES
    world,      \* the facts
    accepted,   \* the last document that was put in force, for the properties
    snapshot,   \* snapshot_ : the configuration in force
    known,      \* the names of the modules of the baseline
    report      \* report of RunCycle, from its return to the end of the pass

vars == <<world, accepted, snapshot, known, report>>

\* The scanners with a switch.
SwitchOf ==
    [ hooks |-> "enable_hook_scan", inline_hooks |-> "enable_inline_hook_scan",
      manual_maps |-> "enable_manual_map_scan", handles |-> "enable_handle_scan",
      regions |-> "enable_memory_region_scan", devices |-> "enable_device_scan",
      image |-> "enable_image_integrity_scan", artifacts |-> "enable_artifact_scan",
      services |-> "enable_service_scan", timing |-> "enable_timing_scan",
      privileges |-> "enable_privilege_scan", eat_hooks |-> "enable_eat_hook_scan",
      pipes |-> "enable_pipe_scan", syscall_stubs |-> "enable_syscall_stub_scan",
      hollowing |-> "enable_hollowing_scan", mitigations |-> "enable_mitigation_scan",
      stealth |-> "enable_stealth_scan", writable_image |-> "enable_writable_image_scan",
      persistence |-> "enable_persistence_scan", ports |-> "enable_port_scan",
      etw |-> "enable_etw_scan", exception |-> "enable_exception_dispatch_scan",
      hosts |-> "enable_hosts_scan", token |-> "enable_token_scan",
      connections |-> "enable_connection_scan", baseline |-> "enable_baseline_tracking" ]

Enabled(s, c) == s \notin DOMAIN SwitchOf \/ c.switches[SwitchOf[s]]

Firsts(n, S) == {T \in SUBSET S : Cardinality(T) = Min({n, Cardinality(S)})}

\* Where a scan takes no more than so many, which ones: those at the lowest addresses,
\* the riskiest threads, and the riskiest modules for inspection.
Picks(facts, c) ==
    [ inspected : Inspections(facts, c),
      regions : Firsts(MaxRegions, SuspiciousRegions(facts)),
      maps : Firsts(MaxMaps, FactsOf(facts, "manual_map")),
      threads : {T \in Firsts(MaxThreads, FactsOf(facts, "thread")) :
                    \A t \in T, u \in FactsOf(facts, "thread") \ T :
                        ThreadRisk(t) >= ThreadRisk(u)} ]

\* The findings of one scanner.
FindingsOf(s, facts, c, base, pick) ==
    LET w == c.weights
        trusted == c.names["whitelisted_processes"]
    IN  CASE s = "target"         -> ProcessFindings(facts, c.roots, trusted, w)
          [] s = "baseline"       -> IF base = None THEN {}
                                     ELSE BaselineFindings(facts, base, c) \union
                                          InjectionFindings(facts, base, c)
          [] s = "modules"        -> ModuleFindings(facts, pick.inspected, c)
          [] s = "overlays"       -> OverlayFindings(facts, c.names["allowed_overlay_processes"], w)
          [] s = "debugger"       -> DebuggerFindings(facts, w)
          [] s = "threads"        -> ThreadFindings(pick.threads, w)
          [] s = "hooks"          -> HookFindings(facts, w)
          [] s = "inline_hooks"   -> InlineHookFindings(facts, w)
          [] s = "manual_maps"    -> ManualMapFindings(pick.maps, w)
          [] s = "handles"        -> HandleFindings(facts, trusted, w)
          [] s = "regions"        -> RegionFindings(pick.regions, w)
          [] s = "watched"        -> WatchedFindings(facts, c.names["monitor_only_processes"], w)
          [] s = "devices"        -> DeviceFindings(facts, w)
          [] s = "image"          -> ImageIntegrityFindings(facts, w)
          [] s = "artifacts"      -> ArtifactFindings(facts, w)
          [] s = "services"       -> ServiceFindings(facts, w)
          [] s = "timing"         -> TimingFindings(facts, w)
          [] s = "privileges"     -> PrivilegeFindings(facts, trusted, w)
          [] s = "eat_hooks"      -> EatHookFindings(facts, w)
          [] s = "pipes"          -> PipeFindings(facts, w)
          [] s = "syscall_stubs"  -> SyscallStubFindings(facts, w)
          [] s = "hollowing"      -> HollowingFindings(facts, w)
          [] s = "mitigations"    -> MitigationFindings(facts, w)
          [] s = "stealth"        -> StealthFindings(facts, w)
          [] s = "writable_image" -> WritableImageFindings(facts, w)
          [] s = "persistence"    -> PersistenceFindings(facts, w)
          [] s = "ports"          -> PortFindings(facts, w)
          [] s = "etw"            -> EtwFindings(facts, w)
          [] s = "exception"      -> ExceptionDispatchFindings(facts, w)
          [] s = "hosts"          -> HostsFindings(facts, w)
          [] s = "token"          -> TokenFindings(facts, w)
          [] s = "connections"    -> ConnectionFindings(facts, w)
          [] OTHER                -> {}

Report(facts, c, base, pick, scanners) ==
    UNION {FindingsOf(s, facts, c, base, pick) : s \in {t \in scanners : Enabled(t, c)}}

HighestRisk(findings) == Max({0} \union {f.risk_score : f \in findings})

-----------------------------------------------------------------------------
Init ==
    /\ world = {}
    /\ accepted = None
    /\ snapshot = DefaultSnapshot
    /\ known = None
    /\ report = None

\* Facts of these kinds exclude one another.
Exclusive(f, g) ==
    /\ f # g
    /\ f.fact = g.fact
    /\ \/ f.fact \in {"image_path", "parent"}
       \/ f.fact = "token" /\ {f.sign, g.sign} \subseteq {"system", "high", "low"}
       \/ f.fact = "mitigation" /\ {f.sign, g.sign} = {"no_dep", "dep_not_permanent"}
       \/ f.fact = "timing" /\ "stalled" \in {f.sign, g.sign}
       \/ f.fact = "prologue" /\ f.of = g.of

Appear(f) ==
    /\ f \notin world
    /\ Cardinality(world) < MaxFacts
    /\ ~\E g \in world : Exclusive(f, g)
    /\ report = None
    /\ world' = world \union {f}
    /\ UNCHANGED <<accepted, snapshot, known, report>>

Vanish(f) ==
    /\ report = None
    /\ world' = world \ {f}
    /\ UNCHANGED <<accepted, snapshot, known, report>>

\* Mutant of the next: what the document does not say stays as it was.
LoadOverTheLast(document) ==
    /\ report = None
    /\ UNCHANGED <<world, known, report>>
    /\ IF Acceptable(document)
       THEN /\ snapshot' = Over(snapshot, document)
            /\ accepted' = document
       ELSE UNCHANGED <<snapshot, accepted>>

\* What the documents come to, None for those that are refused.
Readings == [d \in Documents |-> IF Acceptable(d) THEN Candidate(d) ELSE None]

\* The file is edited and loaded again: as a whole or not at all.
Load(document) ==
    /\ report = None
    /\ UNCHANGED <<world, known, report>>
    /\ IF Readings[document] # None
       THEN /\ snapshot' = Readings[document]
            /\ accepted' = document
       ELSE UNCHANGED <<snapshot, accepted>>

\* The game is another process now.
Restart ==
    /\ known # None
    /\ known' = None
    /\ report = None
    /\ UNCHANGED <<world, accepted, snapshot, report>>

\* TrackBaseline: the first cycle establishes the baseline.
Established ==
    IF known = None /\ Enabled("baseline", snapshot)
    THEN {m.name : m \in FactsOf(world, "module")} ELSE known

KillList == ElevatedTools \ {"ida.exe"}

\* The processes MaybeTerminateWatchedTools tries to end, whether they are monitored or not.
Condemned ==
    IF snapshot.switches["observe_only"] \/ ~snapshot.switches["enforce_terminate_watched_tools"]
    THEN {} ELSE {p \in FactsOf(world, "process") : p.name \in KillList}

RunCycle(n) ==
    /\ report = None
    /\ \E pick \in Picks(world, snapshot) :
           report' = Report(world, snapshot, known, pick, {s \in DOMAIN Schedule : Due(s, n)})
    /\ known' = Established
    /\ \E ended \in SUBSET Condemned : world' = world \ ended
    /\ UNCHANGED <<accepted, snapshot>>

\* The report has been judged, and the pass is over.
Rest ==
    /\ report # None
    /\ report' = None
    /\ UNCHANGED <<world, accepted, snapshot, known>>

Next ==
    \/ \E f \in Facts : Appear(f)
    \/ \E f \in world : Vanish(f)
    \/ \E d \in Documents : Load(d)
    \/ Restart
    \/ \E n \in Cycles : RunCycle(n)
    \/ Rest

Spec == Init /\ [][Next]_vars

-----------------------------------------------------------------------------
\* The configuration in force is what a fresh reading makes of the last valid document:
\* neither earlier documents nor refused ones leave anything behind (config.hpp:325).
InForceIsTheFile ==
    snapshot = IF accepted = None THEN DefaultSnapshot ELSE Candidate(accepted)

\* Whatever was written, no number out of its range was put in force (config.cpp:1978).
InForceIsSound == accepted # None => WithinLimits(snapshot) /\ ValidWeights(snapshot)

\* Weights that add to a score, and a known bad file that weighs something, also where trust
\* in its publisher is taken off.
Sensible(c) ==
    /\ \A k \in DOMAIN c.weights \ {"trusted_publisher", "trusted_hash"} : c.weights[k] >= 0
    /\ c.weights["known_bad_hash"] >= 40
    /\ c.weights["known_bad_hash"] + c.weights["trusted_publisher"] >= 40

KnownBad(m, c) == m.file \in c.hashes["known_bad_hashes"] \ c.hashes["trusted_hashes"]

\* A loaded module with a known bad file is reported by every cycle, with the hash that the
\* server looks for, whatever speaks for it - its place, its name, its signer - unless the
\* configuration has files of its kind not looked at, or as many others as are inspected
\* are no less risky by themselves (engine.hpp:314, 338, 369).
KnownBadIsReported ==
    report # None /\ Sensible(snapshot) =>
    \A m \in Eligible(world, snapshot) :
        KnownBad(m, snapshot) =>
        \/ \E f \in report : m \in f.about /\ m.file \in f.details
        \/ Cardinality({n \in Eligible(world, snapshot) \ {m} :
                            BaseRisk(n, snapshot) >= BaseRisk(m, snapshot)}) >= MaxIntegrityChecks

\* Facts that mean that code of the game is not what was built.
CodeChanges == { "prologue", "import", "export", "manual_map", "writable_image", "hollowing",
                 "image", "text_patch" }

Enforcing == [observe_only_default : {FALSE}, kick_threshold : {40, 70}, ban_threshold : {90},
              known_bad_hashes : {{}}]

NewSession == [peak_risk |-> 0, finding_count |-> 0]

\* Changed code that one cycle scores at the kick threshold of the game has the player kicked
\* or banned at once, however many lesser findings come with it and lower the average: the
\* core calls the finding by a name that the server holds for critical (engine.hpp:179,
\* decide.rs:131).
CodeChangesKick ==
    report # None =>
    \A policy \in Enforcing :
        (\E f \in report : /\ \E a \in f.about : a.fact \in CodeChanges
                           /\ f.risk_score >= policy.kick_threshold) =>
        BuildDecision(NewSession, SetToSeq(report), policy, NoDecision).action \in {"kick", "ban"}

\* The highest risk that each scanner finds at least, whatever it picks.
LeastRisk(facts) ==
    LET picks == Picks(facts, snapshot)
    IN  [s \in DOMAIN Schedule |->
            Min({HighestRisk(FindingsOf(s, facts, snapshot, known, p)) : p \in picks})]

NothingSkipped(facts) ==
    /\ Cardinality(Eligible(facts, snapshot)) <= MaxIntegrityChecks
    /\ Cardinality(SuspiciousRegions(facts)) <= MaxRegions
    /\ Cardinality(FactsOf(facts, "manual_map")) <= MaxMaps

\* One more trace, of whatever kind, never has a scanner find less: nothing that is there
\* hides something else or makes it milder, while the lists are not full. The flags of a
\* debugger are excepted: seen before its object they are worth less (debugger.hpp:207).
WorseIsNotMilder ==
    [][\A f \in world' \ world :
           /\ Sensible(snapshot)
           /\ NothingSkipped(world')
           /\ ~(f.fact = "debugger" /\ f.sign = "flags")
           => LET before == LeastRisk(world)
                  after  == LeastRisk(world')
              IN  \A s \in DOMAIN Schedule : after[s] >= before[s]]_vars
=============================================================================
