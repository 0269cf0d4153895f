------------------------------- MODULE Snapshot -------------------------------
(***************************************************************************)
(* What ConfigManager (client/core/config.cpp) makes of the content of the *)
(* configuration file: refuse it, or a snapshot in which everything the    *)
(* file does not say has its default.                                      *)
(*                                                                         *)
(* A document is a function from the keys it has to JSON values; objects   *)
(* nest.  A JSON value is a record with one field, named for its type:     *)
(* [boolean |-> b], [integer |-> i], [string |-> t], [array |-> set],      *)
(* [object |-> f], and [beyond |-> k] for the integer 2^64 - k, which is   *)
(* unsigned and above what 64 bits with a sign can hold.  A text is the    *)
(* sequence of its pieces, cut at slashes and colons, in lower case,       *)
(* without quotes and blanks and with its variables expanded.              *)
(***************************************************************************)
EXTENDS Integers, Sequences, FiniteSets, SequencesExt

CONSTANT Digests        \* pieces that are 64 hexadecimal digits

-----------------------------------------------------------------------------
(* The settings and their defaults.                                        *)

ScanSwitches ==
    { "enable_handle_scan", "enable_memory_region_scan", "enable_hook_scan",
      "enable_timing_scan", "enable_inline_hook_scan", "enable_manual_map_scan",
      "enable_device_scan", "enable_image_integrity_scan", "enable_artifact_scan",
      "enable_service_scan" }

SessionSwitches ==
    { "enable_baseline_tracking", "persist_baselines", "enable_lifetime_tracking",
      "enable_twin_watchdog", "enable_self_protect", "enable_injection_heuristics" }

ProbeSwitches ==
    { "enable_privilege_scan", "enable_eat_hook_scan", "enable_pipe_scan",
      "enable_syscall_stub_scan", "enable_hollowing_scan", "enable_mitigation_scan",
      "enable_stealth_scan", "enable_writable_image_scan", "enable_persistence_scan",
      "enable_port_scan", "enable_etw_scan", "enable_exception_dispatch_scan",
      "enable_hosts_scan", "enable_token_scan", "enable_connection_scan",
      "enable_evidence_window" }

OffByDefault == {"strict_mode", "require_valid_signature"}

Switches ==
    ScanSwitches \union SessionSwitches \union ProbeSwitches \union OffByDefault \union
    { "allow_unknown_microsoft_modules", "observe_only", "enforce_terminate_watched_tools" }

\* Numbers of the settings, with the range ValidateSnapshot allows and the default.
UnsignedLimits ==
    [ scan_interval_ms |-> <<100, 600000, 3000>>,
      alert_cooldown_ms |-> <<0, 86400000, 30000>>,
      max_alerts_per_minute |-> <<1, 100000, 60>>,
      evidence_window_ms |-> <<1000, 600000, 45000>>,
      evidence_min_samples |-> <<1, 1000, 3>>,
      evidence_min_sustained_high_samples |-> <<1, 1000, 3>>,
      evidence_settle_cycles |-> <<0, 1000, 5>> ]

SignedLimits ==
    [ evidence_min_average_risk |-> <<0, 1000, 55>>,
      evidence_min_peak_risk |-> <<0, 1000, 80>>,
      evidence_sustained_high_risk |-> <<0, 1000, 50>>,
      enforce_risk_threshold |-> <<1, 1000, 80>> ]

\* risk_weights, as far as module_birth ...
FindingWeights ==
    [ unknown_process |-> 10, unknown_module |-> 15, unsigned_module |-> 25,
      module_from_suspicious_directory |-> 30, unexpected_overlay |-> 20,
      external_process_handle |-> 35, debugger_attached |-> 40, known_bad_hash |-> 100,
      trusted_publisher |-> -25, trusted_hash |-> -50, api_hook |-> 45,
      timing_anomaly |-> 35, inline_hook |-> 50, manual_map |-> 55, risky_device |-> 70,
      image_integrity |-> 60, known_artifact |-> 55, suspicious_service |-> 60 ]

\* ... and from there.
SessionWeights ==
    [ module_birth |-> 40, code_mutation |-> 65, self_protect |-> 50, region_birth |-> 45,
      region_escalate |-> 55, handle_birth |-> 40, injection |-> 50,
      dangerous_privilege |-> 45, eat_hook |-> 55, suspicious_pipe |-> 50,
      syscall_stub |-> 60, hollowing |-> 70, mitigation |-> 40, stealth |-> 65,
      writable_image |-> 55, persistence |-> 50, suspicious_port |-> 35, etw_patch |-> 70,
      exception_dispatch |-> 65, hosts_tamper |-> 45, suspicious_token |-> 40,
      suspicious_connection |-> 40 ]

RiskWeights ==
    [k \in DOMAIN FindingWeights \union DOMAIN SessionWeights |->
        IF k \in DOMAIN FindingWeights THEN FindingWeights[k] ELSE SessionWeights[k]]

\* None of the lists has a default.
NameLists ==
    { "whitelisted_processes", "whitelisted_modules", "allowed_overlay_processes",
      "trusted_publishers", "whitelisted_signatures", "monitor_only_processes" }

HashLists == {"trusted_hashes", "known_bad_hashes"}

LogLevels == { "trace", "debug", "info", "warn", "warning", "error", "critical", "fatal",
               "off", "none" }

DefaultSnapshot ==
    [ schema_version |-> 1,
      switches |-> [s \in Switches |-> s \notin OffByDefault],
      limits   |-> [l \in DOMAIN UnsignedLimits |-> UnsignedLimits[l][3]] @@
                   [l \in DOMAIN SignedLimits |-> SignedLimits[l][3]],
      weights  |-> RiskWeights,
      process_name |-> "game.exe",
      roots    |-> {},
      names    |-> [l \in NameLists |-> {}],
      hashes   |-> [l \in HashLists |-> {}] ]

-----------------------------------------------------------------------------
(* Reading.                                                                *)

Has(object, key, kind) == kind \in DOMAIN object[key]

\* ReadBoolean and ReadString refuse a value of another type.
AreOf(kind, object, keys) == \A k \in keys \intersect DOMAIN object : Has(object, k, kind)

\* ReadUnsigned32. Numbers of 2^31 and more are refused here or by their limits.
AreUnsigned(object, keys) ==
    \A k \in keys \intersect DOMAIN object : Has(object, k, "integer") /\ object[k].integer >= 0

\* ReadInteger converts to 64 bits with a sign before it looks at the range.
AreIntegers(object, keys) ==
    \A k \in keys \intersect DOMAIN object : Has(object, k, "integer") \/ Has(object, k, "beyond")

IntegerOf(value) == IF "beyond" \in DOMAIN value THEN -value.beyond ELSE value.integer

\* What the object says, and the rest of the given values.
Booleans(object, given) ==
    [k \in DOMAIN given |-> IF k \in DOMAIN object THEN object[k].boolean ELSE given[k]]

Numbers(object, given) ==
    [k \in DOMAIN given |-> IF k \in DOMAIN object THEN IntegerOf(object[k]) ELSE given[k]]

\* Of a name only what follows the last slash counts.
NormalizeName(text) == IF text = << >> THEN "" ELSE Last(text)

NormalizeHash(text) == IF text # << >> /\ Head(text) = "sha256" THEN Tail(text) ELSE text

\* The strings of an array.
Texts(value) == {v.string : v \in value.array}

AreTexts(object, keys) ==
    \A k \in keys \intersect DOMAIN object :
        Has(object, k, "array") /\ \A v \in object[k].array : "string" \in DOMAIN v

\* readNameSet and readHashSet add what is not empty to the given sets.
NameSets(object, given) ==
    [k \in DOMAIN given |->
        given[k] \union IF k \in DOMAIN object
                        THEN {NormalizeName(t) : t \in Texts(object[k])} \ {""} ELSE {}]

HashSets(object, given) ==
    [k \in DOMAIN given |->
        given[k] \union IF k \in DOMAIN object
                        THEN {NormalizeHash(t) : t \in Texts(object[k])} \ {<< >>} ELSE {}]

-----------------------------------------------------------------------------
(* LoadConfigDetailed.                                                     *)

Sections == {"settings", "target", "risk_weights"}

Section(document, name) == IF name \in DOMAIN document THEN document[name].object ELSE << >>

ReadableSettings(settings) ==
    /\ AreOf("boolean", settings, Switches)
    /\ AreOf("string", settings, {"log_level", "baseline_directory", "ipc_hmac_secret"})
    /\ "log_level" \in DOMAIN settings => settings.log_level.string \in {<<l>> : l \in LogLevels}
    /\ AreUnsigned(settings, DOMAIN UnsignedLimits)
    /\ AreIntegers(settings, DOMAIN SignedLimits)

ReadableTarget(target) ==
    /\ AreOf("string", target, {"process_name", "window_title"})
    /\ AreTexts(target, {"expected_install_roots"})

\* Every value that is asked for has the type that is expected.
Readable(document) ==
    /\ AreUnsigned(document, {"schema_version"})
    /\ AreOf("object", document, Sections)
    /\ ReadableSettings(Section(document, "settings"))
    /\ ReadableTarget(Section(document, "target"))
    /\ AreIntegers(Section(document, "risk_weights"), DOMAIN RiskWeights)
    /\ AreTexts(document, NameLists \union HashLists \union {"suspicious_module_directories"})

TargetName(target, given) ==
    IF "process_name" \in DOMAIN target THEN NormalizeName(target.process_name.string) ELSE given

\* NormalizePath takes the backslashes from the end.
Roots(target, given) ==
    given \union IF "expected_install_roots" \in DOMAIN target
                 THEN Texts(target.expected_install_roots) \ {<< >>} ELSE {}

\* The candidate: the document over a snapshot.
Over(base, document) ==
    LET settings == Section(document, "settings")
        target   == Section(document, "target")
    IN  [ schema_version |-> IF "schema_version" \in DOMAIN document
                             THEN document.schema_version.integer ELSE base.schema_version,
          switches |-> Booleans(settings, base.switches),
          limits   |-> Numbers(settings, base.limits),
          weights  |-> Numbers(Section(document, "risk_weights"), base.weights),
          process_name |-> TargetName(target, base.process_name),
          roots    |-> Roots(target, base.roots),
          names    |-> NameSets(document, base.names),
          hashes   |-> HashSets(document, base.hashes) ]

Candidate(document) == Over(DefaultSnapshot, document)

\* ValidateSnapshot: the numbers ...
WithinLimits(snapshot) ==
    /\ \A l \in DOMAIN UnsignedLimits :
           snapshot.limits[l] \in UnsignedLimits[l][1]..UnsignedLimits[l][2]
    /\ \A l \in DOMAIN SignedLimits :
           snapshot.limits[l] \in SignedLimits[l][1]..SignedLimits[l][2]

ValidWeights(snapshot) == \A k \in DOMAIN RiskWeights : snapshot.weights[k] \in -1000..1000

\* ... and the rest. Known bad hashes are not looked at.
ValidateSnapshot(snapshot) ==
    /\ snapshot.schema_version = 1
    /\ snapshot.process_name # ""
    /\ WithinLimits(snapshot)
    /\ ValidWeights(snapshot)
    /\ snapshot.hashes["trusted_hashes"] \subseteq {<<d>> : d \in Digests}

Acceptable(document) == Readable(document) /\ ValidateSnapshot(Candidate(document))
=============================================================================
