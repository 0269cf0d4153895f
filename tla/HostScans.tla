------------------------------ MODULE HostScans ------------------------------
(***************************************************************************)
(* The scanners that look at the game's process from outside and at the    *)
(* machine it runs on, as operators from facts to findings (see CodeScans) *)
(* Names the scanners search for are left out: a fact is one that matched. *)
(***************************************************************************)
EXTENDS CodeScans, FiniteSetsExt, SequencesExt

SumOf(table, signs) == MapThenSumSet(LAMBDA s : table[s], signs)

Larger(a, b) == IF a >= b THEN a ELSE b

SignsOf(world, kind) == {f.sign : f \in FactsOf(world, kind)}

-----------------------------------------------------------------------------
(* The process of the game.                                                *)

\* Where its image lies, if not in one of the roots, and what started it, if that is not
\* known to start games; one of each at most.
ImageSigns(world, roots) ==
    {IF f.path = << >> THEN "unresolved" ELSE "outside" :
        f \in {g \in FactsOf(world, "image_path") :
                  g.path = << >> \/ (roots # {} /\ ~\E r \in roots : IsPrefix(r, g.path))}}

ParentSigns(world, whitelisted) ==
    {f.sign : f \in {g \in FactsOf(world, "parent") : g.name \notin whitelisted}}

ProvenanceRisk(image, parent, w) ==
    SumOf([unresolved |-> 15, outside |-> 20], image) +
    SumOf([none |-> 10, unopened |-> w.unknown_process + 5,
           untrusted |-> w.unknown_process + 15], parent)

\* A score below 15 is not reported.
ProcessFindings(world, roots, whitelisted, w) ==
    LET risk == ProvenanceRisk(ImageSigns(world, roots), ParentSigns(world, whitelisted), w)
    IN  IF risk < 15 THEN {}
        ELSE {Finding("TARGET", risk, FactsOf(world, "image_path") \union FactsOf(world, "parent"))}

\* The signs of a debugger in the order they are looked for, with what each adds
\* when it is the first and when it is not.
DebuggerSigns == <<"remote", "port", "flags", "object", "breakpoints">>

FirstSign(w) ==
    [remote |-> w.debugger_attached, port |-> w.debugger_attached,
     flags |-> Part(w.debugger_attached, 2) + 5, object |-> w.debugger_attached,
     breakpoints |-> Part(w.debugger_attached, 2) + 10]

LaterSign == [remote |-> 0, port |-> 10, flags |-> 8, object |-> 10, breakpoints |-> 12]

DebuggerRisk(signs, w) ==
    LET first == DebuggerSigns[Min({i \in DOMAIN DebuggerSigns : DebuggerSigns[i] \in signs})]
    IN  FirstSign(w)[first] + SumOf(LaterSign, signs \ {first})

\* ScanDebugger puts a limit to the sum.
DebuggerFindings(world, w) ==
    LET signs == SignsOf(world, "debugger")
    IN  IF signs = {} THEN {}
        ELSE {Finding("DEBUGGER", Min({DebuggerRisk(signs, w), w.debugger_attached + 30}),
                      FactsOf(world, "debugger"))}

\* The access token; of the integrity levels at most one.
TokenRisk(signs, w) ==
    SumOf([elevated |-> w.suspicious_token, system |-> w.suspicious_token + 15,
           high |-> w.suspicious_token, low |-> Part(w.suspicious_token, 2),
           impersonation |-> w.suspicious_token + 10], signs)

TokenFindings(world, w) ==
    LET signs == SignsOf(world, "token")
    IN  IF signs = {} THEN {}
        ELSE {Finding("TOKEN", Larger(TokenRisk(signs, w), Part(w.suspicious_token, 2)),
                      FactsOf(world, "token"))}

MitigationRisk(signs, w) ==
    SumOf([no_dep |-> w.mitigation, dep_not_permanent |-> 10, no_aslr |-> Part(w.mitigation, 2),
           no_cfg |-> Part(w.mitigation, 2), remote_downgrade |-> w.mitigation], signs)

MitigationFindings(world, w) ==
    LET signs == SignsOf(world, "mitigation")
    IN  IF signs = {} THEN {}
        ELSE {Finding("MITIGATION", MitigationRisk(signs, w), FactsOf(world, "mitigation"))}

\* The two clocks over a short loop; a tick count that stands still is all there is to say.
TimingRisk(signs, w) ==
    IF "stalled" \in signs THEN w.timing_anomaly
    ELSE (IF "divergent" \in signs THEN w.timing_anomaly ELSE 0)
       + (IF "slow" \in signs THEN Part(w.timing_anomaly, 2) ELSE 0)

TimingFindings(world, w) ==
    LET signs == SignsOf(world, "timing")
    IN  IF signs = {} THEN {} ELSE {Finding("TIMING", TimingRisk(signs, w), FactsOf(world, "timing"))}

-----------------------------------------------------------------------------
(* Windows over the game's window.                                         *)

OverlayStyles == [layered |-> 15, transparent |-> 25, topmost |-> 15, tool |-> 5,
                  no_activate |-> 10, no_title |-> 5]

OverlayCoverage == [most |-> 25, part |-> 15, within |-> 10, little |-> 0]

OverlayRisk(o, allowed) ==
    LET sum == SumOf(OverlayStyles, o.styles)
             + (IF {"layered", "transparent", "topmost"} \subseteq o.styles THEN 20 ELSE 0)
             + OverlayCoverage[o.coverage]
             + (IF o.suspicious_path THEN 30 ELSE 0)
    IN  IF o.process \in allowed THEN Larger(0, sum - 30) ELSE sum + 10

OverlayThreshold == 40

OverlayFindings(world, allowed, w) ==
    {Finding("OVERLAY", OverlayRisk(o, allowed) + w.unexpected_overlay, {o}) :
        o \in {p \in FactsOf(world, "overlay") : OverlayRisk(p, allowed) >= OverlayThreshold}}

-----------------------------------------------------------------------------
(* The machine.                                                            *)

\* Processes the configuration wants to be told of, each name once.
ElevatedTools ==
    { "cheatengine.exe", "cheatengine-x86_64.exe", "x64dbg.exe", "x32dbg.exe", "x96dbg.exe",
      "ida.exe", "ida64.exe", "ollydbg.exe", "processhacker.exe", "systeminformer.exe",
      "reclass.net.exe", "reclass.exe" }

WatchedFindings(world, monitored, w) ==
    {Finding("PROCESS", w.unknown_process + 25 + IF name \in ElevatedTools THEN 25 ELSE 0,
             {p \in FactsOf(world, "process") : p.name = name}) :
        name \in {p.name : p \in FactsOf(world, "process")} \intersect monitored}

\* A known device has a risk of its own; a driver has the weight.
DeviceFindings(world, w) ==
    {Finding("DEVICE", Larger(w.risky_device, d.own), {d}) : d \in FactsOf(world, "device")} \union
    {Finding("DEVICE", w.risky_device, {d}) : d \in FactsOf(world, "driver")}

\* Mutexes and window classes have a risk of their own, a title that matches has 65,
\* and all titles are one finding.
ArtifactFindings(world, w) ==
    {Finding("ARTIFACT", Larger(w.known_artifact, a.own), {a}) : a \in FactsOf(world, "artifact")}
    \union (IF FactsOf(world, "title") = {} THEN {}
            ELSE {Finding("ARTIFACT", Larger(w.known_artifact, 65), FactsOf(world, "title"))})

ServiceFindings(world, w) ==
    {Finding("SERVICE", w.suspicious_service + IF s.running THEN 15 ELSE 0, {s}) :
        s \in FactsOf(world, "service")}

SystemProcesses ==
    { "csrss.exe", "lsass.exe", "services.exe", "smss.exe", "wininit.exe", "winlogon.exe",
      "svchost.exe", "system", "registry", "memory compression", "secure system",
      "mjolnir_core.exe", "mjolnir_watchdog.exe" }

PrivilegeRisk(rights, w) ==
    SumOf([debug |-> w.dangerous_privilege, load_driver |-> w.dangerous_privilege + 10,
           tcb |-> w.dangerous_privilege + 15], rights)

PrivilegeFindings(world, whitelisted, w) ==
    {Finding("PRIVILEGE", PrivilegeRisk(p.rights, w), {p}) :
        p \in {q \in FactsOf(world, "process") :
                  q.rights # {} /\ q.name \notin whitelisted \union SystemProcesses}}

\* Handles that others hold to the game; each owner's worst counts.
HandleRisk(h, whitelisted, w) ==
    LET base == IF h.access = "limited" THEN Larger(5, Part(w.external_process_handle, 3))
                ELSE w.external_process_handle
    IN  (IF h.name \in whitelisted THEN Larger(0, base - 25) ELSE base + 10)
      + (IF h.access = "write" THEN 20 ELSE 0)

\* Mutant of the next: of each owner's handles the mildest is kept.
MildestHandleFindings(world, whitelisted, w) ==
    {Finding("HANDLE", HandleRisk(h, whitelisted, w), {h}) :
        h \in {g \in FactsOf(world, "handle") :
                  /\ HandleRisk(g, whitelisted, w) >= 20
                  /\ \A o \in FactsOf(world, "handle") :
                         o.owner = g.owner =>
                         HandleRisk(o, whitelisted, w) >= HandleRisk(g, whitelisted, w)}}

\* The riskiest of some handles; of equal ones it depends on the order of the system's table.
Riskiest(handles, whitelisted, w) ==
    CHOOSE g \in handles :
        \A o \in handles : HandleRisk(o, whitelisted, w) <= HandleRisk(g, whitelisted, w)

HandleFindings(world, whitelisted, w) ==
    LET handles   == FactsOf(world, "handle")
        Of(owner) == {o \in handles : o.owner = owner}
    IN  {Finding("HANDLE", HandleRisk(h, whitelisted, w), {h}) :
            h \in {g \in handles : /\ HandleRisk(g, whitelisted, w) >= 20
                                   /\ g = Riskiest(Of(g.owner), whitelisted, w)}}

PipeFindings(world, w) ==
    {Finding("PIPE", w.suspicious_pipe, {p}) : p \in FactsOf(world, "pipe")}

\* Entries of the registry that start a program, or start it in place of another.
AutorunPlaces == [user_run |-> 0, machine_run |-> 10, app_init |-> 15, ifeo |-> 20]

PersistenceFindings(world, w) ==
    {Finding("PERSISTENCE", w.persistence + AutorunPlaces[a.place], {a}) :
        a \in FactsOf(world, "autorun")}

PortFindings(world, w) ==
    {Finding("PORT", w.suspicious_port, {p}) : p \in FactsOf(world, "port")}

\* Connections of the game to a port of the list.
ConnectionFindings(world, w) ==
    {Finding("CONNECTION", w.suspicious_connection + IF c.loopback THEN 0 ELSE 10, {c}) :
        c \in FactsOf(world, "connection")}

HostsFindings(world, w) ==
    {Finding("HOSTS", w.hosts_tamper + IF h.private THEN 15 ELSE 0, {h}) :
        h \in FactsOf(world, "host")}
=============================================================================
