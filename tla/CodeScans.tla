------------------------------ MODULE CodeScans ------------------------------
(***************************************************************************)
(* The scanners that look for changed code in the game's process, as       *)
(* operators from what is there to be found to what they report.           *)
(*                                                                         *)
(* What is there is a set of facts, records with a field "fact" that says  *)
(* of what kind they are.  A report is a set of findings.  The weights are *)
(* those of the configuration in force, by their names in its file.        *)
(* Addresses, names of modules and the wording of reasons are left out;    *)
(* first bytes of functions are classes that some scanner tells apart.     *)
(***************************************************************************)
EXTENDS Integers, FiniteSets

\* What EmitFinding is given, with the facts it rests on.  details holds the file hash
\* the text mentions.
Finding(category, risk, about) ==
    [category |-> category, risk_score |-> risk, details |-> {}, about |-> about]

\* C++ divides towards zero, and a weight may be negative.
Part(weight, n) == IF weight >= 0 THEN weight \div n ELSE -(-weight \div n)

FactsOf(world, kind) == {f \in world : f.fact = kind}

-----------------------------------------------------------------------------
(* The first bytes of functions.                                           *)

\* The functions each scanner looks at.
InlineFunctions ==
    { "IsDebuggerPresent", "CheckRemoteDebuggerPresent", "ReadProcessMemory",
      "WriteProcessMemory", "VirtualProtect", "VirtualAllocEx", "CreateRemoteThread",
      "OpenProcess", "LoadLibraryW", "GetProcAddress", "NtQueryInformationProcess",
      "NtReadVirtualMemory", "NtWriteVirtualMemory", "NtProtectVirtualMemory",
      "LdrLoadDll", "GetAsyncKeyState", "GetForegroundWindow" }
StubFunctions ==
    { "NtProtectVirtualMemory", "NtWriteVirtualMemory", "NtReadVirtualMemory",
      "NtOpenProcess", "NtCreateThreadEx", "NtAllocateVirtualMemory",
      "NtMapViewOfSection", "NtQueryInformationProcess", "NtQuerySystemInformation",
      "NtSetInformationThread", "NtGetContextThread", "NtSetContextThread",
      "NtSuspendThread", "NtResumeThread" }
TraceFunctions == { "EtwEventWrite", "EtwEventWriteFull", "NtTraceEvent", "EtwWrite" }
Dispatchers == { "KiUserExceptionDispatcher", "KiUserApcDispatcher" }
DispatchFunctions ==
    Dispatchers \union
    { "RtlDispatchException", "RtlAddVectoredExceptionHandler",
      "RtlRemoveVectoredExceptionHandler", "RtlAddVectoredContinueHandler" }

\* What a function may begin with, when it is not as it was built.
Shapes ==
    { "jmp",        \* E9, relative
      "short_jmp",  \* EB
      "jmp_mem",    \* FF 25
      "rex_jmp_mem",\* 48 FF 25
      "mov_jmp",    \* 48 B8 ... FF E0
      "push_ret",   \* 68 ... C3
      "int3",       \* CC CC
      "call",       \* E8
      "ret",        \* C3
      "ret_n",      \* C2
      "xor_ret",    \* 33 C0 C3 or 31 C0 C3
      "zero_ret",   \* B8 00 00 00 00 C3
      "scrambled",  \* none of these, three bytes of eight or more differ
      "edited" }    \* none of these, past the third byte and fewer than three differ

LooksLikeHookPrologue ==
    { "jmp", "short_jmp", "jmp_mem", "mov_jmp", "push_ret", "int3" }

LooksLikeInlineHook == { "jmp", "call", "jmp_mem", "mov_jmp", "rex_jmp_mem" }

\* A stub begins with mov r10, rcx, or with mov eax.
LooksLikeSyscallStub == { "edited", "zero_ret" }

LooksPatched == { "ret", "ret_n", "xor_ret", "zero_ret", "jmp", "jmp_mem" }

\* A short jump changes two bytes, which is not enough of a difference.
LooksHooked == Shapes \ { "short_jmp", "edited" }

PatchesIn(world, functions, shapes) ==
    {f \in FactsOf(world, "prologue") : f.of \in functions /\ f.shape \in shapes}

InlineHookFindings(world, w) ==
    {Finding("INLINE_HOOK", w.inline_hook, {p}) :
        p \in PatchesIn(world, InlineFunctions, LooksLikeHookPrologue)}

\* Why a stub is suspected.  Clean ones begin with mov r10, rcx.
StubReasons(shape) ==
    {r \in {"trampoline", "no_stub", "no_mov_r10"} :
        CASE r = "trampoline" -> shape \in LooksLikeInlineHook
          [] r = "no_stub"    -> shape \notin LooksLikeSyscallStub
          [] r = "no_mov_r10" -> shape # "edited"}

SyscallStubFindings(world, w) ==
    {Finding("SYSCALL_STUB",
             w.syscall_stub + IF Cardinality(StubReasons(p.shape)) > 1 THEN 15 ELSE 0, {p}) :
        p \in {q \in PatchesIn(world, StubFunctions, Shapes) : StubReasons(q.shape) # {}}}

EtwFindings(world, w) ==
    {Finding("ETW", w.etw_patch, {p}) : p \in PatchesIn(world, TraceFunctions, LooksPatched)}

\* Mutant of the next: the server does not know the category.
MisnamedDispatchFindings(world, w) ==
    {Finding("EXCEPTION",
             w.exception_dispatch + IF p.of \in Dispatchers THEN 10 ELSE 0, {p}) :
        p \in PatchesIn(world, DispatchFunctions, LooksHooked)}

ExceptionDispatchFindings(world, w) ==
    {Finding("EXCEPTION_DISPATCH",
             w.exception_dispatch + IF p.of \in Dispatchers THEN 10 ELSE 0, {p}) :
        p \in PatchesIn(world, DispatchFunctions, LooksHooked)}

-----------------------------------------------------------------------------
(* Tables of imports and exports.                                          *)

CriticalImports ==
    { "ReadProcessMemory", "WriteProcessMemory", "VirtualProtect", "VirtualProtectEx",
      "VirtualAlloc", "VirtualAllocEx", "CreateRemoteThread", "OpenProcess",
      "LoadLibraryA", "LoadLibraryW", "GetProcAddress", "IsDebuggerPresent",
      "CheckRemoteDebuggerPresent", "NtQueryInformationProcess", "NtReadVirtualMemory",
      "NtWriteVirtualMemory", "LdrLoadDll", "GetAsyncKeyState", "GetForegroundWindow",
      "send", "recv" }
CriticalExports ==
    { "NtProtectVirtualMemory", "NtReadVirtualMemory", "NtWriteVirtualMemory",
      "NtOpenProcess", "NtCreateThreadEx", "NtMapViewOfSection",
      "NtQueryInformationProcess", "NtQuerySystemInformation", "NtSetInformationThread",
      "VirtualProtect", "VirtualProtectEx", "ReadProcessMemory", "WriteProcessMemory",
      "OpenProcess", "CreateRemoteThread", "LoadLibraryW", "LoadLibraryA",
      "GetProcAddress" }

\* An import of the main module that was redirected: to code outside the module that
\* exports it (which is seen if that one is known), to private executable memory, or both.
ImportRisk(i, w) ==
    (IF i.known /\ i.outside THEN w.api_hook ELSE 0) + (IF i.private THEN w.api_hook ELSE 0)

HookFindings(world, w) ==
    {Finding("HOOK", ImportRisk(i, w), {i}) :
        i \in {j \in FactsOf(world, "import") : j.of \in CriticalImports /\ ImportRisk(j, w) > 0}}

\* An export whose entry in the table was changed, unless to a forwarder.
EatHookFindings(world, w) ==
    {Finding("EAT_HOOK", w.eat_hook, {e}) :
        e \in {x \in FactsOf(world, "export") : x.of \in CriticalExports /\ ~x.forwarder}}

-----------------------------------------------------------------------------
(* Images and threads.                                                     *)

\* Private memory that begins with the headers of an image.
ManualMapRisk(m, w) == w.manual_map + IF m.rwx THEN 15 ELSE 0

\* In the order of their addresses the first so many are reported.
ManualMapFindings(reported, w) ==
    {Finding("MANUAL_MAP", ManualMapRisk(m, w), {m}) : m \in reported}

WritableImageFindings(world, w) ==
    {Finding("WRITABLE_IMAGE", w.writable_image, {i}) : i \in FactsOf(world, "writable_image")}

\* The signs of hollowing make one finding.
HollowingRisk(signs, w) ==
      (IF "private_base" \in signs THEN w.hollowing ELSE 0)
    + (IF {"private_base", "rwx_base"} \subseteq signs THEN 20 ELSE 0)
    + (IF "private_entry" \in signs THEN Part(w.hollowing, 2) ELSE 0)
    + (IF "peb_path" \in signs THEN w.hollowing ELSE 0)

HollowingReasons(signs) ==
    (signs \ {"rwx_base"}) \union IF "private_base" \in signs THEN signs \intersect {"rwx_base"} ELSE {}

HollowingFindings(world, w) ==
    LET signs == {f.sign : f \in FactsOf(world, "hollowing")}
    IN  IF HollowingReasons(signs) = {} THEN {}
        ELSE {Finding("HOLLOWING", HollowingRisk(signs, w), FactsOf(world, "hollowing"))}

\* An instrumentation callback, and every thread that hides from debuggers.
StealthFindings(world, w) ==
    {Finding("STEALTH", w.stealth + IF s.what = "callback" THEN 20 ELSE 0, {s}) :
        s \in FactsOf(world, "stealth")}

\* The main module in memory against its file, when that can be read.
ImageRisk(signs, sites, w) ==
      (IF "no_header" \in signs THEN w.image_integrity ELSE 0)
    + (IF sites = 0 THEN 0
       ELSE w.image_integrity + IF 2 * sites < 40 THEN 2 * sites ELSE 40)

ImageIntegrityFindings(world, w) ==
    LET signs == {f.sign : f \in FactsOf(world, "image")}
        sites == Cardinality(FactsOf(world, "text_patch"))
    IN  IF ImageRisk(signs, sites, w) <= 0 THEN {}
        ELSE {Finding("IMAGE", ImageRisk(signs, sites, w),
                      FactsOf(world, "image") \union FactsOf(world, "text_patch"))}

\* Executable memory, whatever it belongs to.
RegionRisk(r) ==
      (IF r.writable THEN 45 ELSE 0)
    + (IF r.writable /\ r.private THEN 20 ELSE 0)
    + (IF r.large /\ r.private THEN 10 ELSE 0)

SuspiciousRegions(world) == {r \in FactsOf(world, "region") : RegionRisk(r) >= 40}

RegionFindings(reported, w) == {Finding("MEMORY", RegionRisk(r), {r}) : r \in reported}

\* A thread that starts outside all modules; ScanThreads passes 30 as the weight.
ThreadRisk(t) == 30 + IF t.low THEN 15 ELSE 0

\* The riskiest so many are reported.
ThreadFindings(reported, w) ==
    {Finding("THREAD", ThreadRisk(t) + w.unknown_module, {t}) : t \in reported}
=============================================================================
