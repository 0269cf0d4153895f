------------------------------- MODULE MCDetect -------------------------------
(* Small instances of Detect for TLC.                                       *)
EXTENDS Detect

\* Modules: a known bad one in a download folder, one that is signed by a trusted publisher
\* all the same, a stranger without a path.
Module(name, signs, file, publisher, microsoft) ==
    [fact |-> "module", name |-> name, signs |-> signs, file |-> file,
     publisher |-> publisher, signed |-> publisher # << >>, microsoft |-> microsoft]

ModuleFacts ==
    { Module("cheat.dll", {"suspicious"}, <<"bad">>, << >>, FALSE),
      Module("driver.dll", {"system"}, <<"bad">>, <<"acme">>, TRUE),
      Module("d3ad0c0ffee.dat", {"random", "no_path"}, << >>, << >>, FALSE) }

\* Prologues that several scanners look at, and that only one knows.
Prologues ==
    {[fact |-> "prologue", of |-> p[1], shape |-> p[2]] :
        p \in { <<"NtWriteVirtualMemory", "jmp">>, <<"NtWriteVirtualMemory", "mov_jmp">>,
                <<"EtwEventWrite", "ret">>, <<"KiUserExceptionDispatcher", "jmp">> }}

CodeFacts ==
    Prologues \union
    { [fact |-> "import", of |-> "ReadProcessMemory", known |-> TRUE, outside |-> TRUE, private |-> TRUE],
      [fact |-> "export", of |-> "OpenProcess", forwarder |-> FALSE],
      [fact |-> "manual_map", at |-> 1, rwx |-> TRUE], [fact |-> "manual_map", at |-> 2, rwx |-> FALSE],
      [fact |-> "writable_image", at |-> 1],
      [fact |-> "hollowing", sign |-> "private_base"], [fact |-> "hollowing", sign |-> "rwx_base"],
      [fact |-> "stealth", what |-> "callback"],
      [fact |-> "image", sign |-> "no_header"], [fact |-> "text_patch", at |-> 1],
      [fact |-> "region", at |-> 1, writable |-> TRUE, private |-> TRUE, large |-> TRUE],
      [fact |-> "region", at |-> 2, writable |-> TRUE, private |-> FALSE, large |-> FALSE],
      [fact |-> "thread", at |-> 1, low |-> TRUE], [fact |-> "thread", at |-> 2, low |-> FALSE] }

GameFacts ==
    { [fact |-> "image_path", path |-> <<"c", "temp">>], [fact |-> "image_path", path |-> << >>],
      [fact |-> "parent", sign |-> "untrusted", name |-> "loader.exe"],
      [fact |-> "debugger", sign |-> "flags"], [fact |-> "debugger", sign |-> "object"],
      [fact |-> "debugger", sign |-> "breakpoints"],
      [fact |-> "token", sign |-> "elevated"], [fact |-> "token", sign |-> "high"],
      [fact |-> "mitigation", sign |-> "no_aslr"],
      [fact |-> "timing", sign |-> "divergent"], [fact |-> "timing", sign |-> "slow"],
      [fact |-> "overlay", styles |-> {"layered", "transparent", "topmost"}, coverage |-> "most",
       suspicious_path |-> FALSE, process |-> "overlay.exe"],
      [fact |-> "handle", name |-> "loader.exe", owner |-> 1, access |-> "write"],
      [fact |-> "handle", name |-> "loader.exe", owner |-> 1, access |-> "limited"] }

HostFacts ==
    { [fact |-> "process", name |-> "cheatengine.exe", rights |-> {"debug"}],
      [fact |-> "process", name |-> "loader.exe", rights |-> {"load_driver"}],
      [fact |-> "device", own |-> 75],
      [fact |-> "title", at |-> 1],
      [fact |-> "service", running |-> TRUE], [fact |-> "pipe", at |-> 1],
      [fact |-> "autorun", place |-> "ifeo"], [fact |-> "port", at |-> 1],
      [fact |-> "connection", loopback |-> FALSE], [fact |-> "host", private |-> TRUE] }

MCFacts == ModuleFacts \union CodeFacts \union GameFacts \union HostFacts

\* Documents.
Object(f) == [object |-> f]
String(t) == [string |-> t]
Strings(S) == [array |-> {String(t) : t \in S}]
On == [boolean |-> TRUE]
Off == [boolean |-> FALSE]

Strict == [require_valid_signature |-> On, enable_exception_dispatch_scan |-> Off]
Hashes == [known_bad_hashes |-> Strings({<<"sha256", "bad">>})]
Trust == [trusted_publishers |-> Strings({<<"acme">>, <<"acme", "as">>}),
          whitelisted_modules |-> Strings({<<"c", "game", "driver.dll">>})]

MCDocuments ==
    { Hashes,
      Hashes @@ Trust @@ [settings |-> Object(Strict)],
      [settings |-> Object([observe_only |-> Off]),
       target |-> Object([expected_install_roots |-> Strings({<<"c", "games">>})]),
       monitor_only_processes |-> Strings({<<"cheatengine.exe">>})],
      [risk_weights |-> Object([trusted_publisher |-> [beyond |-> 30], hollowing |-> [integer |-> 90]])],
      \* refused: a weight beyond the range, a limit below it, a value of another type
      [risk_weights |-> Object([hollowing |-> [integer |-> 1001]])],
      [settings |-> Object([observe_only |-> Off, evidence_min_samples |-> [integer |-> 0]])],
      [settings |-> Object([observe_only |-> [integer |-> 0]])] }
=============================================================================
