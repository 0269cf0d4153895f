------------------------------ MODULE ModuleScans ------------------------------
(***************************************************************************)
(* What the core makes of the modules of the game: ModuleScanner           *)
(* (client/core/modules.hpp) scores them by where they are, ScanModules of *)
(* the engine has some of their files inspected, and those that were not   *)
(* there when the baseline was established are births, which the injection *)
(* heuristics look at (client/core/injection.hpp).                         *)
(*                                                                         *)
(* A module is a fact with its name, its signs, and what an inspection of  *)
(* its file tells: the hash (<< >> if it cannot be read), the publisher (a *)
(* text) and whether the signature is valid and Microsoft's.               *)
(***************************************************************************)
EXTENDS HostScans

CONSTANT MaxIntegrityChecks     \* of the files of modules in one scan

ASSUME ModuleScansAssumption == MaxIntegrityChecks \in Nat

\* "system" and "suspicious" are about its directory, "random" about its name.
ModuleSigns == {"no_path", "system", "suspicious", "odd_extension", "no_size", "random"}

Whitelisted(m, c) == m.name \in c.names["whitelisted_modules"]

\* Neither whitelisted nor in a directory of the system.
Unknown(m, c) == ~Whitelisted(m, c) /\ "system" \notin m.signs

\* ModuleScanner::CalculateRisk
BaseRisk(m, c) ==
    LET sum == SumOf([no_path |-> 25, system |-> 0, suspicious |-> 40,
                      odd_extension |-> 10, no_size |-> 15, random |-> 0], m.signs)
             + (IF Unknown(m, c) THEN 15 ELSE 0)
    IN  IF Whitelisted(m, c) THEN Larger(0, sum - 30) ELSE sum

-----------------------------------------------------------------------------
(* SecurityEngine::ScanModules.                                            *)

Eligible(world, c) ==
    {m \in FactsOf(world, "module") :
        /\ "no_path" \notin m.signs
        /\ c.switches["require_valid_signature"] \/ "suspicious" \in m.signs \/ Unknown(m, c)}

\* Mutant of the next: the files are inspected in the order the modules were loaded in.
FirstComeInspections(world, c) ==
    {S \in SUBSET Eligible(world, c) :
        Cardinality(S) = Min({MaxIntegrityChecks, Cardinality(Eligible(world, c))})}

\* The modules come sorted by their risk, equal ones in any order.
Inspections(world, c) ==
    {S \in SUBSET Eligible(world, c) :
        /\ Cardinality(S) = Min({MaxIntegrityChecks, Cardinality(Eligible(world, c))})
        /\ \A m \in S, n \in Eligible(world, c) \ S : BaseRisk(m, c) >= BaseRisk(n, c)}

\* What the scan knows without the file ...
ScoreBefore(m, c) ==
    LET sum == BaseRisk(m, c) + IF Unknown(m, c) THEN c.weights["unknown_module"] ELSE 0
    IN  IF "suspicious" \in m.signs
        THEN Larger(sum, c.weights["module_from_suspicious_directory"]) ELSE sum

\* ... and what the file adds. A publisher is looked up as it is written.
FileScore(m, c) ==
      (IF m.file \in c.hashes["trusted_hashes"] THEN c.weights["trusted_hash"] ELSE 0)
    + (IF m.file \in c.hashes["known_bad_hashes"] THEN c.weights["known_bad_hash"] ELSE 0)
    + (IF m.signed /\ m.publisher \in {<<p>> : p \in c.names["trusted_publishers"]}
       THEN c.weights["trusted_publisher"] ELSE 0)
    + (IF c.switches["require_valid_signature"] /\ ~m.signed /\ ~Whitelisted(m, c)
       THEN c.weights["unsigned_module"] ELSE 0)

\* Signed by Microsoft, a module that was inspected is 20 less.
Score(m, inspected, c) ==
    LET sum == ScoreBefore(m, c) + IF m \in inspected THEN FileScore(m, c) ELSE 0
    IN  IF /\ m \in inspected
           /\ c.switches["allow_unknown_microsoft_modules"]
           /\ m.microsoft /\ m.signed
        THEN Larger(0, sum - 20) ELSE Larger(0, sum)

ModuleFindings(world, inspected, c) ==
    {[Finding("MODULE", Score(m, inspected, c), {m}) EXCEPT
         !.details = IF m \in inspected THEN {m.file} \ {<< >>} ELSE {}] :
        m \in {n \in FactsOf(world, "module") : Score(n, inspected, c) >= 20}}

-----------------------------------------------------------------------------
(* Births and injections.                                                  *)

\* The modules that the baseline does not know, by their names.
Births(world, known, c) ==
    {m \in FactsOf(world, "module") : m.name \notin known /\ ~Whitelisted(m, c)}

\* AnalyzeNewModules. A thread outside of all modules counts against what is suspicious
\* by itself.
InjectionRisk(m, stray, c) ==
      c.weights["injection"]
    + SumOf([no_path |-> 20, system |-> 0, suspicious |-> 25, odd_extension |-> 0,
             no_size |-> 0, random |-> 15], m.signs)
    + (IF stray /\ m.signs \intersect {"no_path", "suspicious", "random"} # {} THEN 20 ELSE 0)
    + (IF stray /\ "suspicious" \in m.signs THEN 15 ELSE 0)

BaselineFindings(world, known, c) ==
    {Finding("BASELINE", c.weights["module_birth"], {m}) : m \in Births(world, known, c)}

InjectionFindings(world, known, c) ==
    IF ~c.switches["enable_injection_heuristics"] THEN {}
    ELSE {Finding("INJECTION", InjectionRisk(m, FactsOf(world, "thread") # {}, c), {m}) :
              m \in Births(world, known, c)}
=============================================================================
