---------------------------- MODULE MCCoreCycle ----------------------------
(* The core loop with the scores of the shipped weights.                    *)
EXTENDS CoreCycle

\* A module from a download folder (40 + 15 + 15), an external handle with
\* write access (35 + 10 + 20), a hollowed image (70 + 20).
MCRisk == [s \in Scanners |-> CASE s = "modules" -> 70
                                [] s = "handles" -> 65
                                [] s = "hollowing" -> 90]

\* While it observes, the core does not ask for the window: one such file is enough.
MCWritten == {c \in Settings : c.observe => c.gated}
=============================================================================
