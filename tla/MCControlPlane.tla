---------------------------- MODULE MCControlPlane ----------------------------
(* Small instances of ControlPlane for TLC. *)
EXTENDS ControlPlane

\* A batch that bans by its peak, one that only a known bad hash makes serious.
Severe == << [risk_score |-> 95, category |-> "MODULE", details |-> {}] >>
Listed == << [risk_score |-> 10, category |-> "OVERLAY", details |-> {"h"}] >>

MCBatches == {Severe, Listed}

NoUpdate == [observe_only_default |-> None, kick_threshold |-> None,
             ban_threshold |-> None, known_bad_hashes |-> None]

\* Over the default policy (40, 90) each is valid, after the other neither is; both may be
\* stored all the same when they race.
MCPolicyUpdates ==
  {[NoUpdate EXCEPT !.observe_only_default = FALSE, !.kick_threshold = 70,
                    !.known_bad_hashes = {"h"}],
   [NoUpdate EXCEPT !.ban_threshold = 50]}

Symmetry == Permutations(Tasks) \cup Permutations(Sessions)
=============================================================================
