------------------------------- MODULE Decide -------------------------------
(***************************************************************************)
(* The decision engine of the control plane, server/src/decide.rs: pure    *)
(* functions from a session, a batch of findings, the game's policy and    *)
(* the previous decision to the next decision.                             *)
(*                                                                         *)
(* A finding is a record [risk_score, category, details], where details is *)
(* the set of hash needles its text contains (the code searches for them   *)
(* with a substring test).  The wording of a reason and the time of a      *)
(* decision are left out.                                                  *)
(***************************************************************************)
EXTENDS Integers, Sequences, FiniteSets, SequencesExt

\* DecisionAction, and the order in which action_rank puts its variants.
Actions == {"observe", "challenge", "kick", "ban"}
ActionRank == [observe |-> 0, challenge |-> 1, kick |-> 2, ban |-> 3]

\* The categories decide_action calls critical.
CriticalCategories ==
  {"INJECTION", "MANUAL_MAP", "INLINE_HOOK", "HOOK", "EAT_HOOK", "SYSCALL_STUB",
   "HOLLOWING", "STEALTH", "WRITABLE_IMAGE", "ETW", "EXCEPTION_DISPATCH", "HOSTS",
   "TOKEN", "PERSISTENCE", "IMAGE", "PRIVILEGE", "PIPE"}

GreaterOf(a, b) == IF a >= b THEN a ELSE b

-----------------------------------------------------------------------------
(* Scoring a batch *)

Risk(event) == GreaterOf(event.risk_score, 0)

ScoreEvents(events) ==
  [peak       |-> Max({0} \cup {Risk(events[i]) : i \in DOMAIN events}),
   average    |-> IF events = << >> THEN 0
                  ELSE FoldLeft(LAMBDA sum, event : sum + Risk(event), 0, events)
                         \div Len(events),
   categories |-> {events[i].category : i \in DOMAIN events} \ {""}]

\* Mutant: only the first finding is searched.
FirstMatchesKnownBadHash(events, policy) ==
  \E needle \in policy.known_bad_hashes \ {""} : needle \in Head(events).details

\* Some finding's text contains a needle of the policy; the empty needle never counts.
MatchesKnownBadHash(events, policy) ==
  \E i \in DOMAIN events, needle \in policy.known_bad_hashes \ {""} :
    needle \in events[i].details

ApplyKnownBadHashBoost(events, policy, peak) ==
  IF MatchesKnownBadHash(events, policy) THEN GreaterOf(peak, 100) ELSE peak

-----------------------------------------------------------------------------
(* Choosing an action *)

(***************************************************************************)
(* floor(kick_threshold * 0.7) in IEEE double arithmetic.  0.7 is below    *)
(* 7/10 as a double, so a few multiples of ten round to just under the     *)
(* integer and the floor loses one: 90 * 0.7 is 62.99999999999999.  The    *)
(* table is exact for thresholds from -200 to 320.                         *)
(***************************************************************************)
KickAverage(threshold) ==
  IF threshold \in {90, 170, 180}
    THEN (7 * threshold) \div 10 - 1
    ELSE (7 * threshold) \div 10

DecideAction(peak, average, policy, categories) ==
  LET critical == categories \cap CriticalCategories
  IN  IF policy.observe_only_default THEN "observe"
      ELSE IF peak >= policy.ban_threshold THEN "ban"
      ELSE IF /\ peak >= policy.kick_threshold
              /\ average >= KickAverage(policy.kick_threshold) \/ critical # {}
        THEN "kick"
      ELSE IF Cardinality(critical) >= 2 /\ peak >= 55 THEN "challenge"
      ELSE "observe"

-----------------------------------------------------------------------------
(* Building the decision of one ingested batch *)

\* What stands for the previous decision of a session without one.
NoDecision == [action |-> "observe", peak_risk |-> 0, average_risk |-> 0,
               finding_count |-> 0, categories |-> {}]

\* Mutant: the prior decision is not retained.
LatestAction(previous, decided) == decided

StrongerAction(previous, decided) ==
  IF ActionRank[previous] > ActionRank[decided] THEN previous ELSE decided

\* Mutant: the session's own peak is not rolled forward.
BuildDecisionFromBatchPeak(session, events, policy, previous) ==
  LET scored == ScoreEvents(events)
      peak   == ApplyKnownBadHashBoost(events, policy, scored.peak)
  IN  [action        |-> StrongerAction(previous.action,
                           DecideAction(peak, scored.average, policy, scored.categories)),
       peak_risk     |-> peak,
       average_risk  |-> GreaterOf(scored.average, previous.average_risk),
       finding_count |-> session.finding_count + Len(events),
       categories    |-> scored.categories \cup previous.categories]

\* Mutant: a known bad hash bans under any policy, and averages are averaged.
BuildDecisionEager(session, events, policy, previous) ==
  LET scored == ScoreEvents(events)
      peak   == ApplyKnownBadHashBoost(events, policy,
                                       GreaterOf(session.peak_risk, scored.peak))
      decided == IF MatchesKnownBadHash(events, policy) THEN "ban"
                 ELSE DecideAction(peak, scored.average, policy, scored.categories)
  IN  [action        |-> StrongerAction(previous.action, decided),
       peak_risk     |-> peak,
       average_risk  |-> (scored.average + previous.average_risk) \div 2,
       finding_count |-> session.finding_count + Len(events),
       categories    |-> scored.categories \cup previous.categories]

(***************************************************************************)
(* build_decision.  previous is NoDecision when the session has none: the  *)
(* code then skips the merge, which is what merging with NoDecision does   *)
(* (no action ranks below observe, no category is added, and an average is *)
(* never negative).  The peak a hash match raised is kept even when the    *)
(* policy only observes.                                                   *)
(***************************************************************************)
BuildDecision(session, events, policy, previous) ==
  LET scored  == ScoreEvents(events)
      peak    == ApplyKnownBadHashBoost(events, policy,
                                        GreaterOf(session.peak_risk, scored.peak))
      decided == IF MatchesKnownBadHash(events, policy) /\ ~policy.observe_only_default
                   THEN "ban"
                   ELSE DecideAction(peak, scored.average, policy, scored.categories)
  IN  [action        |-> StrongerAction(previous.action, decided),
       peak_risk     |-> peak,
       average_risk  |-> GreaterOf(scored.average, previous.average_risk),
       finding_count |-> session.finding_count + Len(events),
       categories    |-> scored.categories \cup previous.categories]

\* A decision that withdraws nothing an earlier one of its session said.
Covers(later, earlier) ==
  /\ ActionRank[later.action] >= ActionRank[earlier.action]
  /\ later.peak_risk >= earlier.peak_risk
  /\ later.average_risk >= earlier.average_risk
  /\ later.finding_count >= earlier.finding_count
  /\ earlier.categories \subseteq later.categories
=============================================================================
