---------------------------- MODULE DecisionStream ----------------------------
(***************************************************************************)
(* One session whose batches are ingested one after another, under         *)
(* policies a studio may change between them: what the decision engine     *)
(* makes of a player's history, apart from threads and storage (which are  *)
(* ControlPlane's matter).  The agent cuts its findings into batches by a  *)
(* timer and sends a batch again when it does not know whether the server  *)
(* took it in, so what matters is that neither accident changes a verdict. *)
(***************************************************************************)
EXTENDS Decide

CONSTANTS Batches,      \* bodies of ingest requests
          Policies,     \* policies in force
          MaxFindings,  \* bound: findings the session takes in
          NoBatch

\* Findings as the server parses them, with a risk_score of 32 bits (types.rs:25).
Findings ==
  [risk_score : {risk \in Int : risk <= 2147483647}, category : STRING, details : SUBSET STRING]

ASSUME DecisionStreamAssumption ==
  /\ MaxFindings \in Nat
  /\ Batches \subseteq Seq(Findings)
  /\ \A batch \in Batches : Len(batch) \in 1..200
  /\ \A policy \in Policies : /\ policy.observe_only_default \in BOOLEAN
                             /\ policy.ban_threshold \in Int

VARIABLES session,    \* peak_risk and finding_count of the SessionRecord
          decision,   \* the stored DecisionRecord
          last        \* the batch it was built from and the policy then in force

streamVars == <<session, decision, last>>

StreamInit ==
  /\ session  = [peak_risk |-> 0, finding_count |-> 0]
  /\ decision = NoDecision
  /\ last     = NoBatch

After(built) == [peak_risk |-> built.peak_risk, finding_count |-> built.finding_count]

\* ingest: build the decision and store it with the session's new peak and count.
Ingest(batch, policy) ==
  /\ session.finding_count + Len(batch) <= MaxFindings
  /\ decision' = BuildDecision(session, batch, policy, decision)
  /\ session'  = After(decision')
  /\ last'     = [batch |-> batch, policy |-> policy]

StreamNext == \E batch \in Batches, policy \in Policies : Ingest(batch, policy)

StreamSpec == StreamInit /\ [][StreamNext]_streamVars

-----------------------------------------------------------------------------
(* Properties *)

(***************************************************************************)
(* A batch that is delivered twice (agent/main.rs requeues it on any error *)
(* after the server may have stored it) inflates the finding count and     *)
(* changes nothing else.                                                   *)
(***************************************************************************)
RetryOnlyCounts ==
  last # NoBatch =>
    BuildDecision(session, last.batch, last.policy, decision)
      = [decision EXCEPT !.finding_count = @ + Len(last.batch)]

(***************************************************************************)
(* Where the agent's timer cuts the findings into batches does not matter  *)
(* to a ban, to the peak, to the count or to the categories.  (It may      *)
(* matter to a kick, which looks at the batch's average, and to a          *)
(* challenge, which looks for two critical categories in one batch.)       *)
(***************************************************************************)
BansSurviveBatching ==
  \A first \in Batches, second \in Batches, policy \in Policies :
    LET whole == BuildDecision(session, first \o second, policy, decision)
        early == BuildDecision(session, first, policy, decision)
        late  == BuildDecision(After(early), second, policy, early)
    IN  /\ whole.action = "ban" <=> late.action = "ban"
        /\ whole.peak_risk = late.peak_risk
        /\ whole.finding_count = late.finding_count
        /\ whole.categories = late.categories

\* The order of the findings within a batch does not matter, to anything.
OrderInBatchIrrelevant ==
  \A batch \in Batches, policy \in Policies :
    BuildDecision(session, Reverse(batch), policy, decision)
      = BuildDecision(session, batch, policy, decision)

(***************************************************************************)
(* While the policy only observes, no batch strengthens the action, known  *)
(* bad hash or not; it may retain a stronger one an earlier policy chose.  *)
(***************************************************************************)
ObserveOnlyNeverEscalates ==
  [][last'.policy.observe_only_default => decision'.action = decision.action]_streamVars
=============================================================================
