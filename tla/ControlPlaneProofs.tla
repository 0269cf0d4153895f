-------------------------- MODULE ControlPlaneProofs --------------------------
(***************************************************************************)
(* For any sessions, games, tasks, batches and policies, whatever fails    *)
(* and whenever the process dies: the stored policies are ordered; and if  *)
(* clients wait for their answers, what was answered is durable, the maps  *)
(* match the files, decisions are sticky, and the files implement the      *)
(* ledger.                                                                 *)
(*                                                                         *)
(* The argument: a policy is ordered from its validation to its file; and  *)
(* a session that only one task handles is changed by that task alone, so  *)
(* what it read is still so when it writes.                                *)
(***************************************************************************)
EXTENDS ControlPlane, TLAPS

Ordered(policy) == policy.kick_threshold < policy.ban_threshold

Writing == {"session_write", "session_insert"}
Deciding == {"decision_write", "decision_insert", "evidence_write"}
Loading == {"load_policy", "load_previous"}
OfPolicy == {"policy_write", "policy_insert"}

\* What the local variables of a handler are, where they are used.
Local(l) ==
  /\ l.pc \in Loading \cup Writing \cup Deciding =>
       l.key \in Sessions /\ l.session \in SessionRecord
  /\ l.pc \in Loading \cup Deciding => l.batch \in Batches
  /\ l.pc \in Writing /\ l.decision # None => l.batch \in Batches
  /\ l.pc \in Deciding => l.decision \in DecisionRecord
  /\ l.pc = "load_previous" => l.policy \in Policy
  /\ l.pc \in OfPolicy => l.key \in Games /\ l.policy \in Policy /\ Ordered(l.policy)

LocalInv == \A t \in Tasks : Local(task[t]) /\ (~up => task[t].pc = "idle")

\* Who is answered was answered before: with the identifier of the session.
AnsweredInv ==
  \A t \in Tasks : /\ task[t].pc \in Loading \cup Deciding => answered[task[t].key] # None
                   /\ task[t].pc \in Writing /\ task[t].decision # None =>
                        answered[task[t].key] # None

BaseInv == TypeOK /\ LocalInv /\ StoredPoliciesOrdered

FreeInv == BaseInv /\ AnsweredInv

-----------------------------------------------------------------------------
(* The decision engine.                                                    *)

\* Of two actions, StrongerAction gives one that is no weaker than the first.
LEMMA StrongerFacts ==
  ASSUME NEW a \in Actions, NEW b \in Actions
  PROVE  /\ StrongerAction(a, b) \in Actions
         /\ ActionRank[StrongerAction(a, b)] >= ActionRank[a]
         /\ ActionRank[a] \in Nat
BY DEF StrongerAction, Actions, ActionRank

LEMMA BatchLength == ASSUME NEW batch \in Batches PROVE Len(batch) \in Nat /\ Len(batch) > 0
<1>1. Len(batch) \in 1..200
  BY ControlPlaneAssumption, Zenon
<1>2. \A n \in 1..200 : n \in Nat /\ n > 0
  OBVIOUS
<1>. QED
  BY <1>1, <1>2, Zenon

\* A decision is a decision, on the session with the batch, and covers the previous one if
\* the session's record did.
LEMMA DecisionFacts ==
  ASSUME NEW session \in SessionRecord, NEW batch \in Batches, NEW policy \in Policy,
         NEW previous \in DecisionRecord
  PROVE  LET decision == BuildDecision(session, batch, policy, previous)
         IN  /\ decision \in DecisionRecord
             /\ decision.peak_risk >= session.peak_risk
             /\ decision.finding_count = session.finding_count + Len(batch)
             /\ Len(batch) \in Nat /\ Len(batch) > 0
             /\ /\ session.peak_risk >= previous.peak_risk
                /\ session.finding_count >= previous.finding_count
                => Covers(decision, previous)
<1> DEFINE scored == ScoreEvents(batch)
           peak == ApplyKnownBadHashBoost(batch, policy, GreaterOf(session.peak_risk, scored.peak))
           decided == IF MatchesKnownBadHash(batch, policy) /\ ~policy.observe_only_default
                      THEN "ban"
                      ELSE DecideAction(peak, scored.average, policy, scored.categories)
           decision == BuildDecision(session, batch, policy, previous)
<1>1. scored \in Score /\ Len(batch) \in Nat /\ Len(batch) > 0
  BY ControlPlaneAssumption, BatchLength, Zenon
<1>2. peak \in Nat /\ peak >= session.peak_risk
  <2>. HIDE DEF scored
  <2>. QED
    BY <1>1 DEF ApplyKnownBadHashBoost, GreaterOf, SessionRecord, Score
<1>3. decided \in Actions
  BY DEF DecideAction, Actions
<1>4. /\ GreaterOf(scored.average, previous.average_risk) \in Nat
      /\ GreaterOf(scored.average, previous.average_risk) >= previous.average_risk
  <2>. HIDE DEF scored
  <2>. QED
    BY <1>1 DEF GreaterOf, DecisionRecord, Score
<1>5. scored.categories \cup previous.categories \in SUBSET STRING
  <2>. HIDE DEF scored
  <2>. QED
    BY <1>1 DEF DecisionRecord, Score
<1>6. decision = [action        |-> StrongerAction(previous.action, decided),
                  peak_risk     |-> peak,
                  average_risk  |-> GreaterOf(scored.average, previous.average_risk),
                  finding_count |-> session.finding_count + Len(batch),
                  categories    |-> scored.categories \cup previous.categories]
  BY DEF BuildDecision
<1>7. /\ StrongerAction(previous.action, decided) \in Actions
      /\ ActionRank[StrongerAction(previous.action, decided)] >= ActionRank[previous.action]
  <2>. HIDE DEF decided
  <2>. QED
    BY <1>3, StrongerFacts DEF DecisionRecord
<1>. HIDE DEF scored, peak, decided, decision
<1>8. decision \in DecisionRecord
  BY <1>1, <1>2, <1>4, <1>5, <1>6, <1>7 DEF DecisionRecord, SessionRecord
<1>9. ASSUME session.peak_risk >= previous.peak_risk,
             session.finding_count >= previous.finding_count
      PROVE  Covers(decision, previous)
  BY <1>1, <1>2, <1>4, <1>6, <1>7, <1>9 DEF Covers, DecisionRecord, SessionRecord
<1>. QED
  BY <1>1, <1>2, <1>6, <1>8, <1>9 DEF decision

LEMMA NoDecisionType == NoDecision \in DecisionRecord
BY DEF NoDecision, DecisionRecord, Actions

LEMMA CoversTransitive ==
  ASSUME NEW a \in DecisionRecord, NEW b \in DecisionRecord, NEW c \in DecisionRecord,
         Covers(a, b), Covers(b, c)
  PROVE  Covers(a, c)
<1>1. /\ ActionRank[a.action] \in Nat /\ ActionRank[b.action] \in Nat
      /\ ActionRank[c.action] \in Nat
  BY StrongerFacts DEF DecisionRecord
<1>. QED
  BY <1>1 DEF Covers, DecisionRecord

LEMMA CoversReflexive == ASSUME NEW a \in DecisionRecord PROVE Covers(a, a)
BY StrongerFacts DEF Covers, DecisionRecord

LEMMA LoadPolicyType == ASSUME BaseInv, NEW g \in Games PROVE LoadPolicy(g) \in Policy
BY ControlPlaneAssumption DEF BaseInv, TypeOK, LoadPolicy, DefaultPolicy, Policy

\* A policy laid over by an update is a policy.
LEMMA UpdatedType ==
  ASSUME BaseInv, NEW g \in Games, NEW update \in PolicyUpdates
  PROVE  Updated(LoadPolicy(g), update) \in Policy
<1>1. LoadPolicy(g) \in Policy
  BY LoadPolicyType
<1>2. /\ Overlay(update.observe_only_default, LoadPolicy(g).observe_only_default) \in BOOLEAN
      /\ Overlay(update.kick_threshold, LoadPolicy(g).kick_threshold) \in Int
      /\ Overlay(update.ban_threshold, LoadPolicy(g).ban_threshold) \in Int
      /\ Overlay(update.known_bad_hashes, LoadPolicy(g).known_bad_hashes) \in SUBSET STRING
  BY <1>1, ControlPlaneAssumption DEF Overlay, Policy
<1>. QED
  BY <1>1, <1>2 DEF Updated, Policy

-----------------------------------------------------------------------------
(* What holds whatever clients do.                                         *)

\* A step of a task changes its own variables.
LEMMA StepFacts ==
  ASSUME BaseInv, NEW t \in Tasks, NEW from, NEW to \in Task, Step(t, from, to)
  PROVE  /\ task' \in [Tasks -> Task] /\ task'[t] = to
         /\ \A u \in Tasks \ {t} : task'[u] = task[u]
         /\ task[t] \in Task /\ Local(task[t]) /\ task[t].pc = from /\ up = TRUE
BY DEF Step, BaseInv, TypeOK, LocalInv

\* The others' local variables stay what they are.
LEMMA StepLocal ==
  ASSUME BaseInv, NEW t \in Tasks, NEW from, NEW to \in Task, Step(t, from, to), Local(to),
         up' = up
  PROVE  LocalInv'
<1>1. ASSUME NEW u \in Tasks PROVE Local(task'[u]) /\ (~up' => task'[u].pc = "idle")
  <2>1. up
    BY StepFacts
  <2>2. CASE u = t
    BY <2>1, <2>2, StepFacts
  <2>3. CASE u # t
    BY <2>1, <2>3, StepFacts DEF BaseInv, LocalInv
  <2>. QED
    BY <2>2, <2>3
<1>2. LocalInv' <=> \A u \in Tasks : Local(task'[u]) /\ (~up' => task'[u].pc = "idle")
  BY DEF LocalInv, Local
<1>. QED
  BY <1>1, <1>2

LEMMA IdleType == Idle \in Task
BY DEF Idle, Task, Stage

LEMMA InitBase == Init => BaseInv
BY DEF Init, BaseInv, TypeOK, Nothing, Task, Idle, Stage, LocalInv, Local, Loading, Writing,
       Deciding, OfPolicy, StoredPoliciesOrdered

\* A step that changes nothing but local variables.
LEMMA LocalStepBase ==
  ASSUME BaseInv, NEW t \in Tasks, NEW from, NEW to \in Task, Step(t, from, to), Local(to),
         UNCHANGED <<up, memory, disk, answered>>
  PROVE  BaseInv'
<1>1. TypeOK'
  BY StepFacts DEF BaseInv, TypeOK, memory, disk
<1>2. LocalInv'
  BY StepLocal
<1>. QED
  BY <1>1, <1>2 DEF BaseInv, StoredPoliciesOrdered, memory, disk

LEMMA CreateSessionBase ==
  ASSUME BaseInv, NEW t \in Tasks, NEW s \in Sessions, NEW g \in Games, CreateSession(t, s, g)
  PROVE  BaseInv'
<1> DEFINE to == [Idle EXCEPT !.pc = "session_write", !.key = s, !.session = NewSession(g)]
<1>1. to \in Task /\ to.key = s /\ to.session \in SessionRecord /\ to.pc = "session_write"
      /\ to.decision = None
  BY DEF Idle, Task, Stage, NewSession, SessionRecord
<1>2. Step(t, "idle", to) /\ UNCHANGED <<up, memory, disk, answered>>
  BY DEF CreateSession
<1>. HIDE DEF to
<1>3. Local(to)
  BY <1>1 DEF Local, Loading, Writing, Deciding, OfPolicy
<1>. QED
  BY <1>1, <1>2, <1>3, LocalStepBase

LEMMA IngestBase ==
  ASSUME BaseInv, NEW t \in Tasks, NEW s \in Sessions, NEW g \in Games, NEW batch \in Batches,
         Ingest(t, s, g, batch)
  PROVE  BaseInv'
<1> DEFINE to == [Idle EXCEPT !.pc = "load_policy", !.key = s, !.batch = batch,
                              !.session = sessions[s]]
<1>1. /\ to \in Task /\ to.key = s /\ to.session \in SessionRecord /\ to.pc = "load_policy"
      /\ to.batch \in Batches
  BY DEF Ingest, Idle, Task, Stage, BaseInv, TypeOK
<1>2. Step(t, "idle", to) /\ UNCHANGED <<up, memory, disk, answered>>
  BY DEF Ingest
<1>. HIDE DEF to
<1>3. Local(to)
  BY <1>1 DEF Local, Loading, Writing, Deciding, OfPolicy
<1>. QED
  BY <1>1, <1>2, <1>3, LocalStepBase

LEMMA IngestPolicyBase == ASSUME BaseInv, NEW t \in Tasks, IngestPolicy(t) PROVE BaseInv'
<1> DEFINE to == [task[t] EXCEPT !.pc = "load_previous",
                                 !.policy = LoadPolicy(task[t].session.game_id)]
<1>1. /\ Local(task[t]) /\ task[t] \in Task /\ task[t].pc = "load_policy"
      /\ Step(t, "load_policy", to) /\ UNCHANGED <<up, memory, disk, answered>>
  BY DEF IngestPolicy, Step, BaseInv, TypeOK, LocalInv
<1>2. LoadPolicy(task[t].session.game_id) \in Policy
  BY <1>1, LoadPolicyType DEF Local, Loading, SessionRecord
<1>3. to \in Task
  BY <1>1, <1>2 DEF Task, Stage
<1>4. Local(to)
  BY <1>1, <1>2 DEF Task, Local, Loading, Writing, Deciding, OfPolicy
<1>. QED
  BY <1>1, <1>3, <1>4, LocalStepBase

\* What IngestDecide makes of the local variables.
Decided(l) ==
  LET decision == BuildDecision(l.session, l.batch, l.policy, Previous(l.key))
  IN  [l EXCEPT !.pc = "session_write", !.policy = None, !.decision = decision,
                !.session = [game_id       |-> l.session.game_id,
                             peak_risk     |-> decision.peak_risk,
                             finding_count |-> decision.finding_count]]

LEMMA DecidedFacts ==
  ASSUME BaseInv, NEW t \in Tasks, IngestDecide(t)
  PROVE  LET l == task[t]
             decision == BuildDecision(l.session, l.batch, l.policy, Previous(l.key))
             to == Decided(l)
         IN  /\ l \in Task /\ Local(l) /\ l.pc = "load_previous" /\ l.policy \in Policy
             /\ l.key \in Sessions /\ l.session \in SessionRecord /\ l.batch \in Batches
             /\ Previous(l.key) \in DecisionRecord /\ decision \in DecisionRecord
             /\ to \in Task /\ to.pc = "session_write" /\ to.key = l.key /\ to.batch = l.batch
             /\ to.decision = decision /\ to.session \in SessionRecord
             /\ to.session.peak_risk = decision.peak_risk
             /\ to.session.finding_count = decision.finding_count
             /\ Step(t, "load_previous", to) /\ UNCHANGED <<up, memory, disk, answered>>
<1> DEFINE l == task[t]
           decision == BuildDecision(l.session, l.batch, l.policy, Previous(l.key))
<1>1. /\ l \in Task /\ Local(l) /\ l.pc = "load_previous"
      /\ Step(t, "load_previous", Decided(l)) /\ UNCHANGED <<up, memory, disk, answered>>
  BY DEF IngestDecide, Decided, Step, BaseInv, TypeOK, LocalInv
<1>2. /\ l.policy \in Policy /\ l.key \in Sessions /\ l.session \in SessionRecord
      /\ l.batch \in Batches
  BY <1>1 DEF Local, Loading
<1>3. Previous(l.key) \in DecisionRecord
  BY <1>2, NoDecisionType DEF Previous, BaseInv, TypeOK
<1>4. decision \in DecisionRecord
  BY <1>2, <1>3, DecisionFacts
<1>5. Decided(l) = [l EXCEPT !.pc = "session_write", !.policy = None, !.decision = decision,
                             !.session = [game_id       |-> l.session.game_id,
                                          peak_risk     |-> decision.peak_risk,
                                          finding_count |-> decision.finding_count]]
  BY DEF Decided
<1>. HIDE DEF l, decision
<1>6. [game_id |-> l.session.game_id, peak_risk |-> decision.peak_risk,
       finding_count |-> decision.finding_count] \in SessionRecord
  BY <1>2, <1>4 DEF SessionRecord, DecisionRecord
<1>7. /\ Decided(l) \in Task /\ Decided(l).pc = "session_write" /\ Decided(l).key = l.key
      /\ Decided(l).batch = l.batch /\ Decided(l).decision = decision
      /\ Decided(l).session \in SessionRecord
      /\ Decided(l).session.peak_risk = decision.peak_risk
      /\ Decided(l).session.finding_count = decision.finding_count
  <2> DEFINE session == [game_id |-> l.session.game_id, peak_risk |-> decision.peak_risk,
                         finding_count |-> decision.finding_count]
  <2>1. session.peak_risk = decision.peak_risk /\ session.finding_count = decision.finding_count
    OBVIOUS
  <2>. HIDE DEF session
  <2>2. /\ Decided(l) = [l EXCEPT !.pc = "session_write", !.policy = None,
                                  !.decision = decision, !.session = session]
        /\ session \in SessionRecord
    BY <1>5, <1>6 DEF session
  <2>. QED
    BY <1>1, <1>4, <2>1, <2>2 DEF Task, Stage
<1>. QED
  BY <1>1, <1>2, <1>3, <1>4, <1>7 DEF l, decision

LEMMA IngestDecideBase == ASSUME BaseInv, NEW t \in Tasks, IngestDecide(t) PROVE BaseInv'
<1> DEFINE to == Decided(task[t])
<1>1. /\ to \in Task /\ to.pc = "session_write" /\ to.key \in Sessions /\ to.batch \in Batches
      /\ to.session \in SessionRecord
      /\ Step(t, "load_previous", to) /\ UNCHANGED <<up, memory, disk, answered>>
  BY DecidedFacts
<1>. HIDE DEF to
<1>2. Local(to)
  BY <1>1 DEF Local, Loading, Writing, Deciding, OfPolicy
<1>. QED
  BY <1>1, <1>2, LocalStepBase

\* The validation of a policy is what its order comes from.
LEMMA PutPolicyBase ==
  ASSUME BaseInv, NEW t \in Tasks, NEW g \in Games, NEW update \in PolicyUpdates,
         PutPolicy(t, g, update)
  PROVE  BaseInv'
<1> DEFINE policy == Updated(LoadPolicy(g), update)
           to == [Idle EXCEPT !.pc = "policy_write", !.key = g, !.policy = policy]
<1>1. Step(t, "idle", to) /\ UNCHANGED <<up, memory, disk, answered>> /\ Ordered(policy)
  BY DEF PutPolicy, Ordered
<1>2. policy \in Policy
  BY UpdatedType
<1>. HIDE DEF policy
<1>3. to \in Task /\ to.pc = "policy_write" /\ to.key = g /\ to.policy = policy
  BY <1>2 DEF Idle, Task, Stage
<1>. HIDE DEF to
<1>4. Local(to)
  BY <1>1, <1>2, <1>3 DEF Local, Loading, Writing, Deciding, OfPolicy
<1>. QED
  BY <1>1, <1>3, <1>4, LocalStepBase

\* The variables of a handler that goes on from one half of a put to what follows.
GoneOn(l, to) ==
  /\ to \in Task
  /\ to.key = l.key /\ to.batch = l.batch /\ to.session = l.session
  /\ to.policy = l.policy /\ to.decision = l.decision

LEMMA GoesOn ==
  ASSUME BaseInv, NEW t \in Tasks, NEW from, NEW to \in Stage,
         Step(t, from, [task[t] EXCEPT !.pc = to])
  PROVE  /\ GoneOn(task[t], [task[t] EXCEPT !.pc = to])
         /\ [task[t] EXCEPT !.pc = to].pc = to
         /\ task[t] \in Task /\ Local(task[t]) /\ task[t].pc = from
<1>1. task[t] \in Task /\ Local(task[t]) /\ task[t].pc = from
  BY DEF Step, BaseInv, TypeOK, LocalInv
<1>. QED
  BY <1>1 DEF Task, GoneOn

\* Handlers that are done are idle.
LEMMA IdleLocal == Local(Idle)
BY DEF Local, Idle, Loading, Writing, Deciding, OfPolicy

LEMMA WriteSessionBase == ASSUME BaseInv, NEW t \in Tasks, WriteSession(t) PROVE BaseInv'
<1> DEFINE to == [task[t] EXCEPT !.pc = "session_insert"]
<1>1. /\ Step(t, "session_write", to)
      /\ UNCHANGED <<up, memory, diskDecisions, diskPolicies, answered>>
      /\ diskSessions' = [diskSessions EXCEPT ![task[t].key] = task[t].session]
  BY DEF WriteSession
<1>2. /\ to \in Task /\ Local(to) /\ task[t].key \in Sessions /\ task[t].session \in SessionRecord
  <2>1. "session_insert" \in Stage /\ Step(t, "session_write", to)
    BY <1>1 DEF Stage
  <2>2. /\ GoneOn(task[t], to) /\ to.pc = "session_insert"
        /\ Local(task[t]) /\ task[t].pc = "session_write"
    BY <2>1, GoesOn
  <2>. HIDE DEF to
  <2>. QED
    BY <2>2 DEF GoneOn, Local, Loading, Writing, Deciding, OfPolicy
<1>. HIDE DEF to
<1>3. TypeOK'
  BY <1>1, <1>2, StepFacts DEF BaseInv, TypeOK, memory
<1>4. LocalInv'
  BY <1>1, <1>2, StepLocal
<1>. QED
  BY <1>1, <1>3, <1>4 DEF BaseInv, StoredPoliciesOrdered, memory

LEMMA InsertSessionBase ==
  ASSUME BaseInv, NEW t \in Tasks, InsertSession(t) \/ InsertCreated(t) PROVE BaseInv'
<1>1. /\ up' = up /\ UNCHANGED <<decisions, policies, disk>>
      /\ sessions' = [sessions EXCEPT ![task[t].key] = task[t].session]
      /\ task[t].pc = "session_insert" /\ task[t] \in Task /\ Local(task[t])
  BY DEF InsertSession, InsertCreated, Step, BaseInv, TypeOK, LocalInv
<1>2. task[t].key \in Sessions /\ task[t].session \in SessionRecord
  BY <1>1 DEF Local, Writing
<1>3. CASE InsertSession(t)
  <2> DEFINE to == [task[t] EXCEPT !.pc = "decision_write"]
  <2>1. Step(t, "session_insert", to) /\ task[t].decision # None /\ answered' = answered
    BY <1>3 DEF InsertSession
  <2>2. task[t].decision \in DecisionRecord
    BY <1>1, <2>1 DEF Task
  <2>3. to \in Task /\ Local(to)
    <3>1. "decision_write" \in Stage
      BY DEF Stage
    <3>2. /\ GoneOn(task[t], to) /\ to.pc = "decision_write"
          /\ Local(task[t]) /\ task[t].pc = "session_insert"
      BY <2>1, <3>1, GoesOn
    <3>. HIDE DEF to
    <3>. QED
      BY <2>1, <2>2, <3>2 DEF GoneOn, Local, Loading, Writing, Deciding, OfPolicy
  <2>. HIDE DEF to
  <2>4. TypeOK'
    BY <1>1, <1>2, <2>1, <2>3, StepFacts DEF BaseInv, TypeOK, disk
  <2>5. LocalInv'
    BY <1>1, <2>1, <2>3, StepLocal
  <2>. QED
    BY <1>1, <2>4, <2>5 DEF BaseInv, StoredPoliciesOrdered, disk
<1>4. CASE InsertCreated(t)
  <2>1. /\ Step(t, "session_insert", Idle)
        /\ answered' = [answered EXCEPT ![task[t].key] =
                          [findings |-> 0, decision |-> NoDecision]]
    BY <1>4 DEF InsertCreated
  <2>2. [findings |-> 0, decision |-> NoDecision] \in Answer
    BY NoDecisionType DEF Answer
  <2>3. TypeOK'
    BY <1>1, <1>2, <2>1, <2>2, StepFacts, IdleType DEF BaseInv, TypeOK, disk
  <2>4. LocalInv'
    BY <1>1, <2>1, StepLocal, IdleType, IdleLocal
  <2>. QED
    BY <1>1, <2>3, <2>4 DEF BaseInv, StoredPoliciesOrdered, disk
<1>. QED
  BY <1>3, <1>4

LEMMA WriteDecisionBase == ASSUME BaseInv, NEW t \in Tasks, WriteDecision(t) PROVE BaseInv'
<1> DEFINE to == [task[t] EXCEPT !.pc = "decision_insert"]
<1>1. /\ Step(t, "decision_write", to)
      /\ UNCHANGED <<up, memory, diskSessions, diskPolicies, answered>>
      /\ diskDecisions' = [diskDecisions EXCEPT ![task[t].key] = task[t].decision]
  BY DEF WriteDecision
<1>2. /\ to \in Task /\ Local(to) /\ task[t].key \in Sessions /\ task[t].decision \in DecisionRecord
  <2>1. "decision_insert" \in Stage /\ Step(t, "decision_write", to)
    BY <1>1 DEF Stage
  <2>2. /\ GoneOn(task[t], to) /\ to.pc = "decision_insert"
        /\ Local(task[t]) /\ task[t].pc = "decision_write"
    BY <2>1, GoesOn
  <2>. HIDE DEF to
  <2>. QED
    BY <2>2 DEF GoneOn, Local, Loading, Writing, Deciding, OfPolicy
<1>. HIDE DEF to
<1>3. TypeOK'
  BY <1>1, <1>2, StepFacts DEF BaseInv, TypeOK, memory
<1>4. LocalInv'
  BY <1>1, <1>2, StepLocal
<1>. QED
  BY <1>1, <1>3, <1>4 DEF BaseInv, StoredPoliciesOrdered, memory

LEMMA InsertDecisionBase == ASSUME BaseInv, NEW t \in Tasks, InsertDecision(t) PROVE BaseInv'
<1> DEFINE to == [task[t] EXCEPT !.pc = "evidence_write"]
<1>1. /\ Step(t, "decision_insert", to) /\ UNCHANGED <<up, sessions, policies, disk, answered>>
      /\ decisions' = [decisions EXCEPT ![task[t].key] = task[t].decision]
  BY DEF InsertDecision
<1>2. /\ to \in Task /\ Local(to) /\ task[t].key \in Sessions /\ task[t].decision \in DecisionRecord
  <2>1. "evidence_write" \in Stage /\ Step(t, "decision_insert", to)
    BY <1>1 DEF Stage
  <2>2. /\ GoneOn(task[t], to) /\ to.pc = "evidence_write"
        /\ Local(task[t]) /\ task[t].pc = "decision_insert"
    BY <2>1, GoesOn
  <2>. HIDE DEF to
  <2>. QED
    BY <2>2 DEF GoneOn, Local, Loading, Writing, Deciding, OfPolicy
<1>. HIDE DEF to
<1>3. TypeOK'
  BY <1>1, <1>2, StepFacts DEF BaseInv, TypeOK, disk
<1>4. LocalInv'
  BY <1>1, <1>2, StepLocal
<1>. QED
  BY <1>1, <1>3, <1>4 DEF BaseInv, StoredPoliciesOrdered, disk

\* The next answer to a session's client.
LEMMA AnswerType ==
  ASSUME BaseInv, AnsweredInv, NEW t \in Tasks, task[t].pc \in Deciding
  PROVE  /\ task[t].key \in Sessions
         /\ [findings |-> answered[task[t].key].findings + Len(task[t].batch),
             decision |-> task[t].decision] \in Answer
<1>1. Local(task[t])
  BY DEF BaseInv, LocalInv
<1>2. /\ task[t].key \in Sessions /\ task[t].batch \in Batches
      /\ task[t].decision \in DecisionRecord
      /\ answered[task[t].key] \in Answer
  BY <1>1 DEF Local, AnsweredInv, BaseInv, TypeOK
<1>3. Len(task[t].batch) \in Nat
  BY <1>2, BatchLength
<1>. QED
  BY <1>2, <1>3 DEF Answer

LEMMA AnswerIngestBase ==
  ASSUME BaseInv, AnsweredInv, NEW t \in Tasks, AnswerIngest(t) PROVE BaseInv'
<1>1. /\ Step(t, "evidence_write", Idle) /\ UNCHANGED <<up, memory, disk>>
      /\ task[t] \in Task /\ Local(task[t]) /\ task[t].pc = "evidence_write"
  BY DEF AnswerIngest, Step, BaseInv, TypeOK, LocalInv
<1> DEFINE answer == [findings |-> answered[task[t].key].findings + Len(task[t].batch),
                      decision |-> task[t].decision]
<1>2. answered' = [answered EXCEPT ![task[t].key] = answer]
  BY DEF AnswerIngest
<1>3. answer \in Answer /\ task[t].key \in Sessions
  BY <1>1, AnswerType DEF Deciding
<1>. HIDE DEF answer
<1>4. TypeOK'
  BY <1>1, <1>2, <1>3, StepFacts, IdleType DEF BaseInv, TypeOK, memory, disk
<1>5. LocalInv'
  BY <1>1, StepLocal, IdleType, IdleLocal
<1>. QED
  BY <1>1, <1>4, <1>5 DEF BaseInv, StoredPoliciesOrdered, memory, disk

LEMMA WritePolicyBase == ASSUME BaseInv, NEW t \in Tasks, WritePolicy(t) PROVE BaseInv'
<1> DEFINE to == [task[t] EXCEPT !.pc = "policy_insert"]
<1>1. /\ Step(t, "policy_write", to)
      /\ UNCHANGED <<up, memory, diskSessions, diskDecisions, answered>>
      /\ diskPolicies' = [diskPolicies EXCEPT ![task[t].key] = task[t].policy]
  BY DEF WritePolicy
<1>2. /\ to \in Task /\ Local(to) /\ task[t].key \in Games /\ task[t].policy \in Policy
      /\ Ordered(task[t].policy)
  <2>1. "policy_insert" \in Stage /\ Step(t, "policy_write", to)
    BY <1>1 DEF Stage
  <2>2. /\ GoneOn(task[t], to) /\ to.pc = "policy_insert"
        /\ Local(task[t]) /\ task[t].pc = "policy_write"
    BY <2>1, GoesOn
  <2>. HIDE DEF to
  <2>. QED
    BY <2>2 DEF GoneOn, Local, Loading, Writing, Deciding, OfPolicy
<1>. HIDE DEF to
<1>3. TypeOK'
  BY <1>1, <1>2, StepFacts DEF BaseInv, TypeOK, memory
<1>4. LocalInv'
  BY <1>1, <1>2, StepLocal
<1>5. StoredPoliciesOrdered'
  BY <1>1, <1>2 DEF BaseInv, TypeOK, StoredPoliciesOrdered, memory, Ordered
<1>. QED
  BY <1>3, <1>4, <1>5 DEF BaseInv

LEMMA InsertPolicyBase == ASSUME BaseInv, NEW t \in Tasks, InsertPolicy(t) PROVE BaseInv'
<1>1. /\ Step(t, "policy_insert", Idle) /\ UNCHANGED <<up, sessions, decisions, disk, answered>>
      /\ policies' = [policies EXCEPT ![task[t].key] = task[t].policy]
      /\ Local(task[t]) /\ task[t].pc = "policy_insert"
  BY DEF InsertPolicy, Step, BaseInv, TypeOK, LocalInv
<1>2. /\ task[t].key \in Games /\ task[t].policy \in Policy /\ Ordered(task[t].policy)
  BY <1>1 DEF Local, OfPolicy
<1>3. TypeOK'
  BY <1>1, <1>2, StepFacts, IdleType DEF BaseInv, TypeOK, disk
<1>4. LocalInv'
  BY <1>1, StepLocal, IdleType, IdleLocal
<1>5. StoredPoliciesOrdered'
  BY <1>1, <1>2 DEF BaseInv, TypeOK, StoredPoliciesOrdered, disk, Ordered
<1>. QED
  BY <1>3, <1>4, <1>5 DEF BaseInv

LEMMA WriteFailsBase == ASSUME BaseInv, NEW t \in Tasks, WriteFails(t) PROVE BaseInv'
<1>1. Step(t, task[t].pc, Idle) /\ UNCHANGED <<up, memory, disk, answered>>
  BY DEF WriteFails
<1>. QED
  BY <1>1, LocalStepBase, IdleType, IdleLocal

\* What the process leaves behind, and what it finds when it starts.
LEMMA CrashBase == ASSUME BaseInv, Crash PROVE BaseInv'
<1>1. TypeOK'
  BY IdleType DEF Crash, BaseInv, TypeOK, Nothing, disk
<1>2. LocalInv'
  BY IdleLocal DEF Crash, LocalInv, Idle, Local
<1>3. StoredPoliciesOrdered'
  BY DEF Crash, BaseInv, StoredPoliciesOrdered, Nothing, disk
<1>. QED
  BY <1>1, <1>2, <1>3 DEF BaseInv

LEMMA OpenStoreBase == ASSUME BaseInv, OpenStore PROVE BaseInv'
<1>1. TypeOK' /\ StoredPoliciesOrdered'
  BY DEF OpenStore, BaseInv, TypeOK, StoredPoliciesOrdered, disk
<1>2. LocalInv'
  BY DEF OpenStore, BaseInv, LocalInv, Local
<1>. QED
  BY <1>1, <1>2 DEF BaseInv

\* Nobody who was answered is forgotten.
LEMMA AnsweredStep ==
  ASSUME FreeInv, NEW t \in Tasks, NEW from, NEW to \in Task, Step(t, from, to),
         \A s \in Sessions : answered[s] # None => answered'[s] # None,
         \/ to.pc = "idle" \/ to.pc \in OfPolicy
         \/ to.pc \in Writing /\ to.decision = None
         \/ to.key \in Sessions /\ answered[to.key] # None
  PROVE  AnsweredInv'
<1>1. ASSUME NEW u \in Tasks
      PROVE  /\ task'[u].pc \in Loading \cup Deciding => answered'[task'[u].key] # None
             /\ task'[u].pc \in Writing /\ task'[u].decision # None =>
                  answered'[task'[u].key] # None
  <2>1. CASE u = t
    <3>1. task'[u] = to
      BY <2>1, StepFacts DEF FreeInv
    <3>2. CASE to.key \in Sessions /\ answered[to.key] # None
      BY <3>1, <3>2
    <3>3. CASE to.pc = "idle" \/ to.pc \in OfPolicy
      BY <3>1, <3>3 DEF Loading, Writing, Deciding, OfPolicy
    <3>4. CASE to.pc \in Writing /\ to.decision = None
      BY <3>1, <3>4 DEF Loading, Writing, Deciding
    <3>. QED
      BY <3>2, <3>3, <3>4
  <2>2. CASE u # t
    <3>1. task'[u] = task[u] /\ Local(task[u])
      BY <2>2, StepFacts DEF FreeInv, BaseInv, LocalInv
    <3>. QED
      BY <3>1 DEF FreeInv, AnsweredInv, Local
  <2>. QED
    BY <2>1, <2>2
<1>. QED
  BY <1>1 DEF AnsweredInv

LEMMA NextFree == FreeInv /\ [Next]_vars => FreeInv'
<1>. SUFFICES ASSUME FreeInv, [Next]_vars PROVE FreeInv'
  OBVIOUS
<1>0. BaseInv
  BY DEF FreeInv
<1>1. ASSUME NEW t \in Tasks, NEW s \in Sessions, NEW g \in Games, CreateSession(t, s, g)
      PROVE  FreeInv'
  <2>1. [Idle EXCEPT !.pc = "session_write", !.key = s, !.session = NewSession(g)] \in Task
    BY DEF Idle, Task, Stage, NewSession, SessionRecord
  <2>2. AnsweredInv'
    BY <1>1, <2>1, AnsweredStep DEF CreateSession, Writing, Idle
  <2>. QED
    BY <1>0, <1>1, <2>2, CreateSessionBase DEF FreeInv
<1>2. ASSUME NEW t \in Tasks, NEW s \in Sessions, NEW g \in Games, NEW batch \in Batches,
             Ingest(t, s, g, batch)
      PROVE  FreeInv'
  <2>1. [Idle EXCEPT !.pc = "load_policy", !.key = s, !.batch = batch,
                     !.session = sessions[s]] \in Task
    BY <1>0, <1>2 DEF Ingest, Idle, Task, Stage, BaseInv, TypeOK
  <2>2. AnsweredInv'
    BY <1>2, <2>1, AnsweredStep DEF Ingest, Idle
  <2>. QED
    BY <1>0, <1>2, <2>2, IngestBase DEF FreeInv
<1>3. ASSUME NEW t \in Tasks, IngestPolicy(t) PROVE FreeInv'
  <2>1. BaseInv'
    BY <1>0, <1>3, IngestPolicyBase
  <2>2. /\ Step(t, "load_policy", task'[t]) /\ task'[t] \in Task
        /\ task'[t].key = task[t].key /\ answered' = answered
        /\ answered[task[t].key] # None /\ task[t].key \in Sessions
    BY <1>0, <1>3, <2>1
    DEF IngestPolicy, Step, FreeInv, BaseInv, TypeOK, AnsweredInv, LocalInv, Local, Loading, Task
  <2>3. AnsweredInv'
    BY <2>2, AnsweredStep
  <2>. QED
    BY <2>1, <2>3 DEF FreeInv
<1>4. ASSUME NEW t \in Tasks, IngestDecide(t) PROVE FreeInv'
  <2>1. /\ Decided(task[t]) \in Task /\ Decided(task[t]).key = task[t].key
        /\ task[t].key \in Sessions /\ task[t].pc = "load_previous"
        /\ Step(t, "load_previous", Decided(task[t])) /\ answered' = answered
    BY <1>0, <1>4, DecidedFacts
  <2>2. answered[task[t].key] # None
    BY <2>1 DEF FreeInv, AnsweredInv, Loading
  <2>3. AnsweredInv'
    BY <2>1, <2>2, AnsweredStep
  <2>. QED
    BY <1>0, <1>4, <2>3, IngestDecideBase DEF FreeInv
<1>5. ASSUME NEW t \in Tasks, NEW g \in Games, NEW update \in PolicyUpdates,
             PutPolicy(t, g, update)
      PROVE  FreeInv'
  <2>1. [Idle EXCEPT !.pc = "policy_write", !.key = g,
                     !.policy = Updated(LoadPolicy(g), update)] \in Task
    BY <1>0, UpdatedType DEF Idle, Task, Stage
  <2>2. AnsweredInv'
    BY <1>5, <2>1, AnsweredStep DEF PutPolicy, OfPolicy, Idle
  <2>. QED
    BY <1>0, <1>5, <2>2, PutPolicyBase DEF FreeInv
\* A handler that goes on is still the handler of what was answered.
<1>6. ASSUME NEW t \in Tasks, NEW from, NEW to \in Stage,
             Step(t, from, [task[t] EXCEPT !.pc = to]), answered' = answered,
             \/ to \in OfPolicy
             \/ task[t].pc \in Writing /\ to \in Writing
             \/ task[t].pc \in Writing /\ task[t].decision # None
             \/ task[t].pc \in Deciding
      PROVE  AnsweredInv'
  <2> DEFINE l == [task[t] EXCEPT !.pc = to]
  <2>1. GoneOn(task[t], l) /\ l.pc = to /\ Local(task[t])
    BY <1>0, <1>6, GoesOn
  <2>. HIDE DEF l
  <2>2. \/ l.pc \in OfPolicy
        \/ l.pc \in Writing /\ l.decision = None
        \/ l.key \in Sessions /\ answered[l.key] # None
    BY <1>6, <2>1 DEF GoneOn, Local, FreeInv, AnsweredInv
  <2>3. Step(t, from, l) /\ l \in Task
    BY <1>6, <2>1 DEF l, GoneOn
  <2>. QED
    BY <1>6, <2>2, <2>3, AnsweredStep
<1>7. ASSUME NEW t \in Tasks, WriteSession(t) PROVE FreeInv'
  <2>1. AnsweredInv'
    BY <1>6, <1>7 DEF WriteSession, Step, Stage, Writing
  <2>. QED
    BY <1>0, <1>7, <2>1, WriteSessionBase DEF FreeInv
<1>8. ASSUME NEW t \in Tasks, InsertSession(t) PROVE FreeInv'
  <2>1. AnsweredInv'
    BY <1>6, <1>8 DEF InsertSession, Step, Stage, Writing
  <2>. QED
    BY <1>0, <1>8, <2>1, InsertSessionBase DEF FreeInv
<1>9. ASSUME NEW t \in Tasks, WriteDecision(t) \/ InsertDecision(t) PROVE FreeInv'
  <2>1. AnsweredInv'
    BY <1>6, <1>9 DEF WriteDecision, InsertDecision, Step, Stage, Deciding
  <2>. QED
    BY <1>0, <1>9, <2>1, WriteDecisionBase, InsertDecisionBase DEF FreeInv
<1>10. ASSUME NEW t \in Tasks, WritePolicy(t) PROVE FreeInv'
  <2>1. AnsweredInv'
    BY <1>6, <1>10 DEF WritePolicy, Step, Stage, OfPolicy
  <2>. QED
    BY <1>0, <1>10, <2>1, WritePolicyBase DEF FreeInv
\* A handler that is done has nothing to remember.
<1>11. ASSUME NEW t \in Tasks, NEW from, Step(t, from, Idle), BaseInv',
              \A s \in Sessions : answered[s] # None => answered'[s] # None
       PROVE  FreeInv'
  <2>1. AnsweredInv'
    BY <1>11, AnsweredStep, IdleType DEF Idle
  <2>. QED
    BY <1>11, <2>1 DEF FreeInv
<1>12. ASSUME NEW t \in Tasks, InsertPolicy(t) \/ WriteFails(t) PROVE FreeInv'
  <2>1. BaseInv'
    BY <1>0, <1>12, InsertPolicyBase, WriteFailsBase
  <2>2. answered' = answered /\ \E from : Step(t, from, Idle)
    BY <1>12 DEF InsertPolicy, WriteFails
  <2>. QED
    BY <1>11, <2>1, <2>2
<1>13. ASSUME NEW t \in Tasks, InsertCreated(t) \/ AnswerIngest(t) PROVE FreeInv'
  <2>1. BaseInv'
    BY <1>0, <1>13, InsertSessionBase, AnswerIngestBase DEF FreeInv
  <2>2. \A s \in Sessions : answered[s] # None => answered'[s] # None
    <3>1. \A answer \in Answer : answer # None
      BY RecordsAssumption
    <3>2. /\ answered' \in [Sessions -> Answer \cup {None}]
          /\ answered \in [Sessions -> Answer \cup {None}]
      BY <1>0, <2>1 DEF BaseInv, TypeOK
    <3>3. ASSUME NEW s \in Sessions, answered[s] # None PROVE answered'[s] # None
      <4>1. \/ answered'[s] = answered[s]
            \/ answered'[s] = [findings |-> 0, decision |-> NoDecision]
            \/ answered'[s] = [findings |-> answered[task[t].key].findings + Len(task[t].batch),
                               decision |-> task[t].decision] /\ AnswerIngest(t)
        BY <1>13, <3>2 DEF InsertCreated, AnswerIngest
      <4>2. [findings |-> 0, decision |-> NoDecision] \in Answer
        BY NoDecisionType DEF Answer
      <4>3. CASE answered'[s] = [findings |-> answered[task[t].key].findings + Len(task[t].batch),
                                 decision |-> task[t].decision] /\ AnswerIngest(t)
        <5>1. task[t].pc \in Deciding
          BY <4>3 DEF AnswerIngest, Step, Deciding
        <5>. QED
          BY <1>0, <3>1, <4>3, <5>1, AnswerType DEF FreeInv
      <4>. QED
        BY <3>1, <3>3, <4>1, <4>2, <4>3
    <3>. QED
      BY <3>3
  <2>3. \E from : Step(t, from, Idle)
    BY <1>13 DEF InsertCreated, AnswerIngest
  <2>. QED
    BY <1>11, <2>1, <2>2, <2>3
<1>14. CASE Crash
  <2>1. AnsweredInv'
    BY <1>14 DEF Crash, AnsweredInv, Idle, Loading, Writing, Deciding
  <2>. QED
    BY <1>0, <1>14, <2>1, CrashBase DEF FreeInv
<1>15. CASE OpenStore
  <2>1. AnsweredInv'
    BY <1>15 DEF OpenStore, FreeInv, AnsweredInv
  <2>. QED
    BY <1>0, <1>15, <2>1, OpenStoreBase DEF FreeInv
<1>16. CASE UNCHANGED vars
  BY <1>16 DEF vars, FreeInv, BaseInv, TypeOK, LocalInv, AnsweredInv, StoredPoliciesOrdered
<1>. QED
  BY <1>1, <1>2, <1>3, <1>4, <1>5, <1>7, <1>8, <1>9, <1>10, <1>12, <1>13, <1>14, <1>15, <1>16
  DEF Next

LEMMA InitFree == Init => FreeInv
<1>1. Init => AnsweredInv
  BY DEF Init, AnsweredInv, Idle, Loading, Writing, Deciding
<1>. QED
  BY <1>1, InitBase DEF FreeInv

LEMMA AlwaysFree == Spec => []FreeInv
BY InitFree, NextFree, PTL DEF Spec

\* The state is well typed, whatever clients and the disk do (main.rs, store.rs).
THEOREM TypeCorrect == Spec => []TypeOK
<1>1. FreeInv => TypeOK
  BY DEF FreeInv, BaseInv
<1>. QED
  BY <1>1, AlwaysFree, PTL

\* Every stored policy kicks below where it bans, however many updates race (put_policy,
\* main.rs:286).
THEOREM PoliciesOrdered == Spec => []StoredPoliciesOrdered
<1>1. FreeInv => StoredPoliciesOrdered
  BY DEF FreeInv, BaseInv
<1>. QED
  BY <1>1, AlwaysFree, PTL

-----------------------------------------------------------------------------
(* What holds if clients wait for their answers.                           *)

\* Task t handles a request of session s.
Handles(t, s) == task[t].key = s /\ task[t].pc \in Loading \cup Writing \cup Deciding

\* No two do at a time.
AloneInv == \A s \in Sessions, t, u \in Tasks : Handles(t, s) /\ Handles(u, s) => t = u

\* What a handler has read is still so.
HasRead(t) ==
  task[t].pc \in Loading => task[t].session = diskSessions[task[t].key]

\* A session that is created is new.
Creates(t) ==
  /\ task[t].pc = "session_write" /\ task[t].decision = None =>
       /\ diskSessions[task[t].key] = None
       /\ task[t].session.peak_risk = 0 /\ task[t].session.finding_count = 0
  /\ task[t].pc = "session_insert" /\ task[t].decision = None =>
       diskSessions[task[t].key] = task[t].session

\* A decision is on all that is recorded, or about to be, and on the batch.
Judges(t) ==
  LET l == task[t]
      s == task[t].key
  IN  l.pc \in Writing \cup Deciding /\ l.decision # None =>
        /\ l.session.peak_risk = l.decision.peak_risk
        /\ l.session.finding_count = l.decision.finding_count
        /\ l.decision.finding_count >= answered[s].findings + Len(l.batch)
        /\ IF l.pc = "session_write"
             THEN /\ diskSessions[s] # None
                  /\ l.session.peak_risk >= diskSessions[s].peak_risk
                  /\ l.session.finding_count > diskSessions[s].finding_count
             ELSE diskSessions[s] = l.session
        /\ IF l.pc \in Writing \cup {"decision_write"}
             THEN diskDecisions[s] # None => Covers(l.decision, diskDecisions[s])
             ELSE diskDecisions[s] = l.decision
        /\ l.pc = "decision_insert" /\ decisions[s] # None => Covers(l.decision, decisions[s])

ProgressInv == \A t \in Tasks : HasRead(t) /\ Creates(t) /\ Judges(t)

\* Maps and files agree on a session that no handler is about to insert.
SessionMapped(s) ==
  ~(\E t \in Tasks : task[t].key = s /\ task[t].pc = "session_insert") =>
    sessions[s] = diskSessions[s]

DecisionMapped(s) ==
  ~(\E t \in Tasks : task[t].key = s /\ task[t].pc = "decision_insert") =>
    decisions[s] = diskDecisions[s]

MappedInv ==
  /\ up => \A s \in Sessions : SessionMapped(s) /\ DecisionMapped(s)
  /\ ~up => \A s \in Sessions : decisions[s] = None

\* No decision is ahead of its session's record.
RecordedAt(s) ==
  diskDecisions[s] # None =>
    /\ diskSessions[s] # None
    /\ diskSessions[s].peak_risk >= diskDecisions[s].peak_risk
    /\ diskSessions[s].finding_count >= diskDecisions[s].finding_count

\* What was answered of a session is in its files.
DurableAt(s) ==
  answered[s] # None =>
    /\ diskSessions[s] # None
    /\ diskSessions[s].finding_count >= answered[s].findings
    /\ answered[s].findings > 0 =>
         /\ diskDecisions[s] # None
         /\ Covers(diskDecisions[s], answered[s].decision)

RecordedInv == \A s \in Sessions : RecordedAt(s) /\ DurableAt(s)

SerialInv == FreeInv /\ AloneInv /\ ProgressInv /\ MappedInv /\ RecordedInv

\* A session that no request is under way for has no handler.
LEMMA NotBusy == ASSUME NEW s \in Sessions, ~Busy(s) PROVE \A t \in Tasks : ~Handles(t, s)
BY DEF Busy, Handles

\* The local variables of a handler have their types.
LEMMA HandlerTypes ==
  ASSUME FreeInv, NEW t \in Tasks, NEW s \in Sessions, Handles(t, s)
  PROVE  /\ task[t] \in Task /\ task[t].key = s /\ task[t].session \in SessionRecord
         /\ task[t].pc \in Loading \cup Deciding => task[t].batch \in Batches
         /\ task[t].decision # None => task[t].decision \in DecisionRecord
         /\ task[t].pc \in Deciding => task[t].decision \in DecisionRecord
         /\ task[t].decision # None /\ task[t].pc \in Writing => task[t].batch \in Batches
         /\ up = TRUE
BY DEF FreeInv, BaseInv, TypeOK, LocalInv, Local, Handles, Task, Loading, Writing, Deciding

\* Records are not the absence of one, and their numbers are numbers.
LEMMA Records ==
  /\ \A r \in SessionRecord : r # None /\ r.peak_risk \in Nat /\ r.finding_count \in Nat
  /\ \A d \in DecisionRecord : d # None /\ d.peak_risk \in Nat /\ d.finding_count \in Nat
  /\ \A a \in Answer : a # None /\ a.findings \in Nat /\ a.decision \in DecisionRecord
BY RecordsAssumption DEF SessionRecord, DecisionRecord, Answer

LEMMA StateTypes ==
  ASSUME FreeInv, NEW s \in Sessions
  PROVE  /\ diskSessions[s] # None => diskSessions[s] \in SessionRecord
         /\ diskDecisions[s] # None => diskDecisions[s] \in DecisionRecord
         /\ decisions[s] # None => decisions[s] \in DecisionRecord
         /\ answered[s] # None => answered[s] \in Answer
BY DEF FreeInv, BaseInv, TypeOK

\* Nothing is changed of what the others' sessions are.
Untouched(s) ==
  /\ diskSessions'[s] = diskSessions[s] /\ diskDecisions'[s] = diskDecisions[s]
  /\ sessions'[s] = sessions[s] /\ decisions'[s] = decisions[s] /\ answered'[s] = answered[s]

\* A step of task t that touches no session but its own leaves the others alone where they are.
LEMMA OthersProgress ==
  ASSUME SerialInv, NEW t \in Tasks, NEW from, NEW to \in Task, Step(t, from, to),
         \A s \in Sessions : ~Handles(t, s) => Untouched(s)
  PROVE  \A u \in Tasks \ {t} : (HasRead(u) /\ Creates(u) /\ Judges(u))'
<1>1. TAKE u \in Tasks \ {t}
<1>2. task'[u] = task[u] /\ Local(task[u]) /\ HasRead(u) /\ Creates(u) /\ Judges(u)
  BY StepFacts DEF SerialInv, FreeInv, BaseInv, LocalInv, ProgressInv
<1>3. CASE task[u].pc \notin Loading \cup Writing \cup Deciding
  BY <1>2, <1>3 DEF HasRead, Creates, Judges, Loading, Writing, Deciding
<1>4. CASE task[u].pc \in Loading \cup Writing \cup Deciding
  <2>1. PICK s \in Sessions : task[u].key = s
    BY <1>2, <1>4 DEF Local
  <2>2. Untouched(s)
    BY <1>4, <2>1 DEF Handles, SerialInv, AloneInv
  <2>3. HasRead(u)' /\ Creates(u)'
    BY <1>2, <2>1, <2>2 DEF HasRead, Creates, Untouched
  <2>4. Judges(u)'
    BY <1>2, <2>1, <2>2 DEF Judges, Untouched
  <2>. QED
    BY <2>3, <2>4
<1>. QED
  BY <1>3, <1>4

\* It stays the only one, or becomes the first.
LEMMA AloneKept ==
  ASSUME SerialInv, NEW t \in Tasks, NEW from, NEW to \in Task, Step(t, from, to),
         \/ to.pc \notin Loading \cup Writing \cup Deciding
         \/ Handles(t, to.key)
         \/ \A u \in Tasks : ~Handles(u, to.key)
  PROVE  AloneInv'
<1>1. task'[t] = to /\ \A u \in Tasks \ {t} : task'[u] = task[u]
  BY StepFacts DEF SerialInv, FreeInv
<1>2. \A s \in Sessions, u \in Tasks \ {t} : Handles(u, s)' <=> Handles(u, s)
  BY <1>1 DEF Handles
<1>3. ASSUME NEW s \in Sessions, Handles(t, s)' PROVE \A u \in Tasks \ {t} : ~Handles(u, s)
  BY <1>1, <1>3 DEF Handles, SerialInv, AloneInv
<1>. QED
  BY <1>2, <1>3 DEF SerialInv, AloneInv

\* Where nothing is inserted by a step, nothing is inserted that was to be.
LEMMA MappedKept ==
  ASSUME SerialInv, NEW t \in Tasks, NEW from, NEW to \in Task, Step(t, from, to),
         NEW s \in Sessions, Untouched(s),
         from \notin {"session_insert", "decision_insert"} \/ ~Handles(t, s)
  PROVE  SessionMapped(s)' /\ DecisionMapped(s)'
<1>1. up /\ task[t].pc = from /\ \A u \in Tasks \ {t} : task'[u] = task[u]
  BY StepFacts DEF SerialInv, FreeInv
<1>2. SessionMapped(s) /\ DecisionMapped(s)
  BY <1>1 DEF SerialInv, MappedInv
<1>3. ASSUME NEW u \in Tasks, NEW pc \in {"session_insert", "decision_insert"},
             task[u].key = s, task[u].pc = pc
      PROVE  task'[u].key = s /\ task'[u].pc = pc
  BY <1>1, <1>3 DEF Handles, Writing, Deciding
<1>. QED
  BY <1>2, <1>3 DEF SessionMapped, DecisionMapped, Untouched

\* What holds of every session while the process runs.
Kept(s) == SessionMapped(s) /\ DecisionMapped(s) /\ RecordedAt(s) /\ DurableAt(s)

\* A step of a task keeps the invariant if it is right about its own session.
LEMMA SerialStep ==
  ASSUME SerialInv, FreeInv', up' = up, NEW t \in Tasks, NEW from, NEW to \in Task,
         Step(t, from, to),
         \A s \in Sessions : ~Handles(t, s) => Untouched(s),
         \/ to.pc \notin Loading \cup Writing \cup Deciding
         \/ Handles(t, to.key)
         \/ \A u \in Tasks : ~Handles(u, to.key),
         (HasRead(t) /\ Creates(t) /\ Judges(t))',
         \A s \in Sessions :
           \/ Untouched(s) /\ (from \notin {"session_insert", "decision_insert"} \/ ~Handles(t, s))
           \/ Kept(s)'
  PROVE  SerialInv'
<1>1. up = TRUE
  BY StepFacts DEF SerialInv, FreeInv
<1>2. AloneInv'
  BY AloneKept
<1>3. ProgressInv'
  BY OthersProgress DEF ProgressInv
<1>4. ASSUME NEW s \in Sessions PROVE Kept(s)'
  <2>1. CASE /\ Untouched(s)
             /\ from \notin {"session_insert", "decision_insert"} \/ ~Handles(t, s)
    <3>1. SessionMapped(s)' /\ DecisionMapped(s)'
      BY <2>1, MappedKept
    <3>2. RecordedAt(s)' /\ DurableAt(s)'
      BY <2>1 DEF Untouched, RecordedAt, DurableAt, SerialInv, RecordedInv
    <3>. QED
      BY <3>1, <3>2 DEF Kept
  <2>. QED
    BY <2>1
<1>5. MappedInv' /\ RecordedInv'
  BY <1>1, <1>4 DEF Kept, MappedInv, RecordedInv
<1>. QED
  BY <1>2, <1>3, <1>5 DEF SerialInv

\* A step that changes neither a session nor what clients were told of one.
LEMMA SerialLocalStep ==
  ASSUME SerialInv, FreeInv', NEW t \in Tasks, NEW from, NEW to \in Task, Step(t, from, to),
         UNCHANGED <<up, sessions, decisions, diskSessions, diskDecisions, answered>>,
         from \notin {"session_insert", "decision_insert"},
         \/ to.pc \notin Loading \cup Writing \cup Deciding
         \/ Handles(t, to.key)
         \/ \A u \in Tasks : ~Handles(u, to.key),
         (HasRead(t) /\ Creates(t) /\ Judges(t))'
  PROVE  SerialInv'
<1>1. \A s \in Sessions : Untouched(s)
  BY DEF Untouched
<1>. QED
  BY <1>1, SerialStep

\* A handler that has come to its end, or handles a policy, claims nothing of a session.
LEMMA NoClaims ==
  ASSUME NEW t \in Tasks, task'[t].pc \notin Loading \cup Writing \cup Deciding
  PROVE  (HasRead(t) /\ Creates(t) /\ Judges(t))'
BY DEF HasRead, Creates, Judges, Loading, Writing, Deciding

LEMMA CreateSessionSerial ==
  ASSUME SerialInv, FreeInv', NEW t \in Tasks, NEW s \in Sessions, NEW g \in Games,
         CreateSession(t, s, g)
  PROVE  SerialInv'
<1> DEFINE to == [Idle EXCEPT !.pc = "session_write", !.key = s, !.session = NewSession(g)]
<1>1. /\ to \in Task /\ to.pc = "session_write" /\ to.key = s /\ to.decision = None
      /\ to.session.peak_risk = 0 /\ to.session.finding_count = 0
  BY DEF Idle, Task, Stage, NewSession, SessionRecord
<1>2. /\ Step(t, "idle", to) /\ UNCHANGED <<up, memory, disk, answered>>
      /\ diskSessions[s] = None /\ ~Busy(s)
  BY DEF CreateSession
<1>. HIDE DEF to
<1>3. task'[t] = to
  BY <1>1, <1>2, StepFacts DEF SerialInv, FreeInv
<1>4. (HasRead(t) /\ Creates(t) /\ Judges(t))'
  BY <1>1, <1>2, <1>3 DEF HasRead, Creates, Judges, Loading, Writing, Deciding, disk
<1>. QED
  BY <1>1, <1>2, <1>4, SerialLocalStep, NotBusy DEF memory, disk

LEMMA IngestSerial ==
  ASSUME SerialInv, FreeInv', ClientsWait, NEW t \in Tasks, NEW s \in Sessions,
         NEW g \in Games, NEW batch \in Batches, Ingest(t, s, g, batch)
  PROVE  SerialInv'
<1> DEFINE to == [Idle EXCEPT !.pc = "load_policy", !.key = s, !.batch = batch,
                              !.session = sessions[s]]
<1>1. /\ to \in Task /\ to.pc = "load_policy" /\ to.key = s /\ to.session = sessions[s]
  BY DEF Ingest, Idle, Task, Stage, SerialInv, FreeInv, BaseInv, TypeOK
<1>2. /\ Step(t, "idle", to) /\ UNCHANGED <<up, memory, disk, answered>> /\ ~Busy(s)
  BY DEF Ingest, MayArrive
<1>. HIDE DEF to
<1>3. task'[t] = to /\ up = TRUE
  BY <1>1, <1>2, StepFacts DEF SerialInv, FreeInv
<1>4. sessions[s] = diskSessions[s]
  BY <1>2, <1>3 DEF SerialInv, MappedInv, SessionMapped, Busy
<1>5. (HasRead(t) /\ Creates(t) /\ Judges(t))'
  BY <1>1, <1>2, <1>3, <1>4 DEF HasRead, Creates, Judges, Loading, Writing, Deciding, disk
<1>. QED
  BY <1>1, <1>2, <1>5, SerialLocalStep, NotBusy DEF memory, disk

LEMMA IngestPolicySerial ==
  ASSUME SerialInv, FreeInv', NEW t \in Tasks, IngestPolicy(t)
  PROVE  SerialInv'
<1> DEFINE to == [task[t] EXCEPT !.pc = "load_previous",
                                 !.policy = LoadPolicy(task[t].session.game_id)]
<1>1. /\ Step(t, "load_policy", to) /\ UNCHANGED <<up, memory, disk, answered>>
      /\ task[t] \in Task /\ Local(task[t]) /\ task[t].pc = "load_policy"
      /\ task' = [task EXCEPT ![t] = to] /\ task \in [Tasks -> Task]
  BY DEF IngestPolicy, Step, SerialInv, FreeInv, BaseInv, LocalInv, TypeOK
<1>2. /\ task'[t] = to /\ to.pc = "load_previous" /\ to.key = task[t].key
      /\ to.session = task[t].session
  BY <1>1 DEF Task
<1>3. to \in Task
  BY <1>1, <1>2 DEF FreeInv, BaseInv, TypeOK
<1>. HIDE DEF to
<1>4. Handles(t, to.key)
  BY <1>1, <1>2 DEF Handles, Loading
<1>5. PICK s \in Sessions : task[t].key = s
  BY <1>1 DEF Local, Loading
<1>6. (HasRead(t) /\ Creates(t) /\ Judges(t))'
  BY <1>1, <1>2, <1>5
  DEF SerialInv, ProgressInv, HasRead, Creates, Judges, Loading, Writing, Deciding, disk
<1>. QED
  BY <1>1, <1>3, <1>4, <1>6, SerialLocalStep DEF memory, disk

\* The decision is on what the session's file says, and covers the one its file holds.
LEMMA IngestDecideSerial ==
  ASSUME SerialInv, FreeInv', NEW t \in Tasks, IngestDecide(t)
  PROVE  SerialInv'
<1>0. FreeInv /\ BaseInv
  BY DEF SerialInv, FreeInv
<1>1. PICK s \in Sessions : task[t].key = s
  BY <1>0, DecidedFacts
<1>2. PICK l : l = task[t]
  OBVIOUS
<1>3. PICK decision : decision = BuildDecision(l.session, l.batch, l.policy, Previous(s))
  OBVIOUS
<1>4. PICK to : to = Decided(l)
  OBVIOUS
<1>5. /\ l \in Task /\ l.pc = "load_previous" /\ l.policy \in Policy
      /\ l.session \in SessionRecord /\ l.batch \in Batches
      /\ Previous(s) \in DecisionRecord /\ decision \in DecisionRecord
      /\ to \in Task /\ to.pc = "session_write" /\ to.key = s /\ to.batch = l.batch
      /\ to.decision = decision /\ to.session \in SessionRecord
      /\ to.session.peak_risk = decision.peak_risk
      /\ to.session.finding_count = decision.finding_count
      /\ Step(t, "load_previous", to) /\ UNCHANGED <<up, memory, disk, answered>>
  BY <1>0, <1>1, <1>2, <1>3, <1>4, DecidedFacts
<1>6. Handles(t, s) /\ up = TRUE /\ task'[t] = to
  BY <1>0, <1>1, <1>2, <1>5, StepFacts DEF Handles, Loading
<1>7. l.session = diskSessions[s] /\ diskSessions[s] # None
  BY <1>1, <1>2, <1>5, Records DEF SerialInv, ProgressInv, HasRead, Loading
<1>8. decisions[s] = diskDecisions[s]
  <2>1. ASSUME NEW u \in Tasks, task[u].key = s, task[u].pc = "decision_insert" PROVE FALSE
    <3>1. Handles(u, s)
      BY <2>1 DEF Handles, Deciding
    <3>. QED
      BY <1>2, <1>5, <1>6, <2>1, <3>1 DEF SerialInv, AloneInv
  <2>. QED
    BY <1>6, <2>1 DEF SerialInv, MappedInv, DecisionMapped
<1>9. /\ decision.peak_risk >= l.session.peak_risk
      /\ decision.finding_count = l.session.finding_count + Len(l.batch)
      /\ Len(l.batch) \in Nat /\ Len(l.batch) > 0
      /\ /\ l.session.peak_risk >= Previous(s).peak_risk
         /\ l.session.finding_count >= Previous(s).finding_count
         => Covers(decision, Previous(s))
  BY <1>3, <1>5, DecisionFacts
<1>10. diskDecisions[s] # None => Covers(decision, diskDecisions[s])
  BY <1>7, <1>8, <1>9 DEF Previous, SerialInv, RecordedInv, RecordedAt
<1>11. decision.finding_count >= answered[s].findings + Len(l.batch)
  <2>1. answered[s] # None
    BY <1>0, <1>1, <1>2, <1>5 DEF FreeInv, AnsweredInv, Loading
  <2>2. answered[s].findings \in Nat /\ diskSessions[s].finding_count >= answered[s].findings
    BY <1>0, <2>1, StateTypes, Records DEF SerialInv, RecordedInv, DurableAt
  <2>. QED
    BY <1>5, <1>7, <1>9, <2>2 DEF SessionRecord, DecisionRecord
<1>12. /\ l.session.finding_count \in Nat /\ decision.finding_count > l.session.finding_count
  BY <1>5, <1>9 DEF SessionRecord
<1>13. decision # None
  BY <1>5, Records
<1>14. (HasRead(t) /\ Creates(t) /\ Judges(t))'
  BY <1>5, <1>6, <1>7, <1>9, <1>10, <1>11, <1>12, <1>13
  DEF HasRead, Creates, Judges, Loading, Writing, Deciding, disk
<1>. QED
  BY <1>5, <1>6, <1>14, SerialLocalStep DEF memory, disk

\* Of policies nothing is claimed here, nor of a request that is over.
LEMMA PolicySerial ==
  ASSUME SerialInv, FreeInv', NEW t \in Tasks,
         \/ \E g \in Games, update \in PolicyUpdates : PutPolicy(t, g, update)
         \/ WritePolicy(t)
         \/ InsertPolicy(t)
         \/ WriteFails(t)
  PROVE  SerialInv'
<1>1. PICK from, to :
        /\ Step(t, from, to) /\ to.pc \notin Loading \cup Writing \cup Deciding
        /\ UNCHANGED <<up, sessions, decisions, diskSessions, diskDecisions, answered>>
        /\ from \notin {"session_insert", "decision_insert"}
  <2>1. Idle.pc = "idle" /\ "idle" \notin Loading \cup Writing \cup Deciding
    BY DEF Idle, Loading, Writing, Deciding
  <2>2. task[t] \in Task
    BY DEF SerialInv, FreeInv, BaseInv, TypeOK
  <2>3. CASE \E g \in Games, update \in PolicyUpdates : PutPolicy(t, g, update)
    <3>1. PICK g \in Games, update \in PolicyUpdates : PutPolicy(t, g, update)
      BY <2>3
    <3> DEFINE to == [Idle EXCEPT !.pc = "policy_write", !.key = g,
                                  !.policy = Updated(LoadPolicy(g), update)]
    <3>2. Step(t, "idle", to) /\ UNCHANGED <<up, memory, disk, answered>>
      BY <3>1 DEF PutPolicy
    <3>3. to.pc = "policy_write"
      BY DEF Idle
    <3>. HIDE DEF to
    <3>4. /\ to.pc \notin Loading \cup Writing \cup Deciding
          /\ "idle" \notin {"session_insert", "decision_insert"}
      BY <3>3 DEF Loading, Writing, Deciding
    <3>. QED
      BY <3>2, <3>4 DEF memory, disk
  <2>4. CASE WritePolicy(t)
    <3> DEFINE to == [task[t] EXCEPT !.pc = "policy_insert"]
    <3>1. Step(t, "policy_write", to) /\ UNCHANGED <<up, memory, answered>>
          /\ UNCHANGED <<diskSessions, diskDecisions>>
      BY <2>4 DEF WritePolicy
    <3>2. to.pc = "policy_insert"
      BY <2>2 DEF Task
    <3>. HIDE DEF to
    <3>3. /\ to.pc \notin Loading \cup Writing \cup Deciding
          /\ "policy_write" \notin {"session_insert", "decision_insert"}
      BY <3>2 DEF Loading, Writing, Deciding
    <3>. QED
      BY <3>1, <3>3 DEF memory
  <2>5. CASE InsertPolicy(t)
    BY <2>1, <2>5 DEF InsertPolicy, disk
  <2>6. CASE WriteFails(t)
    BY <2>1, <2>6 DEF WriteFails, memory, disk
  <2>. QED
    BY <2>3, <2>4, <2>5, <2>6
<1>2. task'[t] = to /\ to \in Task
  BY <1>1 DEF Step, SerialInv, FreeInv, BaseInv, TypeOK
<1>3. (HasRead(t) /\ Creates(t) /\ Judges(t))'
  BY <1>1, <1>2, NoClaims
<1>. QED
  BY <1>1, <1>2, <1>3, SerialLocalStep

\* A handler that goes on writing: the only one of its session, and right so far.
Advances(t, s, l, to, from, stage) ==
  /\ l = task[t] /\ l.key = s /\ l.pc = from /\ l.session \in SessionRecord
  /\ Step(t, from, to) /\ task'[t] = to /\ GoneOn(l, to) /\ to.pc = stage
  /\ Handles(t, s) /\ up = TRUE
  /\ \A u \in Tasks \ {t} : ~Handles(u, s)
  /\ \A r \in Sessions \ {s} : ~Handles(t, r)
  /\ Creates(t) /\ Judges(t)
  /\ l.decision # None => l.decision \in DecisionRecord /\ l.batch \in Batches
  /\ l.pc \in Deciding => l.decision \in DecisionRecord

LEMMA Advance ==
  ASSUME SerialInv, NEW t \in Tasks, NEW from \in Writing \cup Deciding, NEW stage \in Stage,
         Step(t, from, [task[t] EXCEPT !.pc = stage])
  PROVE  \E s \in Sessions, l \in Task, to \in Task : Advances(t, s, l, to, from, stage)
<1> DEFINE to == [task[t] EXCEPT !.pc = stage]
<1>0. FreeInv /\ BaseInv
  BY DEF SerialInv, FreeInv
<1>1. /\ GoneOn(task[t], to) /\ to.pc = stage
      /\ task[t] \in Task /\ Local(task[t]) /\ task[t].pc = from
  BY <1>0, GoesOn
<1>2. Step(t, from, to)
  OBVIOUS
<1>. HIDE DEF to
<1>3. PICK s \in Sessions : task[t].key = s
  BY <1>1 DEF Local
<1>4. Handles(t, s)
  BY <1>1, <1>3 DEF Handles
<1>5. to \in Task
  BY <1>1 DEF GoneOn
<1>6. task'[t] = to /\ up = TRUE
  BY <1>0, <1>2, <1>5, StepFacts
<1>7. /\ \A u \in Tasks \ {t} : ~Handles(u, s)
      /\ \A r \in Sessions \ {s} : ~Handles(t, r)
      /\ Creates(t) /\ Judges(t)
  BY <1>3, <1>4 DEF SerialInv, AloneInv, ProgressInv, Handles
<1>8. /\ task[t].session \in SessionRecord
      /\ task[t].decision # None =>
           task[t].decision \in DecisionRecord /\ task[t].batch \in Batches
      /\ task[t].pc \in Deciding => task[t].decision \in DecisionRecord
  <2>1. task[t].pc \in Writing \/ task[t].pc \in Deciding
    BY <1>1
  <2>. QED
    BY <1>0, <1>4, <2>1, HandlerTypes
<1>. QED
  BY <1>1, <1>2, <1>3, <1>4, <1>5, <1>6, <1>7, <1>8 DEF Advances

LEMMA WriteSessionSerial ==
  ASSUME SerialInv, FreeInv', NEW t \in Tasks, WriteSession(t)
  PROVE  SerialInv'
<1>1. /\ Step(t, "session_write", [task[t] EXCEPT !.pc = "session_insert"])
      /\ diskSessions' = [diskSessions EXCEPT ![task[t].key] = task[t].session]
      /\ UNCHANGED <<up, sessions, decisions, diskDecisions, answered>>
      /\ diskSessions \in [Sessions -> SessionRecord \cup {None}]
  BY DEF WriteSession, memory, SerialInv, FreeInv, BaseInv, TypeOK
<1>2. "session_insert" \in Stage /\ "session_write" \in Writing \cup Deciding
  BY DEF Stage, Writing
<1>3. PICK s \in Sessions, l \in Task, to \in Task :
        Advances(t, s, l, to, "session_write", "session_insert")
  BY <1>1, <1>2, Advance, Zenon
<1>4. diskSessions'[s] = l.session /\ \A r \in Sessions \ {s} : Untouched(r)
  BY <1>1, <1>3 DEF Advances, Untouched
<1>5. to.key = s /\ to.session = l.session /\ to.decision = l.decision /\ to.batch = l.batch
  BY <1>3 DEF Advances, GoneOn
<1>6. (HasRead(t) /\ Creates(t) /\ Judges(t))'
  <2>1. HasRead(t)'
    BY <1>3 DEF Advances, HasRead, Loading
  <2>2. Creates(t)'
    BY <1>3, <1>4, <1>5 DEF Advances, Creates
  <2>3. Judges(t)'
    BY <1>1, <1>3, <1>4, <1>5 DEF Advances, Judges, Writing, Deciding
  <2>. QED
    BY <2>1, <2>2, <2>3
\* The record only grows.
<1>7. /\ l.session # None
      /\ diskSessions[s] # None =>
           /\ l.session.peak_risk >= diskSessions[s].peak_risk
           /\ l.session.finding_count >= diskSessions[s].finding_count
           /\ diskSessions[s] \in SessionRecord
  <2>1. l.session # None /\ (diskSessions[s] # None => diskSessions[s] \in SessionRecord)
    BY <1>3, Records, StateTypes DEF Advances, SerialInv
  <2>. QED
    BY <1>3, <2>1 DEF Advances, Creates, Judges, Writing, SessionRecord
<1>8. Kept(s)'
  <2>1. SessionMapped(s)'
    BY <1>3, <1>5 DEF Advances, SessionMapped
  <2>2. DecisionMapped(s) /\ task' = [task EXCEPT ![t] = to]
    BY <1>3 DEF Advances, SerialInv, MappedInv, Step
  <2>3. DecisionMapped(s)'
    <3>1. ASSUME NEW u \in Tasks, task[u].key = s, task[u].pc = "decision_insert"
          PROVE  FALSE
      BY <1>3, <3>1 DEF Advances, Handles, Deciding
    <3>. QED
      BY <1>1, <2>2, <3>1 DEF DecisionMapped
  <2>4. RecordedAt(s)'
    <3>1. RecordedAt(s) /\ (diskDecisions[s] # None => diskDecisions[s] \in DecisionRecord)
      BY StateTypes DEF SerialInv, RecordedInv
    <3>. QED
      BY <1>1, <1>3, <1>4, <1>7, <3>1 DEF Advances, RecordedAt, SessionRecord, DecisionRecord
  <2>5. DurableAt(s)'
    <3>1. DurableAt(s) /\ (answered[s] # None => answered[s] \in Answer)
      BY StateTypes DEF SerialInv, RecordedInv
    <3>. QED
      BY <1>1, <1>3, <1>4, <1>7, <3>1 DEF Advances, DurableAt, SessionRecord, Answer
  <2>. QED
    BY <2>1, <2>3, <2>4, <2>5 DEF Kept
<1>9. /\ "session_write" \notin {"session_insert", "decision_insert"}
      /\ \A r \in Sessions : Untouched(r) \/ Kept(r)'
  BY <1>4, <1>8
<1>. QED
  BY <1>1, <1>3, <1>4, <1>5, <1>6, <1>9, SerialStep DEF Advances

\* No other handler is about to insert what this one's session is.
LEMMA NoneInserting ==
  ASSUME SerialInv, NEW t \in Tasks, NEW s \in Sessions, Handles(t, s), NEW pc,
         pc \in {"session_insert", "decision_insert"}, task[t].pc # pc
  PROVE  ~\E u \in Tasks : task[u].key = s /\ task[u].pc = pc
<1>1. ASSUME NEW u \in Tasks, task[u].key = s, task[u].pc = pc PROVE FALSE
  <2>1. Handles(u, s)
    BY <1>1 DEF Handles, Writing, Deciding
  <2>. QED
    BY <1>1, <2>1 DEF SerialInv, AloneInv
<1>. QED
  BY <1>1

\* The session's record goes into the map as it is in the file.
LEMMA InsertSessionSerial ==
  ASSUME SerialInv, FreeInv', NEW t \in Tasks, InsertSession(t)
  PROVE  SerialInv'
<1>1. /\ Step(t, "session_insert", [task[t] EXCEPT !.pc = "decision_write"])
      /\ sessions' = [sessions EXCEPT ![task[t].key] = task[t].session]
      /\ UNCHANGED <<up, decisions, diskSessions, diskDecisions, answered>>
      /\ sessions \in [Sessions -> SessionRecord \cup {None}]
      /\ task[t].decision # None
  BY DEF InsertSession, disk, SerialInv, FreeInv, BaseInv, TypeOK
<1>2. "decision_write" \in Stage /\ "session_insert" \in Writing \cup Deciding
  BY DEF Stage, Writing
<1>3. PICK s \in Sessions, l \in Task, to \in Task :
        Advances(t, s, l, to, "session_insert", "decision_write")
  BY <1>1, <1>2, Advance, Zenon
<1>4. sessions'[s] = l.session /\ \A r \in Sessions \ {s} : Untouched(r)
  BY <1>1, <1>3 DEF Advances, Untouched
<1>5. to.key = s /\ to.session = l.session /\ to.decision = l.decision /\ to.batch = l.batch
  BY <1>3 DEF Advances, GoneOn
<1>6. (HasRead(t) /\ Creates(t) /\ Judges(t))'
  <2>1. HasRead(t)' /\ Creates(t)'
    BY <1>3 DEF Advances, HasRead, Creates, Loading
  <2>2. Judges(t)'
    BY <1>1, <1>3, <1>5 DEF Advances, Judges, Writing, Deciding
  <2>. QED
    BY <2>1, <2>2
<1>7. Kept(s)'
  <2>1. diskSessions[s] = l.session
    BY <1>1, <1>3 DEF Advances, Judges, Writing
  <2>2. SessionMapped(s)'
    BY <1>1, <1>4, <2>1 DEF SessionMapped
  <2>3. DecisionMapped(s)'
    <3>1. decisions[s] = diskDecisions[s]
      BY <1>3, NoneInserting DEF Advances, SerialInv, MappedInv, DecisionMapped
    <3>. QED
      BY <1>1, <3>1 DEF DecisionMapped
  <2>4. RecordedAt(s)' /\ DurableAt(s)'
    BY <1>1 DEF SerialInv, RecordedInv, RecordedAt, DurableAt
  <2>. QED
    BY <2>2, <2>3, <2>4 DEF Kept
<1>8. \A r \in Sessions : \/ Untouched(r) /\ ~Handles(t, r)
                          \/ Kept(r)'
  BY <1>3, <1>4, <1>7 DEF Advances
<1>. QED
  BY <1>1, <1>3, <1>4, <1>5, <1>6, <1>8, SerialStep DEF Advances

\* A handler that ends: the only one of its session, and right so far.
Ends(t, s, l, from) ==
  /\ l = task[t] /\ l.key = s /\ l.pc = from /\ l.session \in SessionRecord
  /\ Step(t, from, Idle) /\ task'[t] = Idle
  /\ Handles(t, s) /\ up = TRUE
  /\ \A r \in Sessions \ {s} : ~Handles(t, r)
  /\ Creates(t) /\ Judges(t)
  /\ l.pc \in Deciding => l.decision \in DecisionRecord /\ l.batch \in Batches

LEMMA Ending ==
  ASSUME SerialInv, NEW t \in Tasks, NEW from \in Writing \cup Deciding, Step(t, from, Idle)
  PROVE  \E s \in Sessions, l \in Task : Ends(t, s, l, from)
<1>0. FreeInv /\ BaseInv
  BY DEF SerialInv, FreeInv
<1>1. task[t] \in Task /\ Local(task[t]) /\ task[t].pc = from /\ up = TRUE /\ task'[t] = Idle
  BY <1>0, StepFacts, IdleType
<1>2. PICK s \in Sessions : task[t].key = s
  BY <1>1 DEF Local
<1>3. Handles(t, s)
  BY <1>1, <1>2 DEF Handles
<1>4. /\ \A r \in Sessions \ {s} : ~Handles(t, r)
      /\ Creates(t) /\ Judges(t)
  BY <1>2 DEF SerialInv, ProgressInv, Handles
<1>5. /\ task[t].session \in SessionRecord
      /\ task[t].pc \in Deciding =>
           task[t].decision \in DecisionRecord /\ task[t].batch \in Batches
  BY <1>0, <1>3, HandlerTypes
<1>. QED
  BY <1>1, <1>2, <1>3, <1>4, <1>5 DEF Ends

\* A session that is created is answered, with nothing taken in.
LEMMA InsertCreatedSerial ==
  ASSUME SerialInv, FreeInv', NEW t \in Tasks, InsertCreated(t)
  PROVE  SerialInv'
<1>1. /\ Step(t, "session_insert", Idle) /\ task[t].decision = None
      /\ sessions' = [sessions EXCEPT ![task[t].key] = task[t].session]
      /\ answered' = [answered EXCEPT ![task[t].key] =
                        [findings |-> 0, decision |-> NoDecision]]
      /\ UNCHANGED <<up, decisions, diskSessions, diskDecisions>>
      /\ sessions \in [Sessions -> SessionRecord \cup {None}]
      /\ answered \in [Sessions -> Answer \cup {None}]
  BY DEF InsertCreated, disk, SerialInv, FreeInv, BaseInv, TypeOK
<1>2. PICK s \in Sessions, l \in Task : Ends(t, s, l, "session_insert")
  BY <1>1, Ending DEF Writing
<1>3. /\ sessions'[s] = l.session /\ answered'[s].findings = 0
      /\ \A r \in Sessions \ {s} : Untouched(r)
  BY <1>1, <1>2 DEF Ends, Untouched
<1>4. (HasRead(t) /\ Creates(t) /\ Judges(t))' /\ Idle.pc \notin Loading \cup Writing \cup Deciding
  <2>1. Idle.pc \notin Loading \cup Writing \cup Deciding
    BY DEF Idle, Loading, Writing, Deciding
  <2>. QED
    BY <1>2, <2>1, NoClaims DEF Ends
<1>5. Kept(s)'
  <2>1. diskSessions[s] = l.session /\ l.session # None /\ l.session.finding_count \in Nat
    BY <1>1, <1>2, Records DEF Ends, Creates
  <2>2. SessionMapped(s)'
    BY <1>1, <1>3, <2>1 DEF SessionMapped
  <2>3. DecisionMapped(s)'
    <3>1. decisions[s] = diskDecisions[s]
      BY <1>2, NoneInserting DEF Ends, SerialInv, MappedInv, DecisionMapped
    <3>. QED
      BY <1>1, <3>1 DEF DecisionMapped
  <2>4. RecordedAt(s)'
    BY <1>1 DEF SerialInv, RecordedInv, RecordedAt
  <2>5. DurableAt(s)'
    BY <1>1, <1>3, <2>1 DEF DurableAt
  <2>. QED
    BY <2>2, <2>3, <2>4, <2>5 DEF Kept
<1>6. \A r \in Sessions : \/ Untouched(r) /\ ~Handles(t, r)
                          \/ Kept(r)'
  BY <1>2, <1>3, <1>5 DEF Ends
<1>. QED
  BY <1>1, <1>2, <1>3, <1>4, <1>6, SerialStep, IdleType DEF Ends

\* The decision's file comes to say what is recorded, and no less than it said.
LEMMA WriteDecisionSerial ==
  ASSUME SerialInv, FreeInv', NEW t \in Tasks, WriteDecision(t)
  PROVE  SerialInv'
<1>1. /\ Step(t, "decision_write", [task[t] EXCEPT !.pc = "decision_insert"])
      /\ diskDecisions' = [diskDecisions EXCEPT ![task[t].key] = task[t].decision]
      /\ UNCHANGED <<up, sessions, decisions, diskSessions, answered>>
      /\ diskDecisions \in [Sessions -> DecisionRecord \cup {None}]
  BY DEF WriteDecision, memory, SerialInv, FreeInv, BaseInv, TypeOK
<1>2. "decision_insert" \in Stage /\ "decision_write" \in Writing \cup Deciding
  BY DEF Stage, Deciding
<1>3. PICK s \in Sessions, l \in Task, to \in Task :
        Advances(t, s, l, to, "decision_write", "decision_insert")
  BY <1>1, <1>2, Advance, Zenon
<1>4. /\ diskDecisions'[s] = l.decision /\ l.decision \in DecisionRecord /\ l.decision # None
      /\ \A r \in Sessions \ {s} : Untouched(r)
  BY <1>1, <1>3, Records DEF Advances, Untouched, Deciding
<1>5. to.key = s /\ to.session = l.session /\ to.decision = l.decision /\ to.batch = l.batch
  BY <1>3 DEF Advances, GoneOn
<1>6. decisions[s] = diskDecisions[s]
  BY <1>3, NoneInserting DEF Advances, SerialInv, MappedInv, DecisionMapped
<1>7. /\ diskSessions[s] = l.session
      /\ l.session.peak_risk = l.decision.peak_risk
      /\ l.session.finding_count = l.decision.finding_count
      /\ diskDecisions[s] # None => Covers(l.decision, diskDecisions[s])
  BY <1>3, <1>4 DEF Advances, Judges, Writing, Deciding
<1>8. (HasRead(t) /\ Creates(t) /\ Judges(t))'
  <2>1. HasRead(t)' /\ Creates(t)'
    BY <1>3 DEF Advances, HasRead, Creates, Loading
  <2>2. Judges(t)'
    BY <1>1, <1>3, <1>4, <1>5, <1>6, <1>7 DEF Advances, Judges, Writing, Deciding
  <2>. QED
    BY <2>1, <2>2
<1>9. Kept(s)'
  <2>1. SessionMapped(s)'
    <3>1. sessions[s] = diskSessions[s]
      BY <1>3, NoneInserting DEF Advances, SerialInv, MappedInv, SessionMapped
    <3>. QED
      BY <1>1, <3>1 DEF SessionMapped
  <2>2. DecisionMapped(s)'
    BY <1>3, <1>5 DEF Advances, DecisionMapped
  <2>3. l.session # None /\ l.session.peak_risk \in Nat /\ l.session.finding_count \in Nat
    BY <1>3, Records DEF Advances
  <2>4. RecordedAt(s)'
    BY <1>1, <1>4, <1>7, <2>3 DEF RecordedAt
  <2>5. DurableAt(s)'
    <3>1. ASSUME answered[s] # None, answered[s].findings > 0
          PROVE  Covers(l.decision, answered[s].decision)
      <4>1. /\ diskDecisions[s] # None /\ Covers(diskDecisions[s], answered[s].decision)
            /\ Covers(l.decision, diskDecisions[s])
        BY <1>7, <3>1 DEF SerialInv, RecordedInv, DurableAt
      <4>2. diskDecisions[s] \in DecisionRecord /\ answered[s].decision \in DecisionRecord
        BY <3>1, <4>1, StateTypes, Records DEF SerialInv
      <4>. QED
        BY <1>4, <4>1, <4>2, CoversTransitive
    <3>2. DurableAt(s)
      BY DEF SerialInv, RecordedInv
    <3>. QED
      BY <1>1, <1>4, <3>1, <3>2 DEF DurableAt
  <2>. QED
    BY <2>1, <2>2, <2>4, <2>5 DEF Kept
<1>10. \A r \in Sessions : \/ Untouched(r) /\ ~Handles(t, r)
                           \/ Kept(r)'
  BY <1>3, <1>4, <1>9 DEF Advances
<1>. QED
  BY <1>1, <1>3, <1>4, <1>5, <1>8, <1>10, SerialStep DEF Advances

LEMMA InsertDecisionSerial ==
  ASSUME SerialInv, FreeInv', NEW t \in Tasks, InsertDecision(t)
  PROVE  SerialInv'
<1>1. /\ Step(t, "decision_insert", [task[t] EXCEPT !.pc = "evidence_write"])
      /\ decisions' = [decisions EXCEPT ![task[t].key] = task[t].decision]
      /\ UNCHANGED <<up, sessions, diskSessions, diskDecisions, answered>>
      /\ decisions \in [Sessions -> DecisionRecord \cup {None}]
  BY DEF InsertDecision, disk, SerialInv, FreeInv, BaseInv, TypeOK
<1>2. "evidence_write" \in Stage /\ "decision_insert" \in Writing \cup Deciding
  BY DEF Stage, Deciding
<1>3. PICK s \in Sessions, l \in Task, to \in Task :
        Advances(t, s, l, to, "decision_insert", "evidence_write")
  BY <1>1, <1>2, Advance, Zenon
<1>4. /\ decisions'[s] = l.decision /\ l.decision \in DecisionRecord /\ l.decision # None
      /\ \A r \in Sessions \ {s} : Untouched(r)
  BY <1>1, <1>3, Records DEF Advances, Untouched, Deciding
<1>5. to.key = s /\ to.session = l.session /\ to.decision = l.decision /\ to.batch = l.batch
  BY <1>3 DEF Advances, GoneOn
<1>6. (HasRead(t) /\ Creates(t) /\ Judges(t))'
  <2>1. HasRead(t)' /\ Creates(t)'
    BY <1>3 DEF Advances, HasRead, Creates, Loading
  <2>2. Judges(t)'
    BY <1>1, <1>3, <1>4, <1>5 DEF Advances, Judges, Writing, Deciding
  <2>. QED
    BY <2>1, <2>2
<1>7. Kept(s)'
  <2>1. diskDecisions[s] = l.decision
    BY <1>3, <1>4 DEF Advances, Judges, Writing, Deciding
  <2>2. DecisionMapped(s)'
    BY <1>1, <1>4, <2>1 DEF DecisionMapped
  <2>3. SessionMapped(s)'
    <3>1. sessions[s] = diskSessions[s]
      BY <1>3, NoneInserting DEF Advances, SerialInv, MappedInv, SessionMapped
    <3>. QED
      BY <1>1, <3>1 DEF SessionMapped
  <2>4. RecordedAt(s)' /\ DurableAt(s)'
    BY <1>1 DEF SerialInv, RecordedInv, RecordedAt, DurableAt
  <2>. QED
    BY <2>2, <2>3, <2>4 DEF Kept
<1>8. \A r \in Sessions : \/ Untouched(r) /\ ~Handles(t, r)
                          \/ Kept(r)'
  BY <1>3, <1>4, <1>7 DEF Advances
<1>. QED
  BY <1>1, <1>3, <1>4, <1>5, <1>6, <1>8, SerialStep DEF Advances

\* What is answered is in the files: the decision itself, on all the findings.
LEMMA AnswerIngestSerial ==
  ASSUME SerialInv, FreeInv', NEW t \in Tasks, AnswerIngest(t)
  PROVE  SerialInv'
<1>1. /\ Step(t, "evidence_write", Idle)
      /\ answered' = [answered EXCEPT ![task[t].key] =
                        [findings |-> @.findings + Len(task[t].batch),
                         decision |-> task[t].decision]]
      /\ UNCHANGED <<up, sessions, decisions, diskSessions, diskDecisions>>
      /\ answered \in [Sessions -> Answer \cup {None}]
  BY DEF AnswerIngest, memory, disk, SerialInv, FreeInv, BaseInv, TypeOK
<1>2. PICK s \in Sessions, l \in Task : Ends(t, s, l, "evidence_write")
  BY <1>1, Ending DEF Deciding
<1>3. /\ answered'[s].findings = answered[s].findings + Len(l.batch)
      /\ answered'[s].decision = l.decision
      /\ \A r \in Sessions \ {s} : Untouched(r)
  BY <1>1, <1>2 DEF Ends, Untouched
<1>4. (HasRead(t) /\ Creates(t) /\ Judges(t))' /\ Idle.pc \notin Loading \cup Writing \cup Deciding
  <2>1. Idle.pc \notin Loading \cup Writing \cup Deciding
    BY DEF Idle, Loading, Writing, Deciding
  <2>. QED
    BY <1>2, <2>1, NoClaims DEF Ends
<1>5. l.decision \in DecisionRecord /\ l.decision # None /\ l.session # None
  BY <1>2, Records DEF Ends, Deciding
<1>6. /\ diskSessions[s] = l.session /\ diskDecisions[s] = l.decision
      /\ l.session.finding_count = l.decision.finding_count
      /\ l.decision.finding_count >= answered[s].findings + Len(l.batch)
  BY <1>2, <1>5 DEF Ends, Judges, Writing, Deciding
<1>7. Kept(s)'
  <2>1. SessionMapped(s)' /\ DecisionMapped(s)'
    <3>1. sessions[s] = diskSessions[s] /\ decisions[s] = diskDecisions[s]
      BY <1>2, NoneInserting DEF Ends, SerialInv, MappedInv, SessionMapped, DecisionMapped
    <3>. QED
      BY <1>1, <3>1 DEF SessionMapped, DecisionMapped
  <2>2. RecordedAt(s)'
    BY <1>1 DEF SerialInv, RecordedInv, RecordedAt
  <2>3. DurableAt(s)'
    <3>1. Covers(l.decision, l.decision)
      BY <1>5, CoversReflexive
    <3>. QED
      BY <1>1, <1>3, <1>5, <1>6, <3>1 DEF DurableAt
  <2>. QED
    BY <2>1, <2>2, <2>3 DEF Kept
<1>8. \A r \in Sessions : \/ Untouched(r) /\ ~Handles(t, r)
                          \/ Kept(r)'
  BY <1>2, <1>3, <1>7 DEF Ends
<1>9. \A r \in Sessions : ~Handles(t, r) => Untouched(r)
  BY <1>2, <1>3 DEF Ends
<1>. QED
  BY <1>1, <1>2, <1>4, <1>8, <1>9, SerialStep, IdleType DEF Ends

\* The process dies with its handlers, and finds in the files what is in them.
LEMMA ProcessSerial ==
  ASSUME SerialInv, FreeInv', Crash \/ OpenStore
  PROVE  SerialInv'
<1>1. UNCHANGED <<diskSessions, diskDecisions, answered>>
  BY DEF Crash, OpenStore, disk
<1>2. RecordedInv'
  BY <1>1 DEF SerialInv, RecordedInv, RecordedAt, DurableAt
<1>3. CASE Crash
  <2>1. \A t \in Tasks : task'[t].pc = "idle"
    BY <1>3 DEF Crash, Idle
  <2>2. AloneInv' /\ ProgressInv'
    BY <2>1 DEF AloneInv, ProgressInv, Handles, HasRead, Creates, Judges, Loading, Writing, Deciding
  <2>3. MappedInv'
    <3>1. up' = FALSE /\ \A s \in Sessions : decisions'[s] = None
      BY <1>3 DEF Crash, Nothing
    <3>. QED
      BY <3>1 DEF MappedInv
  <2>. QED
    BY <1>2, <2>2, <2>3 DEF SerialInv
<1>4. CASE OpenStore
  <2>1. \A t \in Tasks : task'[t].pc = "idle"
    BY <1>4 DEF OpenStore, SerialInv, FreeInv, BaseInv, LocalInv
  <2>2. AloneInv' /\ ProgressInv'
    BY <2>1 DEF AloneInv, ProgressInv, Handles, HasRead, Creates, Judges, Loading, Writing, Deciding
  <2>3. MappedInv'
    <3>1. /\ up' = TRUE
          /\ \A s \in Sessions : /\ sessions'[s] = diskSessions'[s]
                                 /\ decisions'[s] = diskDecisions'[s]
      BY <1>1, <1>4 DEF OpenStore
    <3>2. \A s \in Sessions : SessionMapped(s)' /\ DecisionMapped(s)'
      BY <3>1 DEF SessionMapped, DecisionMapped
    <3>. QED
      BY <3>1, <3>2 DEF MappedInv
  <2>. QED
    BY <1>2, <2>2, <2>3 DEF SerialInv
<1>. QED
  BY <1>3, <1>4

LEMMA InitSerial == Init => SerialInv
<1>. SUFFICES ASSUME Init PROVE SerialInv
  OBVIOUS
<1>1. FreeInv
  BY InitFree
<1>2. /\ \A t \in Tasks : task[t].pc = "idle"
      /\ \A s \in Sessions : /\ sessions[s] = None /\ diskSessions[s] = None
                             /\ decisions[s] = None /\ diskDecisions[s] = None
                             /\ answered[s] = None
  BY DEF Init, Nothing, Idle
<1>3. AloneInv /\ ProgressInv
  BY <1>2 DEF AloneInv, ProgressInv, Handles, HasRead, Creates, Judges, Loading, Writing, Deciding
<1>4. MappedInv /\ RecordedInv
  BY <1>2 DEF MappedInv, RecordedInv, SessionMapped, DecisionMapped, RecordedAt, DurableAt
<1>. QED
  BY <1>1, <1>3, <1>4 DEF SerialInv

LEMMA NextSerial == ASSUME ClientsWait PROVE SerialInv /\ [Next]_vars => SerialInv'
<1>. SUFFICES ASSUME SerialInv, [Next]_vars PROVE SerialInv'
  OBVIOUS
<1>1. FreeInv'
  BY NextFree DEF SerialInv
<1>2. CASE UNCHANGED vars
  BY <1>1, <1>2
  DEF vars, SerialInv, AloneInv, Handles, ProgressInv, HasRead, Creates, Judges, MappedInv,
      SessionMapped, DecisionMapped, RecordedInv, RecordedAt, DurableAt
<1>. QED
  BY <1>1, <1>2, CreateSessionSerial, IngestSerial, IngestPolicySerial, IngestDecideSerial,
     PolicySerial, WriteSessionSerial, InsertCreatedSerial, InsertSessionSerial,
     WriteDecisionSerial, InsertDecisionSerial, AnswerIngestSerial, ProcessSerial DEF Next

LEMMA AlwaysSerial == ASSUME ClientsWait PROVE Spec => []SerialInv
<1>1. SerialInv /\ [Next]_vars => SerialInv'
  BY NextSerial
<1>. QED
  BY <1>1, InitSerial, PTL DEF Spec

\* What a client was told outlives the process (main.rs, ingest and create_session).
THEOREM Durable == ASSUME ClientsWait PROVE Spec => []AnswersAreDurable
<1>1. SerialInv => AnswersAreDurable
  BY DEF SerialInv, RecordedInv, DurableAt, AnswersAreDurable
<1>. QED
  BY <1>1, AlwaysSerial, PTL

\* A restart changes nothing that is not half way through a put (store.rs, load_all).
THEOREM MapsMatch == ASSUME ClientsWait PROVE Spec => []MapsMatchFiles
<1>1. SerialInv => MapsMatchFiles
  BY DEF SerialInv, MappedInv, SessionMapped, DecisionMapped, MapsMatchFiles, Inserting
<1>. QED
  BY <1>1, AlwaysSerial, PTL

-----------------------------------------------------------------------------
(* Decisions are sticky.                                                   *)

\* A step leaves a decision in the map, takes it out, or covers it by another.
LEMMA StickyStep ==
  ASSUME SerialInv, [Next]_vars, NEW s \in Sessions, decisions[s] # None, decisions'[s] # None
  PROVE  ActionRank[decisions'[s].action] >= ActionRank[decisions[s].action]
<1>1. decisions[s] \in DecisionRecord
  BY StateTypes DEF SerialInv
<1>2. CASE decisions' = decisions
  BY <1>1, <1>2, StrongerFacts DEF DecisionRecord
<1>3. ASSUME NEW t \in Tasks, InsertDecision(t)
      PROVE  ActionRank[decisions'[s].action] >= ActionRank[decisions[s].action]
  <2>1. /\ Step(t, "decision_insert", [task[t] EXCEPT !.pc = "evidence_write"])
        /\ decisions' = [decisions EXCEPT ![task[t].key] = task[t].decision]
        /\ decisions \in [Sessions -> DecisionRecord \cup {None}]
    BY <1>3 DEF InsertDecision, SerialInv, FreeInv, BaseInv, TypeOK
  <2>2. "evidence_write" \in Stage /\ "decision_insert" \in Writing \cup Deciding
    BY DEF Stage, Deciding
  <2>3. PICK r \in Sessions, l \in Task, to \in Task :
          Advances(t, r, l, to, "decision_insert", "evidence_write")
    BY <2>1, <2>2, Advance, Zenon
  <2>4. /\ l.decision \in DecisionRecord /\ l.decision # None
        /\ decisions[r] # None => Covers(l.decision, decisions[r])
    BY <2>3, Records DEF Advances, Judges, Deciding
  <2>5. CASE s = r
    <3>1. decisions'[s] = l.decision
      BY <2>1, <2>3, <2>5 DEF Advances
    <3>. QED
      BY <2>4, <2>5, <3>1 DEF Covers
  <2>6. CASE s # r
    <3>1. decisions'[s] = decisions[s]
      BY <2>1, <2>3, <2>6 DEF Advances
    <3>. QED
      BY <1>1, <3>1, StrongerFacts DEF DecisionRecord
  <2>. QED
    BY <2>5, <2>6
<1>4. CASE Crash
  BY <1>4 DEF Crash, Nothing
<1>5. CASE OpenStore
  BY <1>5 DEF OpenStore, SerialInv, MappedInv
<1>. QED
  BY <1>2, <1>3, <1>4, <1>5
  DEF Next, CreateSession, Ingest, IngestPolicy, IngestDecide, PutPolicy, WriteSession,
      InsertCreated, InsertSession, WriteDecision, AnswerIngest, WritePolicy, InsertPolicy,
      WriteFails, memory, vars

\* No request replaces a session's decision by a weaker one (build_decision, main.rs).
THEOREM Sticky == ASSUME ClientsWait PROVE Spec => StickyDecisions
<1>1. SerialInv /\ [Next]_vars =>
        [\A s \in Sessions : decisions[s] # None /\ decisions'[s] # None =>
           ActionRank[decisions'[s].action] >= ActionRank[decisions[s].action]]_vars
  BY StickyStep
<1>. QED
  BY <1>1, AlwaysSerial, PTL DEF Spec, StickyDecisions

-----------------------------------------------------------------------------
(* The files implement the ledger.                                         *)

\* A session's file is created empty, or grows.
LEMMA SessionWritten ==
  ASSUME SerialInv, NEW t \in Tasks, WriteSession(t)
  PROVE  \E s \in Sessions, r \in SessionRecord :
           /\ diskSessions' = [diskSessions EXCEPT ![s] = r] /\ diskDecisions' = diskDecisions
           /\ \/ diskSessions[s] = None /\ r.peak_risk = 0 /\ r.finding_count = 0
              \/ /\ diskSessions[s] # None
                 /\ r.peak_risk >= diskSessions[s].peak_risk
                 /\ r.finding_count > diskSessions[s].finding_count
<1>1. /\ Step(t, "session_write", [task[t] EXCEPT !.pc = "session_insert"])
      /\ diskSessions' = [diskSessions EXCEPT ![task[t].key] = task[t].session]
      /\ diskDecisions' = diskDecisions
  BY DEF WriteSession
<1>2. "session_insert" \in Stage /\ "session_write" \in Writing \cup Deciding
  BY DEF Stage, Writing
<1>3. PICK s \in Sessions, l \in Task, to \in Task :
        Advances(t, s, l, to, "session_write", "session_insert")
  BY <1>1, <1>2, Advance, Zenon
<1>4. \/ diskSessions[s] = None /\ l.session.peak_risk = 0 /\ l.session.finding_count = 0
      \/ /\ diskSessions[s] # None
         /\ l.session.peak_risk >= diskSessions[s].peak_risk
         /\ l.session.finding_count > diskSessions[s].finding_count
  BY <1>3 DEF Advances, Creates, Judges, Writing
<1>. QED
  BY <1>1, <1>3, <1>4 DEF Advances

\* A decision's file comes to judge what the session's file records.
LEMMA DecisionWritten ==
  ASSUME SerialInv, NEW t \in Tasks, WriteDecision(t)
  PROVE  \E s \in Sessions, d \in DecisionRecord :
           /\ diskDecisions' = [diskDecisions EXCEPT ![s] = d] /\ diskSessions' = diskSessions
           /\ diskSessions[s] # None
           /\ d.peak_risk = diskSessions[s].peak_risk
           /\ d.finding_count = diskSessions[s].finding_count
           /\ diskDecisions[s] # None => Covers(d, diskDecisions[s])
<1>1. /\ Step(t, "decision_write", [task[t] EXCEPT !.pc = "decision_insert"])
      /\ diskDecisions' = [diskDecisions EXCEPT ![task[t].key] = task[t].decision]
      /\ diskSessions' = diskSessions
  BY DEF WriteDecision
<1>2. "decision_insert" \in Stage /\ "decision_write" \in Writing \cup Deciding
  BY DEF Stage, Deciding
<1>3. PICK s \in Sessions, l \in Task, to \in Task :
        Advances(t, s, l, to, "decision_write", "decision_insert")
  BY <1>1, <1>2, Advance, Zenon
<1>4. l.decision \in DecisionRecord /\ l.decision # None /\ l.session # None
  BY <1>3, Records DEF Advances, Deciding
<1>5. /\ diskSessions[s] = l.session
      /\ l.session.peak_risk = l.decision.peak_risk
      /\ l.session.finding_count = l.decision.finding_count
      /\ diskDecisions[s] # None => Covers(l.decision, diskDecisions[s])
  BY <1>3, <1>4 DEF Advances, Judges, Writing, Deciding
<1>. QED
  BY <1>1, <1>3, <1>4, <1>5 DEF Advances

\* What the ledger shows of a session's file.
Shown(r) ==
  IF r = None THEN None ELSE [peak_risk |-> r.peak_risk, finding_count |-> r.finding_count]

Ledgered == [s \in Sessions |-> Shown(diskSessions[s])]

LEMMA ShownFacts ==
  ASSUME NEW r \in SessionRecord
  PROVE  /\ Shown(r) # None /\ Shown(r).peak_risk = r.peak_risk
         /\ Shown(r).finding_count = r.finding_count
         /\ Shown(r) = [peak_risk |-> r.peak_risk, finding_count |-> r.finding_count]
BY Records, RecordsAssumption DEF Shown, SessionRecord

LEMMA LedgerInit == Init => Ledger!Init
BY DEF Init, Nothing, Ledger!Init

LEMMA OpenOrRecord ==
  ASSUME SerialInv, NEW t \in Tasks, WriteSession(t)
  PROVE  Ledger!Next
<1>1. PICK s \in Sessions, r \in SessionRecord :
        /\ diskSessions' = [diskSessions EXCEPT ![s] = r] /\ diskDecisions' = diskDecisions
        /\ \/ diskSessions[s] = None /\ r.peak_risk = 0 /\ r.finding_count = 0
           \/ /\ diskSessions[s] # None
              /\ r.peak_risk >= diskSessions[s].peak_risk
              /\ r.finding_count > diskSessions[s].finding_count
  BY SessionWritten
<1>2. diskSessions \in [Sessions -> SessionRecord \cup {None}]
  BY DEF SerialInv, FreeInv, BaseInv, TypeOK
<1>3. /\ Ledgered'[s] = Shown(r)
      /\ \A q \in Sessions \ {s} : Ledgered'[q] = Ledgered[q]
  BY <1>1, <1>2 DEF Ledgered, Shown
<1>4. Ledgered[s] = Shown(diskSessions[s])
  BY DEF Ledgered
<1>5. CASE diskSessions[s] = None
  <2>1. /\ r.peak_risk = 0 /\ r.finding_count = 0 /\ Ledgered[s] = None
        /\ Shown(r) = [peak_risk |-> 0, finding_count |-> 0]
    BY <1>1, <1>4, <1>5, ShownFacts DEF Shown
  <2>2. Ledgered' = [Ledgered EXCEPT ![s] = [peak_risk |-> 0, finding_count |-> 0]]
    BY <1>3, <2>1 DEF Ledgered
  <2>3. Ledger!Open(s)
    BY <1>1, <2>1, <2>2 DEF Ledger!Open, Ledgered, Shown
  <2>. QED
    BY <2>3 DEF Ledger!Next
<1>6. CASE diskSessions[s] # None
  <2>1. diskSessions[s] \in SessionRecord
    BY <1>2, <1>6
  <2>2. /\ Ledgered[s] # None /\ Ledgered'[s] # None
        /\ Ledgered'[s].peak_risk >= Ledgered[s].peak_risk
        /\ Ledgered'[s].finding_count > Ledgered[s].finding_count
    BY <1>1, <1>3, <1>4, <1>6, <2>1, ShownFacts
  <2>3. Ledger!Record(s)
    BY <1>1, <1>3, <2>2 DEF Ledger!Record, Ledgered, Shown
  <2>. QED
    BY <2>3 DEF Ledger!Next
<1>. QED
  BY <1>5, <1>6

LEMMA Judgement ==
  ASSUME SerialInv, NEW t \in Tasks, WriteDecision(t)
  PROVE  Ledger!Next
<1>1. PICK s \in Sessions, d \in DecisionRecord :
        /\ diskDecisions' = [diskDecisions EXCEPT ![s] = d] /\ diskSessions' = diskSessions
        /\ diskSessions[s] # None
        /\ d.peak_risk = diskSessions[s].peak_risk
        /\ d.finding_count = diskSessions[s].finding_count
        /\ diskDecisions[s] # None => Covers(d, diskDecisions[s])
  BY DecisionWritten
<1>2. /\ diskDecisions \in [Sessions -> DecisionRecord \cup {None}]
      /\ diskSessions[s] \in SessionRecord
  BY <1>1 DEF SerialInv, FreeInv, BaseInv, TypeOK
<1>3. /\ diskDecisions'[s] = d /\ d # None
      /\ \A q \in Sessions \ {s} : diskDecisions'[q] = diskDecisions[q]
  BY <1>1, <1>2, Records
<1>4. /\ Ledgered' = Ledgered /\ Ledgered[s] # None
      /\ Ledgered[s].peak_risk = d.peak_risk /\ Ledgered[s].finding_count = d.finding_count
  BY <1>1, <1>2, ShownFacts DEF Ledgered
<1>5. diskDecisions[s] # None => Ledger!Covers(d, diskDecisions[s])
  BY <1>1 DEF Covers, Ledger!Covers, ActionRank, Ledger!ActionRank
<1>6. Ledger!Judge(s)
  BY <1>3, <1>4, <1>5 DEF Ledger!Judge, Ledgered, Shown
<1>. QED
  BY <1>6 DEF Ledger!Next

LEMMA LedgerNext == SerialInv /\ [Next]_vars => [Ledger!Next]_(Ledger!ledger)
<1>. SUFFICES ASSUME SerialInv, [Next]_vars PROVE [Ledger!Next]_(Ledger!ledger)
  OBVIOUS
<1>1. CASE diskSessions' = diskSessions /\ diskDecisions' = diskDecisions
  BY <1>1 DEF Ledger!ledger
<1>2. CASE \E t \in Tasks : WriteSession(t) \/ WriteDecision(t)
  BY <1>2, OpenOrRecord, Judgement
<1>. QED
  BY <1>1, <1>2
  DEF Next, CreateSession, Ingest, IngestPolicy, IngestDecide, PutPolicy, InsertCreated,
      InsertSession, InsertDecision, AnswerIngest, WritePolicy, InsertPolicy, WriteFails, Crash,
      OpenStore, disk, vars

\* Whatever the threads, failed writes and crashes do, the files are a ledger: findings are
\* recorded in one step and judged in another, and neither is weakened (store.rs, main.rs).
THEOREM Implements == ASSUME ClientsWait PROVE Spec => ImplementsLedger
<1>1. SerialInv /\ [Next]_vars => [Ledger!Next]_(Ledger!ledger)
  BY LedgerNext
<1>. QED
  BY <1>1, AlwaysSerial, LedgerInit, PTL DEF Spec, ImplementsLedger, Ledger!Spec
=============================================================================
