----------------------------- MODULE ControlPlane -----------------------------
(***************************************************************************)
(* The control plane server: the handlers of server/src/main.rs over the   *)
(* store of server/src/store.rs.  Each request is handled by a task of a   *)
(* multi-threaded runtime; tasks share the store's in-memory maps, which   *)
(* one read-write lock guards per access and not per request, and the      *)
(* JSON files under the data directory, which nothing guards.  A put       *)
(* writes the file and then inserts into the map: two steps, between which *)
(* another task may run or the process may die.                            *)
(*                                                                         *)
(* External to the code: when requests arrive, which tasks run, disk       *)
(* errors, and the death of the process.  A rename is taken to be atomic   *)
(* and durable, so a file is never seen half written.                      *)
(***************************************************************************)
EXTENDS Integers, Sequences, FiniteSets, Decide

CONSTANTS
  Sessions,        \* identifiers Uuid::new_v4 may draw
  Games,           \* game identifiers
  Tasks,           \* request handlers that may run at once
  Batches,         \* bodies of ingest requests: non-empty sequences of findings
  PolicyUpdates,   \* bodies of PUT policy: a value or None for each field
  DefaultKick,     \* kick_threshold and
  DefaultBan,      \*   ban_threshold of a game without a stored policy
  ClientsWait,     \* TRUE: a session's client sends nothing until it has its answer
  MaxFindings,     \* bound: findings a session takes in
  None             \* an absent entry, field or local variable

Policy == [observe_only_default : BOOLEAN, kick_threshold : Int, ban_threshold : Int,
           known_bad_hashes : SUBSET STRING]
Score == [peak : Nat, average : Nat, categories : SUBSET STRING]

ASSUME ControlPlaneAssumption ==
  /\ DefaultKick \in Int /\ DefaultBan \in Int
  /\ ClientsWait \in BOOLEAN
  /\ MaxFindings \in Nat
  /\ \A batch \in Batches : Len(batch) \in 1..200 /\ ScoreEvents(batch) \in Score
  /\ \A update \in PolicyUpdates :
       /\ update.observe_only_default \in BOOLEAN \cup {None}
       /\ update.kick_threshold \in Int \cup {None}
       /\ update.ban_threshold \in Int \cup {None}
       /\ update.known_bad_hashes \in (SUBSET STRING) \cup {None}

VARIABLES
  up,             \* the process runs
  sessions,       \* Memory.sessions, decisions and policies
  decisions,
  policies,
  diskSessions,   \* the files of the sessions, decisions and policies folders
  diskDecisions,
  diskPolicies,
  task,           \* task[t]: where handler t is and its local variables
  answered        \* history: answered[s] is what clients were told of session s

memory == <<sessions, decisions, policies>>
disk   == <<diskSessions, diskDecisions, diskPolicies>>
vars   == <<up, sessions, decisions, policies, diskSessions, diskDecisions, diskPolicies,
            task, answered>>

Idle == [pc |-> "idle", key |-> None, batch |-> None, session |-> None,
         policy |-> None, decision |-> None]

Nothing(keys) == [k \in keys |-> None]

Init ==
  /\ up = TRUE
  /\ sessions  = Nothing(Sessions) /\ diskSessions  = Nothing(Sessions)
  /\ decisions = Nothing(Sessions) /\ diskDecisions = Nothing(Sessions)
  /\ policies  = Nothing(Games)    /\ diskPolicies  = Nothing(Games)
  /\ task      = [t \in Tasks |-> Idle]
  /\ answered  = Nothing(Sessions)

-----------------------------------------------------------------------------
(* Requests *)

Busy(s) == \E t \in Tasks : task[t].key = s

\* The clients' discipline, when ClientsWait: one request at a time for a session.  The
\* studio's updates of a policy may overlap in any case.
MayArrive(s) == ClientsWait => ~Busy(s)

Step(t, from, to) ==
  /\ up
  /\ task[t].pc = from
  /\ task' = [task EXCEPT ![t] = to]

DefaultPolicy ==
  [observe_only_default |-> TRUE, kick_threshold |-> DefaultKick,
   ban_threshold |-> DefaultBan, known_bad_hashes |-> {}]

LoadPolicy(g) == IF policies[g] = None THEN DefaultPolicy ELSE policies[g]

NewSession(g) == [game_id |-> g, peak_risk |-> 0, finding_count |-> 0]

\* create_session: a fresh identifier, and a record still to be stored.
CreateSession(t, s, g) ==
  /\ diskSessions[s] = None /\ ~Busy(s)
  /\ Step(t, "idle", [Idle EXCEPT !.pc = "session_write", !.key = s,
                                  !.session = NewSession(g)])
  /\ UNCHANGED <<up, memory, disk, answered>>

\* ingest, up to store.get_session: an unknown session or another game's is refused.
\* Clients know only the identifiers create_session answered with.
Ingest(t, s, g, batch) ==
  /\ MayArrive(s)
  /\ answered[s] # None
  /\ sessions[s] # None
  /\ sessions[s].game_id = g
  /\ sessions[s].finding_count + Len(batch) <= MaxFindings
  /\ Step(t, "idle", [Idle EXCEPT !.pc = "load_policy", !.key = s, !.batch = batch,
                                  !.session = sessions[s]])
  /\ UNCHANGED <<up, memory, disk, answered>>

\* ingest: load_policy.
IngestPolicy(t) ==
  /\ Step(t, "load_policy",
       [task[t] EXCEPT !.pc = "load_previous",
                       !.policy = LoadPolicy(task[t].session.game_id)])
  /\ UNCHANGED <<up, memory, disk, answered>>

Previous(s) == IF decisions[s] = None THEN NoDecision ELSE decisions[s]

\* ingest: get_decision, build_decision and the update of the session record.
IngestDecide(t) ==
  LET local    == task[t]
      decision == BuildDecision(local.session, local.batch, local.policy,
                                Previous(local.key))
  IN  /\ Step(t, "load_previous",
           [local EXCEPT !.pc = "session_write", !.policy = None, !.decision = decision,
                         !.session = [game_id       |-> local.session.game_id,
                                      peak_risk     |-> decision.peak_risk,
                                      finding_count |-> decision.finding_count]])
      /\ UNCHANGED <<up, memory, disk, answered>>

Overlay(field, current) == IF field = None THEN current ELSE field

Updated(policy, update) ==
  [observe_only_default |-> Overlay(update.observe_only_default, policy.observe_only_default),
   kick_threshold       |-> Overlay(update.kick_threshold, policy.kick_threshold),
   ban_threshold        |-> Overlay(update.ban_threshold, policy.ban_threshold),
   known_bad_hashes     |-> Overlay(update.known_bad_hashes, policy.known_bad_hashes)]

\* Mutant: the update is validated before it is laid over the policy.
PutPolicyValidatedEarly(t, g, update) ==
  LET given  == Updated(DefaultPolicy, update)
      policy == Updated(LoadPolicy(g), update)
  IN  /\ given.kick_threshold < given.ban_threshold
      /\ Step(t, "idle", [Idle EXCEPT !.pc = "policy_write", !.key = g, !.policy = policy])
      /\ UNCHANGED <<up, memory, disk, answered>>

\* put_policy, up to its validation: the update laid over the policy in force.
PutPolicy(t, g, update) ==
  LET policy == Updated(LoadPolicy(g), update)
  IN  /\ policy.kick_threshold < policy.ban_threshold
      /\ Step(t, "idle", [Idle EXCEPT !.pc = "policy_write", !.key = g, !.policy = policy])
      /\ UNCHANGED <<up, memory, disk, answered>>

-----------------------------------------------------------------------------
(* Store::put_session, put_decision and put_policy: the file, then the map *)

\* Mutant: an error of write_json is dropped, and the record inserted all the same.
WriteSessionUnchecked(t) ==
  /\ Step(t, "session_write", [task[t] EXCEPT !.pc = "session_insert"])
  /\ diskSessions' \in {diskSessions, [diskSessions EXCEPT ![task[t].key] = task[t].session]}
  /\ UNCHANGED <<up, memory, diskDecisions, diskPolicies, answered>>

WriteSession(t) ==
  /\ Step(t, "session_write", [task[t] EXCEPT !.pc = "session_insert"])
  /\ diskSessions' = [diskSessions EXCEPT ![task[t].key] = task[t].session]
  /\ UNCHANGED <<up, memory, diskDecisions, diskPolicies, answered>>

\* create_session answers with the identifier; ingest goes on with its decision.
InsertCreated(t) ==
  /\ task[t].decision = None
  /\ Step(t, "session_insert", Idle)
  /\ sessions' = [sessions EXCEPT ![task[t].key] = task[t].session]
  /\ answered' = [answered EXCEPT ![task[t].key] = [findings |-> 0, decision |-> NoDecision]]
  /\ UNCHANGED <<up, decisions, policies, disk>>

InsertSession(t) ==
  /\ task[t].decision # None
  /\ Step(t, "session_insert", [task[t] EXCEPT !.pc = "decision_write"])
  /\ sessions' = [sessions EXCEPT ![task[t].key] = task[t].session]
  /\ UNCHANGED <<up, decisions, policies, disk, answered>>

WriteDecision(t) ==
  /\ Step(t, "decision_write", [task[t] EXCEPT !.pc = "decision_insert"])
  /\ diskDecisions' = [diskDecisions EXCEPT ![task[t].key] = task[t].decision]
  /\ UNCHANGED <<up, memory, diskSessions, diskPolicies, answered>>

InsertDecision(t) ==
  /\ Step(t, "decision_insert", [task[t] EXCEPT !.pc = "evidence_write"])
  /\ decisions' = [decisions EXCEPT ![task[t].key] = task[t].decision]
  /\ UNCHANGED <<up, sessions, policies, disk, answered>>

\* ingest: the evidence is stored, the webhook tried, and the decision answered.
AnswerIngest(t) ==
  /\ Step(t, "evidence_write", Idle)
  /\ answered' = [answered EXCEPT ![task[t].key] =
                    [findings |-> @.findings + Len(task[t].batch),
                     decision |-> task[t].decision]]
  /\ UNCHANGED <<up, memory, disk>>

WritePolicy(t) ==
  /\ Step(t, "policy_write", [task[t] EXCEPT !.pc = "policy_insert"])
  /\ diskPolicies' = [diskPolicies EXCEPT ![task[t].key] = task[t].policy]
  /\ UNCHANGED <<up, memory, diskSessions, diskDecisions, answered>>

InsertPolicy(t) ==
  /\ Step(t, "policy_insert", Idle)
  /\ policies' = [policies EXCEPT ![task[t].key] = task[t].policy]
  /\ UNCHANGED <<up, sessions, decisions, disk, answered>>

\* write_json fails: store_error answers 500 and the handler goes no further.
WriteFails(t) ==
  /\ task[t].pc \in {"session_write", "decision_write", "evidence_write", "policy_write"}
  /\ Step(t, task[t].pc, Idle)
  /\ UNCHANGED <<up, memory, disk, answered>>

-----------------------------------------------------------------------------
(* The process *)

\* The process dies with its maps and its handlers, wherever they are.
Crash ==
  /\ up
  /\ up' = FALSE
  /\ sessions'  = Nothing(Sessions)
  /\ decisions' = Nothing(Sessions)
  /\ policies'  = Nothing(Games)
  /\ task'      = [t \in Tasks |-> Idle]
  /\ UNCHANGED <<disk, answered>>

\* Mutant: load_all does not read the decisions.
OpenStoreWithoutDecisions ==
  /\ ~up
  /\ up' = TRUE
  /\ sessions'  = diskSessions
  /\ decisions' = Nothing(Sessions)
  /\ policies'  = diskPolicies
  /\ UNCHANGED <<disk, task, answered>>

\* Store::open and load_all.
OpenStore ==
  /\ ~up
  /\ up' = TRUE
  /\ sessions'  = diskSessions
  /\ decisions' = diskDecisions
  /\ policies'  = diskPolicies
  /\ UNCHANGED <<disk, task, answered>>

Next ==
  \/ \E t \in Tasks :
       \/ \E s \in Sessions, g \in Games : CreateSession(t, s, g)
       \/ \E s \in Sessions, g \in Games, batch \in Batches : Ingest(t, s, g, batch)
       \/ IngestPolicy(t)
       \/ IngestDecide(t)
       \/ \E g \in Games, update \in PolicyUpdates : PutPolicy(t, g, update)
       \/ WriteSession(t)
       \/ InsertCreated(t)
       \/ InsertSession(t)
       \/ WriteDecision(t)
       \/ InsertDecision(t)
       \/ AnswerIngest(t)
       \/ WritePolicy(t)
       \/ InsertPolicy(t)
       \/ WriteFails(t)
  \/ Crash
  \/ OpenStore

Spec == Init /\ [][Next]_vars

-----------------------------------------------------------------------------
(* Properties *)

SessionRecord == [game_id : Games, peak_risk : Nat, finding_count : Nat]
DecisionRecord == [action : Actions, peak_risk : Nat, average_risk : Nat,
                   finding_count : Nat, categories : SUBSET STRING]
Answer == [findings : Nat, decision : DecisionRecord]
Stage == {"idle", "load_policy", "load_previous", "session_write", "session_insert",
          "decision_write", "decision_insert", "evidence_write", "policy_write",
          "policy_insert"}
Task == [pc : Stage, key : Sessions \cup Games \cup {None}, batch : Batches \cup {None},
         session : SessionRecord \cup {None}, policy : Policy \cup {None},
         decision : DecisionRecord \cup {None}]

ASSUME RecordsAssumption ==
  None \notin SessionRecord \cup DecisionRecord \cup Answer
              \cup [peak_risk : Nat, finding_count : Nat]

TypeOK ==
  /\ up \in BOOLEAN
  /\ sessions \in [Sessions -> SessionRecord \cup {None}]
  /\ diskSessions \in [Sessions -> SessionRecord \cup {None}]
  /\ decisions \in [Sessions -> DecisionRecord \cup {None}]
  /\ diskDecisions \in [Sessions -> DecisionRecord \cup {None}]
  /\ policies \in [Games -> Policy \cup {None}]
  /\ diskPolicies \in [Games -> Policy \cup {None}]
  /\ task \in [Tasks -> Task]
  /\ answered \in [Sessions -> Answer \cup {None}]

(***************************************************************************)
(* Sticky decisions: no request replaces a session's decision in the map   *)
(* by a weaker one (build_decision keeps the stronger prior action, but    *)
(* the prior decision is read in one step and replaced in another).        *)
(***************************************************************************)
StickyDecisions ==
  [][\A s \in Sessions : decisions[s] # None /\ decisions'[s] # None =>
        ActionRank[decisions'[s].action] >= ActionRank[decisions[s].action]]_vars

(***************************************************************************)
(* What a client was told outlives the process: the files always hold a    *)
(* session for every identifier handed out, count every finding of every   *)
(* batch that was answered with 200, and hold a decision that withdraws    *)
(* nothing of the last one answered - at every point of a put, and when a  *)
(* put has failed or the process has died half way through a request.      *)
(***************************************************************************)
AnswersAreDurable ==
  \A s \in Sessions : answered[s] # None =>
    /\ diskSessions[s] # None
    /\ diskSessions[s].finding_count >= answered[s].findings
    /\ answered[s].findings > 0 =>
         /\ diskDecisions[s] # None
         /\ Covers(diskDecisions[s], answered[s].decision)

(***************************************************************************)
(* The maps and the files agree on every session no handler is between the *)
(* two halves of a put for: a restart then changes nothing a client or a   *)
(* studio sees of the session.                                             *)
(***************************************************************************)
Inserting(s, pc) == \E t \in Tasks : task[t].key = s /\ task[t].pc = pc

MapsMatchFiles ==
  up => \A s \in Sessions :
          /\ ~Inserting(s, "session_insert") => sessions[s] = diskSessions[s]
          /\ ~Inserting(s, "decision_insert") => decisions[s] = diskDecisions[s]

(***************************************************************************)
(* Every stored policy kicks below where it bans, although put_policy      *)
(* validates the update laid over a policy that may be replaced before the *)
(* result is stored (and the defaults are not validated at all).           *)
(***************************************************************************)
StoredPoliciesOrdered ==
  \A g \in Games : \A policy \in {policies[g], diskPolicies[g]} \ {None} :
    policy.kick_threshold < policy.ban_threshold

(***************************************************************************)
(* The files implement the ledger: seen through the disk, whatever the     *)
(* threads, failed writes and crashes do, every request records findings   *)
(* in one step and judges all of them in another, and neither is weakened. *)
(***************************************************************************)
Ledger == INSTANCE SessionLedger WITH
  recorded <- [s \in Sessions |->
                 IF diskSessions[s] = None THEN None
                 ELSE [peak_risk     |-> diskSessions[s].peak_risk,
                       finding_count |-> diskSessions[s].finding_count]],
  verdict  <- diskDecisions

ImplementsLedger == Ledger!Spec
=============================================================================
