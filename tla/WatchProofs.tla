------------------------------ MODULE WatchProofs ------------------------------
(***************************************************************************)
(* Who watches over whom: the server over the agent, by challenges         *)
(* (Challenge), and the core and its watchdog over each other, by          *)
(* heartbeats (TwinWatchdog).                                              *)
(*                                                                         *)
(* For any handlers, periods and bounds, presence is never claimed without *)
(* the agent, and an agent that is there is found there in time.  The      *)
(* first is a matter of knowledge: what is sent was shown, and what is     *)
(* verified was sent.  The second is a matter of time: while a challenge   *)
(* is active and not verified, every poll that ends has failed, but for    *)
(* one that was under way before; and no poll ends more than a period      *)
(* after the last.                                                         *)
(*                                                                         *)
(* For any processes, limits and faults there are never two cores nor two  *)
(* watchdogs in the mapping, and no core is killed that runs.  The first   *)
(* needs to know of every pair of processes who launched whom and who      *)
(* waits for whom (TwinInv); what gets in the way is a process that froze  *)
(* before it entered the mapping: it lives for ever and is seen by nobody. *)
(* The second is a matter of counting (StallInv): between two heartbeats   *)
(* of a core there are three steps at most, each within a period, and a    *)
(* watchdog waits for three periods.                                       *)
(***************************************************************************)
EXTENDS Challenge, TwinWatchdog, FiniteSetTheorems, TLAPS

-----------------------------------------------------------------------------
(* The server and the agent.                                               *)

\* The time that so many polls take at most.
Periods(n) == n * PollPeriod

\* What is sent or verified has been shown.
ShownInv ==
  /\ sent \subseteq shown
  /\ verified \subseteq shown
  /\ agent \in {"answering", "awaiting"} => nonce \in shown
  /\ \A h \in Handlers : handler[h].doing = "verifying" => /\ handler[h].challenge # None
                                                           /\ handler[h].challenge.nonce \in shown

\* A challenge that is being issued has all of its life before it; a poll is due in time.
IssueInv ==
  /\ now <= polled + PollPeriod
  /\ \A h \in Handlers :
       handler[h].doing = "issuing" => /\ handler[h].challenge # None
                                       /\ handler[h].challenge.expires_at = now + Lifetime

\* Polls that may have ended since the challenge became active, besides those that failed: the
\* one that was under way, unless it still is.
Spare == IF agent \in {"answering", "awaiting"} /\ nonce # active.nonce THEN 0 ELSE 1

\* The last poll ended that many periods after the challenge became active, at most.
PollInv ==
  active # None /\ active.nonce \notin verified =>
    polled + Lifetime <= active.expires_at + Periods(failures + Spare)

IInv == TypeOK /\ ShownInv /\ IssueInv /\ PollInv

-----------------------------------------------------------------------------
\* One more poll takes one more period, and fewer polls take no longer.
LEMMA PeriodsFacts ==
  ASSUME NEW n \in Nat
  PROVE  /\ Periods(n) \in Nat
         /\ Periods(n + 1) = Periods(n) + PollPeriod
         /\ n <= MaxFailures + 2 => Periods(n) <= Lifetime
<1>. USE ChallengeAssumption DEF Periods
<1>1. Periods(n) \in Nat /\ Periods(n + 1) = Periods(n) + PollPeriod
  OBVIOUS
<1>2. ASSUME n <= MaxFailures + 2 PROVE Periods(n) <= Lifetime
  <2>1. PICK k \in Nat : MaxFailures + 2 = n + k
    <3>1. MaxFailures + 2 - n \in Nat /\ MaxFailures + 2 = n + (MaxFailures + 2 - n)
      BY <1>2
    <3>. QED
      BY <3>1
  <2>2. (n + k) * PollPeriod = n * PollPeriod + k * PollPeriod /\ k * PollPeriod \in Nat
    BY <2>1
  <2>3. n * PollPeriod \in Nat /\ (n + k) * PollPeriod <= Lifetime
    BY <2>1
  <2>. QED
    BY <2>2, <2>3
<1>. QED
  BY <1>1, <1>2

\* A challenge that was not verified is not expired: the polls that could have failed have not
\* taken its life.
LEMMA NotExpired == IInv => AnsweredInTime
<1>. SUFFICES ASSUME IInv, active # None, active.nonce \notin verified PROVE ~Expired(active)
  BY DEF AnsweredInTime
<1>. USE ChallengeAssumption DEF IInv
<1>1. /\ active.expires_at \in Nat /\ now \in Nat /\ polled \in Nat
      /\ failures \in Nat /\ failures <= MaxFailures
  BY DEF TypeOK, ChallengeRecord
<1>2. Spare \in {0, 1} /\ failures + Spare \in Nat /\ failures + Spare <= MaxFailures + 1
  BY <1>1 DEF Spare
<1>3. /\ Periods(failures + Spare) \in Nat
      /\ Periods(failures + Spare) + PollPeriod = Periods(failures + Spare + 1)
      /\ Periods(failures + Spare + 1) <= Lifetime
  BY <1>1, <1>2, PeriodsFacts
<1>4. polled + Lifetime <= active.expires_at + Periods(failures + Spare)
  BY DEF PollInv
<1>5. now <= polled + PollPeriod
  BY DEF IssueInv
<1>. QED
  BY <1>1, <1>3, <1>4, <1>5 DEF Expired

\* At first nothing is shown and no challenge is active.
LEMMA InitIInv == Init => IInv
BY ChallengeAssumption DEF Init, Idle, IInv, TypeOK, ShownInv, IssueInv, PollInv

-----------------------------------------------------------------------------
(* The steps of the server.                                                *)

LEMMA IssueIInv == ASSUME IInv, NEW h \in Handlers, Issue(h) PROVE IInv'
<1>. USE ChallengeAssumption DEF IInv, Issue, Handle
<1>1. /\ handler' = [handler EXCEPT ![h] = [doing |-> "issuing",
                        challenge |-> [nonce |-> issued', expires_at |-> ExpiresAt(now)]]]
      /\ [nonce |-> issued', expires_at |-> ExpiresAt(now)] \in ChallengeRecord
  BY DEF TypeOK, ChallengeRecord, Nonces, ExpiresAt
<1>2. TypeOK'
  BY <1>1 DEF TypeOK
<1>3. ShownInv'
  BY <1>1 DEF TypeOK, ShownInv
<1>4. IssueInv'
  BY <1>1 DEF TypeOK, IssueInv, ExpiresAt, ChallengeRecord
<1>5. PollInv'
  BY DEF PollInv, Spare
<1>. QED
  BY <1>2, <1>3, <1>4, <1>5

LEMMA ActivateIInv == ASSUME IInv, NEW h \in Handlers, Activate(h) PROVE IInv'
<1>. USE ChallengeAssumption DEF IInv, Activate, Handle
<1>1. /\ active' \in ChallengeRecord /\ active'.expires_at = now + Lifetime
      /\ handler' = [handler EXCEPT ![h] = Idle]
  BY DEF TypeOK, IssueInv
<1>2. TypeOK'
  BY <1>1 DEF TypeOK, Idle
<1>3. ShownInv' /\ IssueInv'
  BY <1>1 DEF TypeOK, ShownInv, IssueInv, Idle
<1>4. PollInv'
  <2>1. failures' + Spare' \in Nat
    BY DEF TypeOK, Spare
  <2>2. Periods(failures' + Spare') \in Nat
    BY <2>1, PeriodsFacts
  <2>3. polled' \in Nat /\ now \in Nat /\ polled' <= now
    BY DEF TypeOK
  <2>. QED
    BY <1>1, <2>2, <2>3 DEF PollInv
<1>. QED
  BY <1>2, <1>3, <1>4

LEMMA VerifyIInv ==
  ASSUME IInv, NEW h \in Handlers, NEW response \in Nonces, Verify(h, response) PROVE IInv'
<1>. USE DEF IInv, Verify, Handle
<1>1. /\ active \in ChallengeRecord /\ active # None /\ active.nonce \in shown
      /\ handler' = [handler EXCEPT ![h] = [doing |-> "verifying", challenge |-> active]]
  BY DEF TypeOK, Accepts, ShownInv
<1>2. TypeOK'
  BY <1>1 DEF TypeOK
<1>3. ShownInv' /\ IssueInv'
  BY <1>1 DEF TypeOK, ShownInv, IssueInv
<1>4. PollInv'
  BY DEF PollInv, Spare
<1>. QED
  BY <1>2, <1>3, <1>4

LEMMA StoreReceiptIInv == ASSUME IInv, NEW h \in Handlers, StoreReceipt(h) PROVE IInv'
<1>. USE DEF IInv, StoreReceipt, Handle
<1>1. /\ handler[h].challenge.nonce \in shown
      /\ handler' = [handler EXCEPT ![h] = Idle]
  BY DEF ShownInv
<1>2. TypeOK'
  BY <1>1 DEF TypeOK, Idle
<1>3. ShownInv' /\ IssueInv'
  BY <1>1 DEF TypeOK, ShownInv, IssueInv, Idle
<1>4. PollInv'
  BY DEF PollInv, Spare
<1>. QED
  BY <1>2, <1>3, <1>4

LEMMA StoreFailsIInv == ASSUME IInv, NEW h \in Handlers, StoreFails(h) PROVE IInv'
<1>. USE DEF IInv, StoreFails
<1>1. TypeOK'
  BY ChallengeAssumption DEF TypeOK, Idle
<1>2. ShownInv' /\ IssueInv'
  BY DEF TypeOK, ShownInv, IssueInv, Idle
<1>3. PollInv'
  <2>1. failures + Spare \in Nat /\ failures' + Spare' = failures + Spare + 1
    BY DEF TypeOK, Spare
  <2>2. /\ Periods(failures + Spare) \in Nat
        /\ Periods(failures' + Spare') = Periods(failures + Spare) + PollPeriod
    BY <2>1, PeriodsFacts
  <2>. QED
    BY <2>2, ChallengeAssumption DEF TypeOK, ChallengeRecord, PollInv
<1>. QED
  BY <1>1, <1>2, <1>3

LEMMA RestartIInv == ASSUME IInv, Restart PROVE IInv'
BY DEF IInv, Restart, TypeOK, ShownInv, IssueInv, PollInv, Idle

-----------------------------------------------------------------------------
(* The steps of the agent.                                                 *)

LEMMA PollIInv == ASSUME IInv, Poll PROVE IInv'
BY DEF IInv, Poll, Agent, TypeOK, ShownInv, IssueInv, PollInv, Spare

LEMMA ShowIInv == ASSUME IInv, Show PROVE IInv'
<1>. USE DEF IInv, Show, Agent
<1>1. active.nonce \in Nonces
  BY DEF TypeOK, ChallengeRecord
<1>2. TypeOK'
  <2>1. active.nonce # None
    BY <1>1, ChallengeAssumption DEF Nonces
  <2>. QED
    BY <1>1, <2>1 DEF TypeOK
<1>3. ShownInv' /\ IssueInv'
  BY DEF ShownInv, IssueInv
<1>4. PollInv'
  BY DEF PollInv, Spare
<1>. QED
  BY <1>2, <1>3, <1>4

LEMMA AnswerIInv == ASSUME IInv, Answer PROVE IInv'
<1>. USE DEF IInv, Answer, Agent
<1>1. TypeOK'
  BY DEF TypeOK
<1>2. ShownInv' /\ IssueInv' /\ PollInv'
  BY DEF ShownInv, IssueInv, PollInv, Spare
<1>. QED
  BY <1>1, <1>2

\* When a poll ends, another is due within a period.
LEMMA PollEndsTime ==
  ASSUME IInv, PollEnds, UNCHANGED <<now, handler>>
  PROVE  /\ IssueInv' /\ Spare' = 1
         /\ polled' \in Nat /\ polled \in Nat /\ polled' <= polled + PollPeriod
BY ChallengeAssumption DEF IInv, PollEnds, TypeOK, IssueInv, Spare

\* It shows nothing only if there is nothing that could have been verified.
LEMMA ShowNothingIInv == ASSUME IInv, ShowNothing PROVE IInv'
<1>. USE DEF IInv, ShowNothing, PollEnds
<1>1. TypeOK' /\ ShownInv'
  BY DEF TypeOK, ShownInv
<1>2. IssueInv'
  BY PollEndsTime
<1>3. PollInv'
  BY NotExpired DEF PollInv, AnsweredInTime
<1>. QED
  BY <1>1, <1>2, <1>3

\* A refusal means that the challenge the agent was shown is no longer the active one.
LEMMA AnsweredIInv == ASSUME IInv, Answered PROVE IInv'
<1>. USE DEF IInv, Answered
<1>1. TypeOK' /\ ShownInv'
  BY DEF PollEnds, TypeOK, ShownInv
<1>2. IssueInv'
  BY PollEndsTime
<1>3. PollInv'
  <2>. SUFFICES ASSUME active # None, active.nonce \notin verified
                PROVE  polled' + Lifetime <= active.expires_at + Periods(failures + Spare')
    BY DEF PollInv
  <2>1. nonce # active.nonce
    BY NotExpired DEF AnsweredInTime, Accepts
  <2>2. Spare = 0 /\ Spare' = 1 /\ failures \in Nat
    BY <2>1, PollEndsTime DEF Spare, TypeOK
  <2>3. /\ Periods(failures + Spare) = Periods(failures)
        /\ Periods(failures + Spare') = Periods(failures) + PollPeriod
        /\ Periods(failures) \in Nat
    BY <2>2, PeriodsFacts
  <2>. QED
    BY <2>3, PollEndsTime, ChallengeAssumption DEF PollInv, TypeOK, ChallengeRecord
<1>. QED
  BY <1>1, <1>2, <1>3

LEMMA PollFailsIInv == ASSUME IInv, PollFails PROVE IInv'
<1>. USE DEF IInv, PollFails
<1>1. TypeOK' /\ ShownInv'
  BY ChallengeAssumption DEF PollEnds, TypeOK, ShownInv
<1>2. IssueInv'
  BY PollEndsTime
<1>3. PollInv'
  <2>. SUFFICES ASSUME active # None, active.nonce \notin verified
                PROVE  polled' + Lifetime <= active.expires_at + Periods(failures' + Spare')
    BY DEF PollInv
  <2>1. /\ failures \in Nat /\ failures' = failures + 1 /\ Spare' = 1 /\ Spare \in {0, 1}
        /\ Periods(failures) \in Nat
    BY PollEndsTime, PeriodsFacts DEF Spare, TypeOK
  <2>2. Periods(failures + Spare) <= Periods(failures + 1)
    <3>1. CASE Spare = 0
      BY <2>1, <3>1, PeriodsFacts, ChallengeAssumption
    <3>2. CASE Spare = 1
      BY <2>1, <3>2, PeriodsFacts, ChallengeAssumption
    <3>. QED
      BY <2>1, <3>1, <3>2
  <2>3. /\ Periods(failures + Spare) \in Nat /\ Periods(failures + 1) \in Nat
        /\ Periods(failures' + Spare') = Periods(failures + 1) + PollPeriod
    BY <2>1, PeriodsFacts
  <2>. QED
    BY <2>2, <2>3, PollEndsTime, ChallengeAssumption DEF PollInv, TypeOK, ChallengeRecord
<1>. QED
  BY <1>1, <1>2, <1>3

LEMMA TickIInv == ASSUME IInv, Tick PROVE IInv'
<1>. USE DEF IInv, Tick
<1>1. TypeOK' /\ ShownInv'
  BY ChallengeAssumption DEF TypeOK, ShownInv
<1>2. IssueInv'
  BY ChallengeAssumption DEF TypeOK, IssueInv, Idle
<1>3. PollInv'
  BY DEF PollInv, Spare
<1>. QED
  BY <1>1, <1>2, <1>3

-----------------------------------------------------------------------------
LEMMA NextIInv == IInv /\ [Next]_vars => IInv'
<1>. SUFFICES ASSUME IInv, [Next]_vars PROVE IInv'
  OBVIOUS
<1>1. CASE UNCHANGED vars
  BY <1>1 DEF vars, IInv, TypeOK, ShownInv, IssueInv, PollInv, Spare
<1>2. ASSUME NEW h \in Handlers, Issue(h) \/ Activate(h) \/ StoreReceipt(h) \/ StoreFails(h)
      PROVE  IInv'
  BY <1>2, IssueIInv, ActivateIInv, StoreReceiptIInv, StoreFailsIInv
<1>3. ASSUME NEW h \in Handlers, NEW response \in Nonces, Verify(h, response) PROVE IInv'
  BY <1>3, VerifyIInv
<1>4. CASE Restart \/ Poll \/ Show \/ ShowNothing
  BY <1>4, RestartIInv, PollIInv, ShowIInv, ShowNothingIInv
<1>5. CASE Answer \/ Answered \/ PollFails \/ Tick
  BY <1>5, AnswerIInv, AnsweredIInv, PollFailsIInv, TickIInv
<1>. QED
  BY <1>1, <1>2, <1>3, <1>4, <1>5 DEF Next

\* The state is well typed (main.rs:305-470).
THEOREM TypeCorrect == Spec => []TypeOK
<1>1. IInv => TypeOK
  BY DEF IInv
<1>. QED
  BY <1>1, InitIInv, NextIInv, PTL DEF Spec

\* A receipt is only ever stored for a challenge that the agent was shown: no copy of an
\* earlier answer earns one (verify_challenge_response, main.rs).
THEOREM LiveOnly == Spec => []PresenceIsLive
<1>1. IInv => PresenceIsLive
  BY DEF IInv, ShownInv, PresenceIsLive
<1>. QED
  BY <1>1, InitIInv, NextIInv, PTL DEF Spec

\* If a challenge lives for two polls more than can fail, an agent that keeps polling has
\* answered every challenge that is left to expire (the agent's poll, client/agent/main.rs).
THEOREM InTime == Spec => []AnsweredInTime
BY NotExpired, InitIInv, NextIInv, PTL DEF Spec

-----------------------------------------------------------------------------
(* The core and the watchdog.                                              *)

\* Where a process has not entered the mapping.
Outside == {"map", "register"}

\* The places of either program, and what was never started.
PlaceInv ==
    /\ \A c \in Cores : pc[c] \in {"map", "register", "pulse", "launch", "loop"}
    /\ \A w \in Watchdogs : pc[w] \in {"map", "register", "look", "kill", "launch"}
    /\ \A p \in Processes : life[p] = "unborn" => p \notin view /\ pc[p] = "map"
    /\ \A w \in Watchdogs : pc[w] \in Outside => watchdogPid # w
    /\ \A p \in Processes : p \in {corePid, watchdogPid} => life[p] # "unborn"
    /\ \A w \in Watchdogs, c \in Cores : parent[w] = c => life[c] # "unborn"

\* Alive to the system, be it frozen.
Lives(p) == life[p] = "running" \/ life[p] = "frozen"

\* Who has registered holds the mapping and is the one that it names, and while its creator
\* is about to clear it nobody else holds it.
MappingInv ==
    /\ \A p \in Processes : Lives(p) /\ pc[p] # "map" => p \in view
    /\ \A c \in Cores : Lives(c) /\ corePid = c => c \in view
    /\ \A c \in Cores : Lives(c) /\ pc[c] \notin Outside => corePid = c
    /\ \A w \in Watchdogs : Lives(w) /\ pc[w] \notin Outside => watchdogPid = w
    /\ \A p \in created, q \in view :
          life[p] = "running" /\ pc[p] = "register" /\ Lives(q) => q = p

\* Frozen on its way into the mapping, where it never arrives.
Adrift(p) == life[p] = "frozen" /\ pc[p] \in Outside

CoreAdrift(c) == Adrift(c) /\ corePid # c

\* Beside a running process of either program others live only if they are adrift.
AloneInv ==
    /\ \A c, d \in Cores : life[c] = "running" /\ Lives(d) => d = c \/ CoreAdrift(d)
    /\ \A w, d \in Watchdogs : life[w] = "running" /\ Lives(d) => d = w \/ Adrift(d)

\* How a core and a watchdog that both run stand to each other: the core has just launched
\* the watchdog, or the watchdog watches the core, or the watchdog has just launched it.
Paired(c, w) ==
    \/ pc[w] \in Outside /\ pc[c] = "loop" /\ child[c] = w
    \/ pc[w] \in {"look", "kill"} /\ corePid = c /\ pc[c] # "launch"
    \/ pc[w] = "look" /\ child[w] = c /\ pc[c] \in Outside /\ corePid # c

PairInv ==
    \A c \in Cores, w \in Watchdogs :
        life[c] = "running" /\ life[w] = "running" => Paired(c, w)

\* The core that a watchdog last saw is still in the mapping, if it lives.
ParentInv ==
    \A w \in Watchdogs, c \in Cores :
        life[w] = "running" /\ parent[w] = c /\ Lives(c) => corePid = c

\* A watchdog that is about to kill knows a core, and no other one lives that could matter.
KillInv ==
    \A w \in Watchdogs : life[w] = "running" /\ pc[w] = "kill" =>
        /\ parent[w] \in Cores
        /\ corePid = parent[w] \/ corePid = Nobody
        /\ \A d \in Cores : Lives(d) => d = parent[w] \/ CoreAdrift(d)

\* Who is about to launch a twin has none that lives, but for those adrift.
LaunchInv ==
    /\ \A w \in Watchdogs, d \in Cores :
          life[w] = "running" /\ pc[w] = "launch" /\ Lives(d) => CoreAdrift(d)
    /\ \A c \in Cores, d \in Watchdogs :
          life[c] = "running" /\ pc[c] = "launch" /\ Lives(d) => Adrift(d)

\* The inductive invariant of the two programs.
TwinInv ==
    /\ TwinTypeOK /\ PlaceInv /\ MappingInv /\ AloneInv
    /\ PairInv /\ ParentInv /\ KillInv /\ LaunchInv

\* At the start there is one core, outside of the mapping.
LEMMA InitTwin == TwinInit => TwinInv
<1>1. SUFFICES ASSUME TwinInit PROVE TwinInv
  OBVIOUS
<1>2. PICK core \in Cores : life = [p \in Processes |-> IF p = core THEN "running" ELSE "unborn"]
  BY <1>1, TwinAssumption DEF TwinInit
<1>3. TwinTypeOK
  BY <1>1, <1>2, TwinAssumption DEF TwinInit, TwinTypeOK, Processes
<1>. USE <1>1, <1>2, TwinAssumption DEF TwinInit, Processes
<1>4. PlaceInv
  BY DEF PlaceInv, Outside
<1>5. MappingInv
  BY DEF MappingInv, Lives, Outside
<1>6. AloneInv
  BY DEF AloneInv, Lives
<1>7. PairInv /\ ParentInv /\ KillInv /\ LaunchInv
  BY DEF PairInv, ParentInv, KillInv, LaunchInv, Lives
<1>. QED
  BY <1>3, <1>4, <1>5, <1>6, <1>7 DEF TwinInv

\* Whoever dies or freezes only stops to matter.
LEMMA FaultTwin ==
    ASSUME TwinInv, NEW p \in Processes, NEW fate \in {"dead", "frozen"}, Fault(p, fate)
    PROVE  TwinInv'
<1>1. TwinTypeOK'
  BY TwinAssumption DEF TwinInv, TwinTypeOK, Fault, mapping
<1>. USE DEF TwinInv, TwinTypeOK, Fault, mapping
<1>2. PlaceInv'
  BY DEF PlaceInv, Outside
<1>3. MappingInv'
  BY DEF MappingInv, Lives
<1>4. AloneInv'
  BY DEF AloneInv, Lives, Adrift, CoreAdrift, MappingInv, Outside
<1>5. PairInv'
  BY DEF PairInv, Paired
<1>6. ParentInv'
  BY DEF ParentInv, Lives, Processes
<1>7. KillInv'
  BY DEF KillInv, Lives, Processes, CoreAdrift, Adrift
<1>8. LaunchInv'
  BY DEF LaunchInv, Lives, Processes, CoreAdrift, Adrift
<1>. QED
  BY <1>1, <1>2, <1>3, <1>4, <1>5, <1>6, <1>7, <1>8 DEF TwinInv

\* A fresh identifier is one that was not used.
LEMMA FreshFact ==
    ASSUME NEW S, Unborn(S) # {}
    PROVE  Fresh(S) \in S /\ life[Fresh(S)] = "unborn"
BY DEF Fresh, Unborn

\* A core opens the mapping, or creates it: then nobody else had it open.
LEMMA MapCoreTwin ==
    ASSUME TwinInv, NEW p \in Cores, Map(p)
    PROVE  TwinInv'
<1>1. TwinTypeOK'
  BY TwinAssumption DEF TwinInv, TwinTypeOK, Map, Step, Reset, Cleared, Processes, Holders, Living
<1>. USE TwinAssumption DEF TwinInv, TwinTypeOK, Map, Step, Reset, Holders, Living, Processes
<1>2. PlaceInv'
  BY DEF PlaceInv, Outside
<1>3. MappingInv'
  BY DEF MappingInv, Lives, Outside, AloneInv, CoreAdrift, Adrift, PairInv, Paired, PlaceInv
<1>4. AloneInv'
  BY DEF AloneInv, Lives, Adrift, CoreAdrift, MappingInv, Outside
<1>5. PairInv'
  BY DEF PairInv, Paired, Outside, MappingInv, Lives, AloneInv
<1>6. ParentInv'
  BY DEF ParentInv, Lives, AloneInv, PairInv, Paired, MappingInv, Outside
<1>7. KillInv'
  BY DEF KillInv, Lives, CoreAdrift, Adrift, Outside
<1>8. LaunchInv'
  BY DEF LaunchInv, Lives, CoreAdrift, Adrift, Outside
<1>. QED
  BY <1>1, <1>2, <1>3, <1>4, <1>5, <1>6, <1>7, <1>8 DEF TwinInv

\* So does a watchdog.
LEMMA MapWatchdogTwin ==
    ASSUME TwinInv, NEW p \in Watchdogs, Map(p)
    PROVE  TwinInv'
<1>1. TwinTypeOK'
  BY TwinAssumption DEF TwinInv, TwinTypeOK, Map, Step, Reset, Cleared, Processes, Holders, Living
<1>. USE TwinAssumption DEF TwinInv, TwinTypeOK, Map, Step, Reset, Holders, Living, Processes
<1>2. PlaceInv'
  BY DEF PlaceInv, Outside
<1>3. MappingInv'
  BY DEF MappingInv, Lives, Outside, AloneInv, CoreAdrift, Adrift, PairInv, Paired, PlaceInv
<1>4. AloneInv'
  BY DEF AloneInv, Lives, Adrift, CoreAdrift, MappingInv, Outside
<1>5. PairInv'
  BY DEF PairInv, Paired, Outside, MappingInv, Lives, AloneInv
<1>6. ParentInv'
  BY DEF ParentInv, Lives, AloneInv, PairInv, Paired, MappingInv, Outside
<1>7. KillInv'
  BY DEF KillInv, Lives, CoreAdrift, Adrift, Outside
<1>8. LaunchInv'
  BY DEF LaunchInv, Lives, CoreAdrift, Adrift, Outside
<1>. QED
  BY <1>1, <1>2, <1>3, <1>4, <1>5, <1>6, <1>7, <1>8 DEF TwinInv
\* A core enters its identifier: of the watchdogs only one that it has just launched, or
\* that it found registered, is there.
LEMMA RegisterCoreTwin ==
    ASSUME TwinInv, NEW p \in Cores, RegisterCore(p)
    PROVE  TwinInv'
<1>. USE TwinAssumption DEF TwinInv, TwinTypeOK, Processes, RegisterCore, Step, Reset, Cleared
<1>1. TwinTypeOK'
  OBVIOUS
<1>2. PlaceInv'
  BY DEF PlaceInv, Outside
<1>3. MappingInv'
  BY DEF MappingInv, Lives, Outside, AloneInv, CoreAdrift, Adrift
<1>4. AloneInv'
  BY DEF AloneInv, Lives, CoreAdrift, Adrift, Outside
<1>5. PairInv'
  BY DEF PairInv, Paired, Outside, AloneInv, Lives, CoreAdrift, Adrift
<1>6. ParentInv'
  BY DEF ParentInv, Lives, AloneInv, CoreAdrift, Adrift, Outside
<1>7. KillInv'
  BY DEF KillInv, Lives, CoreAdrift, Adrift, Outside
<1>8. LaunchInv'
  BY DEF LaunchInv, Lives, CoreAdrift, Adrift, Outside
<1>. QED
  BY <1>1, <1>2, <1>3, <1>4, <1>5, <1>6, <1>7, <1>8 DEF TwinInv

\* A watchdog enters its own, and the core that launched it stands in the mapping.
LEMMA RegisterWatchdogTwin ==
    ASSUME TwinInv, NEW p \in Watchdogs, RegisterWatchdog(p)
    PROVE  TwinInv'
<1>. USE TwinAssumption DEF TwinInv, TwinTypeOK, Processes, RegisterWatchdog, Step, Cleared
<1>1. TwinTypeOK'
  OBVIOUS
<1>2. PlaceInv'
  BY DEF PlaceInv, Outside
<1>3. MappingInv'
  BY DEF MappingInv, Lives, Outside, AloneInv, CoreAdrift, Adrift
<1>4. AloneInv'
  BY DEF AloneInv, Lives, CoreAdrift, Adrift, Outside
<1>5. PairInv'
  BY DEF PairInv, Paired, Outside, MappingInv, Lives
<1>6. ParentInv'
  BY DEF ParentInv, Lives, MappingInv, Outside
<1>7. KillInv'
  BY DEF KillInv, Lives, CoreAdrift, Adrift, Outside
<1>8. LaunchInv'
  BY DEF LaunchInv, Lives, CoreAdrift, Adrift, Outside
<1>. QED
  BY <1>1, <1>2, <1>3, <1>4, <1>5, <1>6, <1>7, <1>8 DEF TwinInv

\* A core launches a watchdog only if the one in the mapping is not alive.
LEMMA EnsurePulseTwin ==
    ASSUME TwinInv, NEW p \in Cores, EnsurePulse(p)
    PROVE  TwinInv'
<1>. USE TwinAssumption
      DEF TwinInv, TwinTypeOK, Processes, EnsurePulse, Step, Reset, LaunchUnlessAlive, Alive,
          Living
<1>1. TwinTypeOK'
  OBVIOUS
<1>2. PlaceInv'
  BY DEF PlaceInv, Outside
<1>3. MappingInv'
  BY DEF MappingInv, Lives, Outside
<1>4. AloneInv'
  BY DEF AloneInv, Lives, CoreAdrift, Adrift, Outside
<1>5. PairInv'
  BY DEF PairInv, Paired, Outside, MappingInv, Lives
<1>6. ParentInv'
  BY DEF ParentInv, Lives, MappingInv, Outside
<1>7. KillInv'
  BY DEF KillInv, Lives, CoreAdrift, Adrift, Outside
<1>8. LaunchInv'
  BY DEF LaunchInv, Lives, CoreAdrift, Adrift, Outside, MappingInv, PairInv, Paired
<1>. QED
  BY <1>1, <1>2, <1>3, <1>4, <1>5, <1>6, <1>7, <1>8 DEF TwinInv

\* The launched watchdog is the only one that lives, but for those adrift.
LEMMA LaunchWatchdogTwin ==
    ASSUME TwinInv, NEW p \in Cores, LaunchWatchdog(p)
    PROVE  TwinInv'
<1>. USE TwinAssumption
      DEF TwinInv, TwinTypeOK, Processes, LaunchWatchdog, Step, Reset, Launch, mapping
<1>0. PICK f \in Watchdogs : f = Fresh(Watchdogs) /\ life[f] = "unborn"
  BY FreshFact
<1>1. TwinTypeOK'
  BY <1>0
<1>2. PlaceInv'
  BY <1>0 DEF PlaceInv, Outside
<1>3. MappingInv'
  BY <1>0 DEF MappingInv, Lives, Outside, PlaceInv
<1>4. AloneInv'
  BY <1>0 DEF AloneInv, Lives, CoreAdrift, Adrift, Outside, LaunchInv
<1>5. PairInv'
  BY <1>0 DEF PairInv, Paired, Outside, PlaceInv, AloneInv, Lives, CoreAdrift, Adrift
<1>6. ParentInv'
  BY <1>0 DEF ParentInv, Lives, MappingInv, Outside
<1>7. KillInv'
  BY <1>0 DEF KillInv, Lives, CoreAdrift, Adrift, Outside, PlaceInv
<1>8. LaunchInv'
  BY <1>0 DEF LaunchInv, Lives, CoreAdrift, Adrift, Outside, PlaceInv, MappingInv
<1>. QED
  BY <1>1, <1>2, <1>3, <1>4, <1>5, <1>6, <1>7, <1>8 DEF TwinInv

\* A core that goes back to the mapping has a watchdog that does not live or is registered.
LEMMA CoreLoopTwin ==
    ASSUME TwinInv, NEW p \in Cores, CoreLoop(p)
    PROVE  TwinInv'
<1>. USE TwinAssumption DEF TwinInv, TwinTypeOK, Processes, CoreLoop, Step, Reset, Prompt, Joining
<1>1. TwinTypeOK'
  OBVIOUS
<1>2. PlaceInv'
  BY DEF PlaceInv, Outside
<1>3. MappingInv'
  BY DEF MappingInv, Lives, Outside
<1>4. AloneInv'
  BY DEF AloneInv, Lives, CoreAdrift, Adrift, Outside
<1>5. PairInv'
  BY DEF PairInv, Paired, Outside, PlaceInv
<1>6. ParentInv'
  BY DEF ParentInv, Lives, MappingInv, Outside
<1>7. KillInv'
  BY DEF KillInv, Lives, CoreAdrift, Adrift, Outside
<1>8. LaunchInv'
  BY DEF LaunchInv, Lives, CoreAdrift, Adrift, Outside
<1>. QED
  BY <1>1, <1>2, <1>3, <1>4, <1>5, <1>6, <1>7, <1>8 DEF TwinInv

\* A watchdog that finds the core dead is about to launch the only one.
LEMMA FindDeadTwin ==
    ASSUME TwinInv, NEW p \in Watchdogs, FindDead(p)
    PROVE  TwinInv'
<1>. USE TwinAssumption
      DEF TwinInv, TwinTypeOK, Processes, FindDead, Look, Step, Prompt, Joining, Watched, Alive,
          Living
<1>1. TwinTypeOK'
  OBVIOUS
<1>2. PlaceInv'
  BY DEF PlaceInv, Outside
<1>3. MappingInv'
  BY DEF MappingInv, Lives, Outside
<1>4. AloneInv'
  BY DEF AloneInv, Lives, CoreAdrift, Adrift, Outside
<1>5. PairInv'
  BY DEF PairInv, Paired, Outside
<1>6. ParentInv'
  BY DEF ParentInv, Lives
<1>7. KillInv'
  BY DEF KillInv, Lives, CoreAdrift, Adrift, Outside
<1>8. LaunchInv'
  BY DEF LaunchInv, Lives, CoreAdrift, Adrift, Outside, MappingInv, PairInv, Paired
<1>. QED
  BY <1>1, <1>2, <1>3, <1>4, <1>5, <1>6, <1>7, <1>8 DEF TwinInv

\* A watchdog that finds the core alive goes on.
LEMMA FindAliveTwin ==
    ASSUME TwinInv, NEW p \in Watchdogs, FindAlive(p)
    PROVE  TwinInv'
<1>. USE TwinAssumption
      DEF TwinInv, TwinTypeOK, Processes, FindAlive, Look, Step, Prompt, Joining, Watched, Alive,
          Living, Stalled, Count
<1>1. TwinTypeOK'
  OBVIOUS
<1>2. PlaceInv'
  BY DEF PlaceInv, Outside
<1>3. MappingInv'
  BY DEF MappingInv, Lives, Outside
<1>4. AloneInv'
  BY DEF AloneInv, Lives, CoreAdrift, Adrift, Outside
<1>5. PairInv'
  BY DEF PairInv, Paired, Outside
<1>6. ParentInv'
  BY DEF ParentInv, Lives
<1>7. KillInv'
  BY DEF KillInv, Lives, CoreAdrift, Adrift, Outside
<1>8. LaunchInv'
  BY DEF LaunchInv, Lives, CoreAdrift, Adrift, Outside
<1>. QED
  BY <1>1, <1>2, <1>3, <1>4, <1>5, <1>6, <1>7, <1>8 DEF TwinInv

\* A watchdog that finds it stalled knows whom it is about to kill.
LEMMA FindStalledTwin ==
    ASSUME TwinInv, NEW p \in Watchdogs, FindStalled(p)
    PROVE  TwinInv'
<1>. USE TwinAssumption
      DEF TwinInv, TwinTypeOK, Processes, FindStalled, Look, Step, Prompt, Joining, Watched,
          Alive, Living, Stalled, Count
<1>1. TwinTypeOK'
  OBVIOUS
<1>2. PlaceInv'
  BY DEF PlaceInv, Outside
<1>3. MappingInv'
  BY DEF MappingInv, Lives, Outside
<1>4. AloneInv'
  BY DEF AloneInv, Lives, CoreAdrift, Adrift, Outside
<1>5. PairInv'
  BY DEF PairInv, Paired, Outside
<1>6. ParentInv'
  BY DEF ParentInv, Lives
<1>7. KillInv'
  BY DEF KillInv, Lives, CoreAdrift, Adrift, Outside, MappingInv, PairInv, Paired
<1>8. LaunchInv'
  BY DEF LaunchInv, Lives, CoreAdrift, Adrift, Outside
<1>. QED
  BY <1>1, <1>2, <1>3, <1>4, <1>5, <1>6, <1>7, <1>8 DEF TwinInv

\* What it kills was the last core that lived, but for those adrift.
LEMMA KillTwin ==
    ASSUME TwinInv, NEW p \in Watchdogs, Kill(p)
    PROVE  TwinInv'
<1>. USE TwinAssumption DEF TwinInv, TwinTypeOK, Processes, Kill, Step, mapping
<1>1. TwinTypeOK'
  BY DEF KillInv
<1>2. PlaceInv'
  BY DEF PlaceInv, Outside
<1>3. MappingInv'
  BY DEF MappingInv, Lives, Outside
<1>4. AloneInv'
  BY DEF AloneInv, Lives, CoreAdrift, Adrift, Outside
<1>5. PairInv'
  BY DEF PairInv, Paired, Outside, KillInv, Lives, CoreAdrift, Adrift
<1>6. ParentInv'
  BY DEF ParentInv, Lives
<1>7. KillInv'
  BY DEF KillInv, Lives, CoreAdrift, Adrift, Outside
<1>8. LaunchInv'
  BY DEF LaunchInv, Lives, CoreAdrift, Adrift, Outside, KillInv
<1>. QED
  BY <1>1, <1>2, <1>3, <1>4, <1>5, <1>6, <1>7, <1>8 DEF TwinInv

\* The launched core is the only one that lives, but for those adrift.
LEMMA LaunchCoreTwin ==
    ASSUME TwinInv, NEW p \in Watchdogs, LaunchCore(p)
    PROVE  TwinInv'
<1>. USE TwinAssumption DEF TwinInv, TwinTypeOK, Processes, LaunchCore, Step, Launch, mapping
<1>0. PICK f \in Cores : f = Fresh(Cores) /\ life[f] = "unborn"
  BY FreshFact
<1>1. TwinTypeOK'
  BY <1>0
<1>2. PlaceInv'
  BY <1>0 DEF PlaceInv, Outside
<1>3. MappingInv'
  BY <1>0 DEF MappingInv, Lives, Outside, PlaceInv
<1>4. AloneInv'
  BY <1>0 DEF AloneInv, Lives, CoreAdrift, Adrift, Outside, LaunchInv
<1>5. PairInv'
  BY <1>0 DEF PairInv, Paired, Outside, PlaceInv, AloneInv, Lives, CoreAdrift, Adrift
<1>6. ParentInv'
  BY <1>0 DEF ParentInv, Lives, PlaceInv, Outside
<1>7. KillInv'
  BY <1>0 DEF KillInv, Lives, CoreAdrift, Adrift, Outside, MappingInv
<1>8. LaunchInv'
  BY <1>0 DEF LaunchInv, Lives, CoreAdrift, Adrift, Outside, PlaceInv, MappingInv
<1>. QED
  BY <1>1, <1>2, <1>3, <1>4, <1>5, <1>6, <1>7, <1>8 DEF TwinInv

-----------------------------------------------------------------------------
\* Every step keeps the invariant.
LEMMA NextTwin == TwinInv /\ [TwinNext]_twinVars => TwinInv'
<1>1. SUFFICES ASSUME TwinInv, [TwinNext]_twinVars PROVE TwinInv'
  OBVIOUS
<1>2. ASSUME NEW c \in Cores, CoreStep(c) PROVE TwinInv'
  BY <1>1, <1>2, MapCoreTwin, RegisterCoreTwin, EnsurePulseTwin, LaunchWatchdogTwin, CoreLoopTwin
  DEF CoreStep
<1>3. ASSUME NEW w \in Watchdogs, WatchdogStep(w) PROVE TwinInv'
  BY <1>1, <1>3, MapWatchdogTwin, RegisterWatchdogTwin, FindDeadTwin, FindAliveTwin,
     FindStalledTwin, KillTwin, LaunchCoreTwin
  DEF WatchdogStep
<1>4. ASSUME NEW p \in Processes, Fault(p, "dead") \/ Fault(p, "frozen") PROVE TwinInv'
  BY <1>1, <1>4, FaultTwin
<1>5. CASE UNCHANGED twinVars
  BY <1>1, <1>5
  DEF twinVars, mapping, TwinInv, TwinTypeOK, PlaceInv, MappingInv, AloneInv, PairInv, Paired,
      ParentInv, KillInv, LaunchInv, Lives, Adrift, CoreAdrift
<1>. QED
  BY <1>1, <1>2, <1>3, <1>4, <1>5 DEF TwinNext

\* It holds in every behaviour.
LEMMA AlwaysTwin == TwinSpec => []TwinInv
BY InitTwin, NextTwin, PTL DEF TwinSpec

\* The variables stay within their types, and a stall is acted upon when it is one.
THEOREM TwinTypeCorrect == TwinSpec => []TwinTypeOK
<1>1. TwinInv => TwinTypeOK
  BY DEF TwinInv
<1>. QED
  BY <1>1, AlwaysTwin, PTL

\* Whoever lives and has registered is the one that the mapping names.
LEMMA OneFollows == TwinInv => OneOfEach
<1>1. SUFFICES ASSUME TwinInv PROVE OneOfEach
  OBVIOUS
<1>2. ASSUME NEW S, NEW x, S \subseteq {x} PROVE Cardinality(S) <= 1
  <2>1. IsFiniteSet({x}) /\ Cardinality({x}) = 1
    BY FS_Singleton
  <2>. QED
    BY <1>2, <2>1, FS_Subset
<1>3. Registered(Cores) \subseteq {corePid}
  BY <1>1 DEF TwinInv, MappingInv, Registered, Living, Lives, Outside
<1>4. Registered(Watchdogs) \subseteq {watchdogPid}
  BY <1>1 DEF TwinInv, MappingInv, Registered, Living, Lives, Outside
<1>. QED
  BY <1>2, <1>3, <1>4 DEF OneOfEach

\* There are never two cores, nor two watchdogs, that live and have registered, however long
\* a heartbeat may take (watchdog_main.cpp:86, main.cpp:350).
THEOREM NeverTwo == TwinSpec => []OneOfEach
BY AlwaysTwin, OneFollows, PTL

-----------------------------------------------------------------------------
(* What is killed.                                                         *)

\* How many looks without a heartbeat there have been at most, and there may be: a core
\* that enters the mapping again takes steps that are no heartbeats.
Patience(c) ==
    CASE pc[c] = "register" -> CorePeriod + lag[c]
      [] pc[c] = "pulse"    -> 2 * CorePeriod + lag[c]
      [] OTHER              -> lag[c]

\* No watchdog that runs beside a running core is about to kill, and it has counted less
\* than its patience with the core, unless a heartbeat is there that it has not seen.
StallInv ==
    /\ killed = {}
    /\ \A w \in Watchdogs : pc[w] \in {"kill", "launch"} => stalls[w] = 0
    /\ \A c \in Cores, w \in Watchdogs :
          life[c] = "running" /\ pc[c] = "launch" => w \in unseen
    /\ \A c \in Cores, w \in Watchdogs : life[c] = "running" /\ life[w] = "running" =>
          /\ pc[w] # "kill"
          /\ \/ w \in unseen
             \/ stalls[w] < Patience(c)
             \/ stalls[w] = 0 /\ corePid # c

\* At the start nobody counts.
LEMMA InitStall == TwinInit => StallInv
BY TwinAssumption DEF TwinInit, StallInv, Processes

\* A core that enters the mapping again may be looked at for a period longer ...
LEMMA MapCoreStall ==
    ASSUME TwinInv, StallInv, NEW p \in Cores, Map(p)
    PROVE  StallInv'
<1>. USE TwinAssumption, PeriodAssumption
      DEF Processes, Map, Step, Reset, Cleared, Holders, Living
<1>. QED
  BY DEF StallInv, Patience, TwinInv, TwinTypeOK

\* ... and a watchdog that does starts its count anew.
LEMMA MapWatchdogStall ==
    ASSUME TwinInv, StallInv, NEW p \in Watchdogs, Map(p)
    PROVE  StallInv'
<1>. USE TwinAssumption, PeriodAssumption
      DEF Processes, Map, Step, Reset, Cleared, Holders, Living
<1>. QED
  BY DEF StallInv, Patience, TwinInv, TwinTypeOK, MappingInv, Lives, Outside, PairInv, Paired

\* A core that has entered its identifier has a period more until its heartbeat.
LEMMA RegisterCoreStall ==
    ASSUME TwinInv, StallInv, NEW p \in Cores, RegisterCore(p)
    PROVE  StallInv'
<1>. USE TwinAssumption, PeriodAssumption DEF Processes, RegisterCore, Step, Reset, Cleared
<1>. QED
  BY DEF StallInv, Patience, TwinInv, TwinTypeOK

\* Registering counts nothing.
LEMMA RegisterWatchdogStall ==
    ASSUME TwinInv, StallInv, NEW p \in Watchdogs, RegisterWatchdog(p)
    PROVE  StallInv'
<1>. USE TwinAssumption, PeriodAssumption DEF Processes, RegisterWatchdog, Step, Cleared
<1>. QED
  BY DEF StallInv, Patience, TwinInv, TwinTypeOK, MappingInv, Lives, Outside, PairInv, Paired

\* A heartbeat is unseen by every watchdog.
LEMMA EnsurePulseStall ==
    ASSUME TwinInv, StallInv, NEW p \in Cores, EnsurePulse(p)
    PROVE  StallInv'
<1>. USE TwinAssumption, PeriodAssumption
      DEF Processes, EnsurePulse, Step, Reset, LaunchUnlessAlive, Alive, Living
<1>. QED
  BY DEF StallInv, Patience

\* A launched watchdog has seen none.
LEMMA LaunchWatchdogStall ==
    ASSUME TwinInv, StallInv, NEW p \in Cores, LaunchWatchdog(p)
    PROVE  StallInv'
<1>. USE TwinAssumption, PeriodAssumption
      DEF Processes, LaunchWatchdog, Step, Reset, Launch, mapping
<1>a. PICK f \in Watchdogs : f = Fresh(Watchdogs) /\ life[f] = "unborn"
  BY FreshFact
<1>. QED
  BY <1>a DEF StallInv, Patience, TwinInv, TwinTypeOK, PlaceInv, Outside

\* A round of the loop is a heartbeat.
LEMMA CoreLoopStall ==
    ASSUME TwinInv, StallInv, NEW p \in Cores, CoreLoop(p)
    PROVE  StallInv'
<1>. USE TwinAssumption, PeriodAssumption DEF Processes, CoreLoop, Step, Reset, Prompt, Joining
<1>. QED
  BY DEF StallInv, Patience

\* A watchdog that found the core dead kills nobody.
LEMMA FindDeadStall ==
    ASSUME TwinInv, StallInv, NEW p \in Watchdogs, FindDead(p)
    PROVE  StallInv'
<1>. USE TwinAssumption, PeriodAssumption
      DEF Processes, FindDead, Look, Step, Prompt, Joining, Watched, Alive, Living
<1>. QED
  BY DEF StallInv, Patience, TwinInv, TwinTypeOK

\* One more look is one more in the patience with a core, or the first.
LEMMA FindAliveStall ==
    ASSUME TwinInv, StallInv, NEW p \in Watchdogs, FindAlive(p)
    PROVE  StallInv'
<1>. USE TwinAssumption, PeriodAssumption
      DEF Processes, FindAlive, Look, Step, Prompt, Joining, Watched, Alive, Living, Stalled,
          Count
<1>. QED
  BY DEF StallInv, Patience, TwinInv, TwinTypeOK, PairInv, Outside, Paired

\* A running core never uses up the limit: its steps are at most a period apart.
LEMMA FindStalledStall ==
    ASSUME TwinInv, StallInv, NEW p \in Watchdogs, FindStalled(p)
    PROVE  StallInv'
<1>. USE TwinAssumption, PeriodAssumption
      DEF Processes, FindStalled, Look, Step, Prompt, Joining, Watched, Alive, Living, Stalled,
          Count
<1>. QED
  BY DEF StallInv, Patience, TwinInv, TwinTypeOK

\* Who is killed does not run.
LEMMA KillStall ==
    ASSUME TwinInv, StallInv, NEW p \in Watchdogs, Kill(p)
    PROVE  StallInv'
<1>. USE TwinAssumption, PeriodAssumption DEF Processes, Kill, Step, mapping
<1>. QED
  BY DEF StallInv, Patience, TwinInv, TwinTypeOK, KillInv, Lives, CoreAdrift, Adrift, Outside

\* A launched core has its heartbeats before it.
LEMMA LaunchCoreStall ==
    ASSUME TwinInv, StallInv, NEW p \in Watchdogs, LaunchCore(p)
    PROVE  StallInv'
<1>. USE TwinAssumption, PeriodAssumption DEF Processes, LaunchCore, Step, Launch, mapping
<1>a. PICK f \in Cores : f = Fresh(Cores) /\ life[f] = "unborn"
  BY FreshFact
<1>. QED
  BY <1>a DEF StallInv, Patience, TwinInv, TwinTypeOK, PlaceInv, Outside, AloneInv, Lives,
     CoreAdrift, Adrift

\* Who dies or freezes need not be spared.
LEMMA FaultStall ==
    ASSUME TwinInv, StallInv, NEW p \in Processes, NEW fate \in {"dead", "frozen"}, Fault(p, fate)
    PROVE  StallInv'
<1>. USE TwinAssumption, PeriodAssumption DEF Processes, Fault, mapping
<1>. QED
  BY DEF StallInv, Patience

\* Every step keeps the count within the patience.
LEMMA NextStall == TwinInv /\ StallInv /\ [TwinNext]_twinVars => StallInv'
<1>1. SUFFICES ASSUME TwinInv, StallInv, [TwinNext]_twinVars PROVE StallInv'
  OBVIOUS
<1>2. ASSUME NEW c \in Cores, CoreStep(c) PROVE StallInv'
  BY <1>1, <1>2, MapCoreStall, RegisterCoreStall, EnsurePulseStall, LaunchWatchdogStall,
     CoreLoopStall
  DEF CoreStep
<1>3. ASSUME NEW w \in Watchdogs, WatchdogStep(w) PROVE StallInv'
  BY <1>1, <1>3, MapWatchdogStall, RegisterWatchdogStall, FindDeadStall, FindAliveStall,
     FindStalledStall, KillStall, LaunchCoreStall
  DEF WatchdogStep
<1>4. ASSUME NEW p \in Processes, Fault(p, "dead") \/ Fault(p, "frozen") PROVE StallInv'
  BY <1>1, <1>4, FaultStall
<1>5. CASE UNCHANGED twinVars
  BY <1>1, <1>5 DEF twinVars, mapping, StallInv, Patience
<1>. QED
  BY <1>1, <1>2, <1>3, <1>4, <1>5 DEF TwinNext

\* No watchdog kills a core that still runs, while a core takes its steps in time
\* (watchdog_main.cpp:113).
THEOREM KillsJustly == TwinSpec => []KillsOnlyStalled
<1>1. StallInv => KillsOnlyStalled
  BY DEF StallInv, KillsOnlyStalled
<1>. QED
  BY <1>1, InitStall, NextStall, AlwaysTwin, PTL DEF TwinSpec
=============================================================================
