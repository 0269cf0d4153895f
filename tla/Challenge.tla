------------------------------ MODULE Challenge ------------------------------
(***************************************************************************)
(* Presence challenges of one session: the handlers that issue, show and   *)
(* verify them (server/src/main.rs) and the agent's poll that answers them *)
(* (client/agent/main.rs).  Sessions share no challenge state.             *)
(*                                                                         *)
(* Challenges are kept as evidence.  Evidence is written to files and to a *)
(* map, but only the map's challenge-active entry is ever read, and a      *)
(* restart does not load it; so that entry is all the state there is.      *)
(* Time advances in ticks, the unit of the constants.                      *)
(***************************************************************************)
EXTENDS Integers, FiniteSets

CONSTANTS
  Handlers,     \* request handlers of the server that may run at once
  Lifetime,     \* of a challenge (60 s)
  PollPeriod,   \* the agent's polls are at most this far apart (its ticks: 15 s)
  MaxFailures,  \* bound: polls that fail, and files that cannot be written
  MaxNonce,     \* bound: challenges issued
  MaxTime,      \* bound: the clock
  None          \* no challenge, no nonce

ASSUME ChallengeAssumption ==
  /\ Lifetime \in Nat /\ PollPeriod \in Nat \ {0}
  /\ MaxFailures \in Nat /\ MaxNonce \in Nat /\ MaxTime \in Nat
  /\ (MaxFailures + 2) * PollPeriod <= Lifetime
  /\ None \notin Nat /\ None \notin [nonce : Nat, expires_at : Nat]

Nonces == 1..MaxNonce

VARIABLES
  now,        \* the clock
  issued,     \* how many nonces were drawn
  active,     \* the challenge-active entry: [nonce, expires_at], or None
  handler,    \* handler[h]: what a handler of the server is at
  agent,      \* the poll: "idle", "polling", "answering" (a nonce) or "awaiting" a verdict
  nonce,      \* the nonce the agent was shown, or None
  polled,     \* when the agent's last poll ended
  failures,   \* history: failures so far
  sent,       \* history: nonces the agent has answered with
  shown,      \* history: nonces the agent was shown
  verified    \* history: challenges a receipt was stored for

vars == <<now, issued, active, handler, agent, nonce, polled, failures, sent, shown, verified>>

Idle == [doing |-> "nothing", challenge |-> None]

Init ==
  /\ now = 0 /\ issued = 0 /\ active = None
  /\ handler = [h \in Handlers |-> Idle]
  /\ agent = "idle" /\ nonce = None /\ polled = 0 /\ failures = 0
  /\ sent = {} /\ shown = {} /\ verified = {}

-----------------------------------------------------------------------------
(* The server *)

\* Mutant: the lifetime is given in seconds where milliseconds are meant.
ExpiresAtOnce(at) == at

ExpiresAt(at) == at + Lifetime

Expired(challenge) == now > challenge.expires_at

Handle(h, from, to) == handler[h].doing = from /\ handler' = [handler EXCEPT ![h] = to]

\* issue_challenge, up to the first file.
Issue(h) ==
  /\ issued < MaxNonce
  /\ issued' = issued + 1
  /\ Handle(h, "nothing", [doing |-> "issuing",
                           challenge |-> [nonce |-> issued', expires_at |-> ExpiresAt(now)]])
  /\ UNCHANGED <<now, active, agent, nonce, polled, failures, sent, shown, verified>>

\* issue_challenge: the challenge becomes the active one and the studio is told.
Activate(h) ==
  /\ Handle(h, "issuing", Idle)
  /\ active' = handler[h].challenge
  /\ UNCHANGED <<now, issued, agent, nonce, polled, failures, sent, shown, verified>>

\* Mutant: any response to an active challenge will do.
AcceptsAny(response) == active # None /\ ~Expired(active)

\* verify_challenge_response: what makes a response good.
Accepts(response) == active # None /\ ~Expired(active) /\ response = active.nonce

\* verify_challenge_response, up to the receipt; the agent's request or a copy of an old one.
Verify(h, response) ==
  /\ response \in sent
  /\ Accepts(response)
  /\ Handle(h, "nothing", [doing |-> "verifying", challenge |-> active])
  /\ UNCHANGED <<now, issued, active, agent, nonce, polled, failures, sent, shown, verified>>

StoreReceipt(h) ==
  /\ Handle(h, "verifying", Idle)
  /\ verified' = verified \cup {handler[h].challenge.nonce}
  /\ UNCHANGED <<now, issued, active, agent, nonce, polled, failures, sent, shown>>

\* The file cannot be written.
StoreFails(h) ==
  /\ failures < MaxFailures /\ failures' = failures + 1
  /\ handler[h].doing # "nothing"
  /\ handler' = [handler EXCEPT ![h] = Idle]
  /\ UNCHANGED <<now, issued, active, agent, nonce, polled, sent, shown, verified>>

\* The process dies and is started again: evidence is not loaded.
Restart ==
  /\ active' = None
  /\ handler' = [h \in Handlers |-> Idle]
  /\ UNCHANGED <<now, issued, agent, nonce, polled, failures, sent, shown, verified>>

-----------------------------------------------------------------------------
(* The agent *)

Agent(from, to) == agent = from /\ agent' = to

PollEnds == agent' = "idle" /\ polled' = now

Poll ==
  /\ Agent("idle", "polling")
  /\ UNCHANGED <<now, issued, active, handler, nonce, polled, failures, sent, shown, verified>>

\* get_active_challenge shows the nonce of a challenge that has not expired ...
Show ==
  /\ active # None /\ ~Expired(active)
  /\ Agent("polling", "answering")
  /\ nonce' = active.nonce
  /\ shown' = shown \cup {active.nonce}
  /\ UNCHANGED <<now, issued, active, handler, polled, failures, sent, verified>>

\* ... and otherwise nothing.
ShowNothing ==
  /\ agent = "polling"
  /\ active # None => Expired(active)
  /\ PollEnds
  /\ UNCHANGED <<now, issued, active, handler, nonce, failures, sent, shown, verified>>

Answer ==
  /\ Agent("answering", "awaiting")
  /\ sent' = sent \cup {nonce}
  /\ UNCHANGED <<now, issued, active, handler, nonce, polled, failures, shown, verified>>

\* The answer to the answer: a receipt, or a refusal that is no failure of the network.
Answered ==
  /\ agent = "awaiting"
  /\ nonce \in verified \/ ~Accepts(nonce)
  /\ \A h \in Handlers : handler[h].doing # "verifying"
  /\ PollEnds
  /\ UNCHANGED <<now, issued, active, handler, nonce, failures, sent, shown, verified>>

\* A request of the poll fails or times out, whatever the server makes of it.
PollFails ==
  /\ failures < MaxFailures /\ failures' = failures + 1
  /\ agent # "idle"
  /\ PollEnds
  /\ UNCHANGED <<now, issued, active, handler, nonce, sent, shown, verified>>

\* Time passes, but not past the agent's next poll; handlers, which await nothing, take
\* less than a tick.
Tick ==
  /\ now < MaxTime
  /\ \A h \in Handlers : handler[h] = Idle
  /\ now < polled + PollPeriod
  /\ now' = now + 1
  /\ UNCHANGED <<issued, active, handler, agent, nonce, polled, failures, sent, shown, verified>>

Next ==
  \/ \E h \in Handlers :
       \/ Issue(h)
       \/ Activate(h)
       \/ \E response \in Nonces : Verify(h, response)
       \/ StoreReceipt(h)
       \/ StoreFails(h)
  \/ Restart
  \/ Poll
  \/ Show
  \/ ShowNothing
  \/ Answer
  \/ Answered
  \/ PollFails
  \/ Tick

Spec == Init /\ [][Next]_vars

-----------------------------------------------------------------------------
(* Properties *)

ChallengeRecord == [nonce : Nonces, expires_at : Nat]

TypeOK ==
  /\ now \in 0..MaxTime /\ polled \in 0..now
  /\ issued \in 0..MaxNonce
  /\ active \in ChallengeRecord \cup {None}
  /\ handler \in [Handlers -> [doing : {"nothing", "issuing", "verifying"},
                               challenge : ChallengeRecord \cup {None}]]
  /\ agent \in {"idle", "polling", "answering", "awaiting"}
  /\ nonce \in Nonces \cup {None}
  /\ agent \in {"answering", "awaiting"} => nonce # None
  /\ failures \in 0..MaxFailures
  /\ sent \subseteq Nonces /\ shown \subseteq Nonces /\ verified \subseteq Nonces

(***************************************************************************)
(* Presence is live: a receipt is only ever stored for a challenge the     *)
(* agent was shown after it was issued; no copy of an earlier answer, sent *)
(* again while another challenge is active, earns one.                     *)
(***************************************************************************)
PresenceIsLive == verified \subseteq shown

(***************************************************************************)
(* An agent that is there is found there: a challenge that stayed active   *)
(* until it expired has been verified, even if polls and writes failed     *)
(* meanwhile (a challenge lives for four of the agent's polling periods).  *)
(***************************************************************************)
AnsweredInTime == active # None /\ Expired(active) => active.nonce \in verified
=============================================================================
