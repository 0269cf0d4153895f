----------------------------- MODULE AgentBridge -----------------------------
(***************************************************************************)
(* The agent's bridge to the control plane: ServerBridge and the two tasks *)
(* that share it under one lock (client/agent/main.rs).  The pipe task     *)
(* queues the findings it reads, polls for challenges and flushes the      *)
(* queue; the poller only polls.  Whoever has the lock keeps it across the *)
(* requests it awaits.                                                     *)
(*                                                                         *)
(* Findings are numbered as the pipe task takes them in.  Timers only say  *)
(* that something is not yet due, so a task may do what is due at any      *)
(* time.  External: the core at the other end of the pipe; the network;    *)
(* the server, which stores batches for the sessions it knows (see         *)
(* ControlPlane) and, when its data directory is lost, forgets them.       *)
(***************************************************************************)
EXTENDS Integers, Sequences, FiniteSets, SequencesExt

CONSTANTS
  Capacity,      \* of the queue, and the server's limit on a batch (200)
  MaxFindings,   \* bound: findings taken in
  MaxSessions,   \* bound: sessions the server opens
  MaxLost        \* bound: stored batches whose answer is lost

ASSUME BridgeAssumption ==
  /\ Capacity \in Nat \ {0}
  /\ MaxFindings \in Nat /\ MaxSessions \in Nat /\ MaxLost \in Nat

Findings == 1..MaxFindings
SessionIds == 1..MaxSessions

VARIABLES
  pipe,       \* what the pipe task is at: "waiting" for a core, "reading", "leaving"
  guard,      \* who has the lock on the bridge and which request it awaits
  queue,      \* ServerBridge.queue
  session,    \* ServerBridge.session_id, 0 for none
  taken,      \* history: how many findings were taken in
  dropped,    \* history: findings dropped because the queue was full
  opened,     \* the server: how many sessions it has opened
  known,      \*   and the sessions it knows
  received,   \* history: findings it has stored, in order, duplicates included
  answered,   \* history: findings of the batches the agent knows to be stored
  lost        \* history: how many answers to stored batches were lost

vars == <<pipe, guard, queue, session, taken, dropped, opened, known, received, answered, lost>>

server == <<opened, known, received, lost>>

(***************************************************************************)
(* A guard is [by, request, for, batch]: by is the task, request the one   *)
(* it awaits, for what the task does with the session ("flush", "poll" or  *)
(* just "open" it, as main does at first), batch the findings in flight.   *)
(***************************************************************************)
Free == [by |-> "nobody", request |-> "none", for |-> "none", batch |-> << >>]

Opening(by, for) == [by |-> by, request |-> "session", for |-> for, batch |-> << >>]

Init ==
  /\ pipe = "waiting"
  /\ guard = Opening("main", "open")
  /\ queue = << >> /\ session = 0
  /\ taken = 0 /\ dropped = {}
  /\ opened = 0 /\ known = {} /\ received = << >>
  /\ answered = {} /\ lost = 0

-----------------------------------------------------------------------------
(* The two tasks *)

\* Mutant: the lock is given up while a request is awaited.
FreeBetweenRequests == guard.by \in {"nobody", "poller"} \/ guard.request = "ingest"

LockFree == guard = Free

\* drain_frames and enqueue: at the capacity, the oldest finding goes.
Enqueue ==
  /\ pipe = "reading" /\ LockFree
  /\ taken < MaxFindings
  /\ taken' = taken + 1
  /\ IF Len(queue) < Capacity
       THEN queue' = Append(queue, taken') /\ dropped' = dropped
       ELSE queue' = Append(Tail(queue), taken') /\ dropped' = dropped \cup {Head(queue)}
  /\ UNCHANGED <<pipe, guard, session, server, answered>>

\* A core connects; the read loop ends; a session that is over waits for the next core.
Connect ==
  /\ pipe = "waiting" /\ guard.by # "main"
  /\ pipe' = "reading"
  /\ UNCHANGED <<guard, queue, session, taken, dropped, server, answered>>

Disconnect ==
  /\ pipe = "reading" /\ guard.by # "pipe"
  /\ pipe' = "leaving"
  /\ UNCHANGED <<guard, queue, session, taken, dropped, server, answered>>

\* What a task goes on to do once it has a session: ask for the challenge ...
PollChallenge(by) ==
  /\ guard' = [by |-> by, request |-> "challenge", for |-> "poll", batch |-> << >>]
  /\ UNCHANGED queue

\* Mutant: the queue is copied and not drained.
SendCopy(by) ==
  /\ guard' = [by |-> by, request |-> "ingest", for |-> "flush", batch |-> queue]
  /\ UNCHANGED queue

\* ... or send all that is queued.
SendQueue(by) ==
  /\ guard' = [by |-> by, request |-> "ingest", for |-> "flush", batch |-> queue]
  /\ queue' = << >>

\* The task is done with the bridge: the lock is free, and a final flush ends the session.
Release ==
  /\ guard' = Free
  /\ pipe' = IF guard.by = "pipe" /\ pipe = "leaving" THEN "waiting" ELSE pipe

\* poll_and_answer_challenge, of either task.
BeginPoll(by) ==
  /\ LockFree
  /\ by = "pipe" => pipe = "reading"
  /\ IF session = 0
       THEN guard' = Opening(by, "poll") /\ UNCHANGED queue
       ELSE PollChallenge(by)
  /\ UNCHANGED <<pipe, session, taken, dropped, server, answered>>

\* flush, when there is something to send.
Flush ==
  /\ queue # << >>
  /\ IF session = 0
       THEN guard' = Opening("pipe", "flush") /\ UNCHANGED queue
       ELSE SendQueue("pipe")
  /\ UNCHANGED <<pipe, session, taken, dropped, server, answered>>

BeginFlush == pipe \in {"reading", "leaving"} /\ LockFree /\ Flush

\* The final flush finds nothing to send.
LeaveAtOnce ==
  /\ pipe = "leaving" /\ LockFree /\ queue = << >>
  /\ Release
  /\ UNCHANGED <<queue, session, taken, dropped, server, answered>>

-----------------------------------------------------------------------------
(* Answers to the request in flight *)

\* ensure_session succeeds, and the task goes on.
SessionOpened ==
  /\ guard.request = "session"
  /\ opened < MaxSessions
  /\ opened' = opened + 1
  /\ known' = known \cup {opened'}
  /\ session' = opened'
  /\ \/ guard.for = "open" /\ Release /\ UNCHANGED queue
     \/ guard.for = "poll" /\ PollChallenge(guard.by) /\ UNCHANGED pipe
     \/ guard.for = "flush" /\ SendQueue(guard.by) /\ UNCHANGED pipe
  /\ UNCHANGED <<taken, dropped, received, lost, answered>>

\* A failed poll of the pipe task, or one that is done, may be followed by its flush.
AfterPoll ==
  \/ Release /\ UNCHANGED <<queue, session, taken, dropped, server, answered>>
  \/ guard.by = "pipe" /\ Flush

\* Any request but an ingest fails or times out.
RequestFails ==
  /\ guard.request \in {"session", "challenge", "response"}
  /\ \/ guard.for = "poll" /\ AfterPoll
     \/ guard.for # "poll" /\ Release
          /\ UNCHANGED <<queue, session, taken, dropped, server, answered>>

\* There is an active challenge, which is answered under the same session.
ChallengeFound ==
  /\ guard.request = "challenge"
  /\ session \in known
  /\ guard' = [guard EXCEPT !.request = "response"]
  /\ UNCHANGED <<pipe, queue, session, taken, dropped, server, answered>>

\* There is none, or it has been answered.
PollDone ==
  /\ guard.request \in {"challenge", "response"}
  /\ session \in known
  /\ AfterPoll

\* Mutant: the batch goes back in the order it is taken from.
RequeueReversed(batch) == Reverse(batch) \o queue

\* requeue: back to the front, in order; what no longer fits is taken off the back.
Requeued(batch) ==
  LET whole == batch \o queue
  IN  IF Len(whole) <= Capacity THEN whole ELSE SubSeq(whole, 1, Capacity)

Requeue ==
  /\ Release
  /\ queue' = Requeued(guard.batch)
  /\ UNCHANGED <<taken, dropped, answered>>

Store ==
  /\ guard.request = "ingest"
  /\ session \in known
  /\ received' = received \o guard.batch
  /\ UNCHANGED <<opened, known>>

IngestAnswered ==
  /\ Store
  /\ answered' = answered \cup Range(guard.batch)
  /\ Release
  /\ UNCHANGED <<queue, session, taken, dropped, lost>>

\* The batch is stored but the answer is an error, is lost or comes too late.
IngestAnswerLost ==
  /\ Store
  /\ lost < MaxLost
  /\ lost' = lost + 1
  /\ Requeue
  /\ UNCHANGED session

IngestFails ==
  /\ guard.request = "ingest"
  /\ Requeue
  /\ UNCHANGED <<session, server>>

\* Mutant: a refused session is kept.
KeepRefusedSession ==
  /\ guard.request = "ingest"
  /\ session \notin known
  /\ Requeue
  /\ UNCHANGED <<session, server>>

\* Mutant: the batch of a refused session is not put back.
DropRefusedBatch ==
  /\ guard.request = "ingest"
  /\ session \notin known
  /\ Release
  /\ session' = 0
  /\ UNCHANGED <<queue, taken, dropped, server, answered>>

\* 404: the session is given up and the next flush opens another.
IngestRefused ==
  /\ guard.request = "ingest"
  /\ session \notin known
  /\ Requeue
  /\ session' = 0
  /\ UNCHANGED server

\* The server loses its data.
ServerForgets ==
  /\ known # {}
  /\ known' = {}
  /\ UNCHANGED <<pipe, guard, queue, session, taken, dropped, opened, received, answered, lost>>

Next ==
  \/ Enqueue
  \/ Connect
  \/ Disconnect
  \/ \E by \in {"pipe", "poller"} : BeginPoll(by)
  \/ BeginFlush
  \/ LeaveAtOnce
  \/ SessionOpened
  \/ RequestFails
  \/ ChallengeFound
  \/ PollDone
  \/ IngestAnswered
  \/ IngestAnswerLost
  \/ IngestFails
  \/ IngestRefused
  \/ ServerForgets

Spec == Init /\ [][Next]_vars

(***************************************************************************)
(* Requests end (they time out after eight seconds); the lock is handed    *)
(* out in the order it is asked for, so the flush tick of a connected core *)
(* gets it; and the server is not away for good: of the requests that are  *)
(* made again and again, some are answered.                                *)
(***************************************************************************)
Fairness ==
  /\ WF_vars(RequestFails \/ PollDone)
  /\ SF_vars(BeginFlush)
  /\ SF_vars(SessionOpened)
  /\ SF_vars(IngestAnswered)
  /\ WF_vars(IngestAnswered \/ IngestAnswerLost \/ IngestFails \/ IngestRefused)
  /\ SF_vars(IngestRefused)

FairSpec == Spec /\ Fairness

-----------------------------------------------------------------------------
(* Properties *)

TypeOK ==
  /\ pipe \in {"waiting", "reading", "leaving"}
  /\ guard \in [by : {"nobody", "main", "pipe", "poller"},
                request : {"none", "session", "challenge", "response", "ingest"},
                for : {"none", "open", "poll", "flush"}, batch : Seq(Findings)]
  /\ queue \in Seq(Findings)
  /\ session \in 0..MaxSessions
  /\ guard.request \in {"challenge", "response", "ingest"} => session # 0
  /\ taken \in 0..MaxFindings /\ dropped \subseteq Findings
  /\ opened \in 0..MaxSessions /\ known \subseteq SessionIds
  /\ received \in Seq(Findings) /\ answered \subseteq Findings /\ lost \in 0..MaxLost

(***************************************************************************)
(* No finding is lost on the way but by the queue's overflow: whatever     *)
(* fails, it is queued, in flight or stored.  In particular requeue never  *)
(* takes one off the back.                                                 *)
(***************************************************************************)
NothingLost ==
  1..taken = dropped \cup Range(queue) \cup Range(guard.batch) \cup Range(received)

(***************************************************************************)
(* Findings are stored in the order they were read, except that one may be *)
(* stored again.                                                           *)
(***************************************************************************)
StoredInOrder ==
  \A i, j \in DOMAIN received :
    i < j /\ received[j] < received[i] => \E k \in 1..(i - 1) : received[k] = received[j]

(***************************************************************************)
(* A batch holds between one finding and the server's limit, and there is  *)
(* always room for it to go back: the queue that was drained into it stays *)
(* empty as long as it is in flight.                                       *)
(***************************************************************************)
BatchFits ==
  /\ guard.request = "ingest" => guard.batch # << >>
  /\ Len(guard.batch) + Len(queue) <= Capacity

\* What the agent knows to be stored it does not send again.
AnsweredNotResent == answered \cap (Range(queue) \cup Range(guard.batch)) = {}

(***************************************************************************)
(* As long as a core stays connected, every finding that is queued is      *)
(* stored in the end, or overflows: through failures, lost answers and the *)
(* loss of the session.                                                    *)
(***************************************************************************)
EventuallyStored ==
  \A finding \in Findings :
    finding \in Range(queue)
      ~> finding \in Range(received) \cup dropped \/ pipe # "reading" \/ opened = MaxSessions
=============================================================================
