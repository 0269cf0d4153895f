------------------------------ MODULE IpcChannel ------------------------------
(***************************************************************************)
(* The local channel from the C++ core to the agent: IpcClient             *)
(* (client/core/ipc.hpp), shared by the core's threads, the named pipe,    *)
(* and the agent's reader and AuthState (client/agent/main.rs), with an    *)
(* HMAC secret configured on both sides.                                   *)
(*                                                                         *)
(* A frame is [epoch, n, whole]: which run of the core made it (ghost),    *)
(* its nonce, and whether all of it was written; only a whole frame ends   *)
(* in a newline.  What the frame says and its MAC, which verifies for      *)
(* every line that is exactly one frame, are left out.                     *)
(***************************************************************************)
EXTENDS Integers, Sequences, FiniteSets

CONSTANTS
  Threads,     \* threads of the core that raise alerts
  SeenLimit,   \* seen_nonces is pruned beyond this (4096)
  SeenWindow,  \* and then keeps this many below the last (2048)
  MaxNonce,    \* bound: frames made by one run of the core
  MaxEpoch     \* bound: runs of the core

ASSUME IpcAssumption ==
  /\ SeenLimit \in Nat /\ SeenWindow \in Nat /\ 1 <= SeenWindow /\ SeenWindow <= SeenLimit
  /\ MaxNonce \in Nat /\ MaxEpoch \in Nat \ {0}

Epochs == 1..MaxEpoch
Nonces == 1..MaxNonce
Frame == [epoch : Epochs, n : Nonces, whole : BOOLEAN]
WholeFrame == {frame \in Frame : frame.whole}

VARIABLES
  epoch,     \* ghost: the current run of the core
  nonce,     \* IpcClient.nonce_
  framed,    \* framed[t]: the nonce thread t took and has not yet sent, or 0
  handle,    \* IpcClient.pipe_ is a valid handle
  link,      \* the agent's end of the pipe
  pipe,      \* what was written and not yet read
  pending,   \* the agent's incomplete line
  last,      \* AuthState.last_nonce
  seen,      \* AuthState.seen_nonces
  accepted,  \* history: frames this run of the agent took in
  refused    \* history: the frames it turned down as "replayed or stale nonce"

core  == <<epoch, nonce, framed, handle>>
auth  == <<last, seen, accepted, refused>>
vars  == <<epoch, nonce, framed, handle, link, pipe, pending, last, seen, accepted, refused>>

(***************************************************************************)
(* link is "away" while the agent has no pipe instance, "listening" while  *)
(* its instance waits for a client, "up" while one is connected, and "eof" *)
(* once that client has closed its handle and the agent has not noticed.   *)
(* The core's handle is dead when handle /\ link # "up".                   *)
(***************************************************************************)
Init ==
  /\ epoch = 1 /\ nonce = 0 /\ framed = [t \in Threads |-> 0] /\ handle = FALSE
  /\ link = "away" /\ pipe = << >> /\ pending = << >>
  /\ last = 0 /\ seen = {} /\ accepted = << >> /\ refused = {}

-----------------------------------------------------------------------------
(* The core *)

\* SendJsonAlert, first critical section: a nonce is taken and the lock given up.
TakeNonce(t) ==
  /\ framed[t] = 0
  /\ nonce < MaxNonce
  /\ nonce' = nonce + 1
  /\ framed' = [framed EXCEPT ![t] = nonce + 1]
  /\ UNCHANGED <<epoch, handle, link, pipe, pending, auth>>

FrameOf(t, whole) == [epoch |-> epoch, n |-> framed[t], whole |-> whole]

\* ConnectLocked succeeds: the handle is live, or an instance is waiting for a client.
Connectable == \/ handle /\ link = "up"
               \/ ~handle /\ link = "listening"

Sent(t) == framed[t] # 0 /\ framed' = [framed EXCEPT ![t] = 0]

\* Second critical section: connect if need be, and WriteFile takes the whole frame.
SendWhole(t) ==
  /\ Sent(t)
  /\ Connectable
  /\ handle' = TRUE
  /\ link' = "up"
  /\ pipe' = Append(pipe, FrameOf(t, TRUE))
  /\ UNCHANGED <<epoch, nonce, pending, auth>>

\* Mutant: a short write does not disconnect.
SendPartKeepingHandle(t) ==
  /\ Sent(t)
  /\ Connectable
  /\ handle' = TRUE
  /\ link' = "up"
  /\ pipe' = Append(pipe, FrameOf(t, FALSE))
  /\ UNCHANGED <<epoch, nonce, pending, auth>>

\* WriteFile fails or is short: part of the frame or nothing, and DisconnectLocked.
SendPart(t) ==
  /\ Sent(t)
  /\ Connectable
  /\ handle' = FALSE
  /\ link' = "eof"
  /\ \E part \in {<< >>, <<FrameOf(t, FALSE)>>} : pipe' = pipe \o part
  /\ UNCHANGED <<epoch, nonce, pending, auth>>

\* The handle is dead: WriteFile fails and DisconnectLocked drops it.
SendToDeadHandle(t) ==
  /\ Sent(t)
  /\ handle /\ link # "up"
  /\ handle' = FALSE
  /\ UNCHANGED <<epoch, nonce, link, pipe, pending, auth>>

\* The MAC cannot be computed, or ConnectLocked gives up: the nonce is spent all the same.
SendNothing(t) ==
  /\ Sent(t)
  /\ UNCHANGED <<epoch, nonce, handle, link, pipe, pending, auth>>

\* The core is stopped or killed and run again (the twin watchdog does so).
CoreRestart ==
  /\ epoch < MaxEpoch
  /\ epoch' = epoch + 1
  /\ nonce' = 0
  /\ framed' = [t \in Threads |-> 0]
  /\ handle' = FALSE
  /\ link' = IF handle /\ link = "up" THEN "eof" ELSE link
  /\ UNCHANGED <<pipe, pending, auth>>

-----------------------------------------------------------------------------
(* The agent *)

AgentListen ==
  /\ link = "away"
  /\ link' = "listening"
  /\ UNCHANGED <<core, pipe, pending, auth>>

Reading == link \in {"up", "eof"} /\ pipe # << >>

\* Mutant: whatever has arrived is taken for a line.
TakeFragmentForLine ==
  /\ Reading
  /\ ~Head(pipe).whole
  /\ pipe' = Tail(pipe)
  /\ accepted' = Append(accepted, Head(pipe))
  /\ UNCHANGED <<core, link, pending, last, seen, refused>>

ReadFragment ==
  /\ Reading
  /\ ~Head(pipe).whole
  /\ pending' = Append(pending, Head(pipe))
  /\ pipe' = Tail(pipe)
  /\ UNCHANGED <<core, link, auth>>

\* A newline arrives: drain_frames takes out the line and pending is empty again.
ReadLine ==
  /\ Reading
  /\ Head(pipe).whole
  /\ pipe' = Tail(pipe)
  /\ pending' = << >>
  /\ UNCHANGED <<core, link>>

\* Mutant: replays are looked for, late frames are not.
Replayed(n) == n \in seen

Stale(n) == n <= last \/ n \in seen

RejectStale ==
  /\ ReadLine
  /\ pending = << >>
  /\ Stale(Head(pipe).n)
  /\ refused' = refused \cup {Head(pipe)}
  /\ UNCHANGED <<last, seen, accepted>>

\* The line does not parse (it is not one frame), the frame took more than max_skew_secs to
\* arrive, or its MAC does not verify: a read that ended inside a character has changed it.
RejectUnverified ==
  /\ ReadLine
  /\ UNCHANGED auth

\* Mutant: the set is never pruned.
RememberAll(n) == seen \cup {n}

\* seen_nonces after the insertion of n, pruned to a window below it when over the limit.
Remember(n) ==
  LET grown == seen \cup {n}
  IN  IF Cardinality(grown) > SeenLimit
        THEN {m \in grown : m > n - SeenWindow} \cup {n}
        ELSE grown

Accept ==
  /\ ReadLine
  /\ pending = << >>
  /\ ~Stale(Head(pipe).n)
  /\ last' = Head(pipe).n
  /\ seen' = Remember(Head(pipe).n)
  /\ accepted' = Append(accepted, Head(pipe))
  /\ UNCHANGED refused

\* The pipe session ends; AuthState outlives it.
EndSession ==
  /\ link' = "away"
  /\ pipe' = << >>
  /\ pending' = << >>

\* Mutant: the read loop does not end at the end of file.
IgnoreEof ==
  /\ link = "eof" /\ pipe = << >>
  /\ UNCHANGED vars

AgentEof ==
  /\ link = "eof" /\ pipe = << >>
  /\ EndSession
  /\ UNCHANGED <<core, auth>>

AgentReadError ==
  /\ link \in {"up", "eof"}
  /\ EndSession
  /\ UNCHANGED <<core, auth>>

\* The agent is stopped or killed and run again.
AgentRestart ==
  /\ EndSession
  /\ last' = 0
  /\ seen' = {}
  /\ accepted' = << >>
  /\ refused' = {}
  /\ UNCHANGED core

CoreNext ==
  \/ \E t \in Threads :
       \/ TakeNonce(t)
       \/ SendWhole(t)
       \/ SendPart(t)
       \/ SendToDeadHandle(t)
       \/ SendNothing(t)
  \/ CoreRestart

AgentNext ==
  \/ AgentListen
  \/ ReadFragment
  \/ RejectStale
  \/ RejectUnverified
  \/ Accept
  \/ AgentEof
  \/ AgentReadError
  \/ AgentRestart

Next == CoreNext \/ AgentNext

Spec == Init /\ [][Next]_vars

(***************************************************************************)
(* The agent's task is never suspended for good: its loop listens again a  *)
(* second after a session has ended, reads what is there and sees the end  *)
(* of file.                                                                *)
(***************************************************************************)
AgentReads == ReadFragment \/ RejectStale \/ RejectUnverified \/ Accept
Fairness == WF_vars(AgentListen) /\ WF_vars(AgentReads) /\ WF_vars(AgentEof)

FairSpec == Spec /\ Fairness

-----------------------------------------------------------------------------
(* Properties *)

TypeOK ==
  /\ epoch \in Epochs
  /\ nonce \in 0..MaxNonce
  /\ framed \in [Threads -> 0..MaxNonce]
  /\ handle \in BOOLEAN
  /\ link \in {"away", "listening", "up", "eof"}
  /\ pipe \in Seq(Frame)
  /\ pending \in Seq(Frame)
  /\ last \in 0..MaxNonce
  /\ seen \subseteq Nonces
  /\ accepted \in Seq(WholeFrame)
  /\ refused \subseteq Frame

(***************************************************************************)
(* Frames are taken in in strictly increasing order of their nonces: none  *)
(* twice, and none after a later one, although two threads of the core may *)
(* write theirs in the other order and the agent forgets old nonces.       *)
(***************************************************************************)
AcceptedInOrder ==
  \A i, j \in DOMAIN accepted : i < j => accepted[i].n < accepted[j].n

(***************************************************************************)
(* No line the agent parses is made of two writes: what a short write left *)
(* behind is always the last thing of its connection.                      *)
(***************************************************************************)
NothingFollowsAFragment ==
  /\ pending # << >> => pipe = << >> /\ link = "eof"
  /\ \A i \in DOMAIN pipe : ~pipe[i].whole => i = Len(pipe) /\ link = "eof"

\* The set of remembered nonces stays within its limit, however long the agent runs.
SeenBounded == Cardinality(seen) <= SeenLimit

(***************************************************************************)
(* The agent never keeps a dead pipe: whatever the core does to the        *)
(* connection, there is again an instance to connect to, or a live client. *)
(***************************************************************************)
AgentComesBack == link \in {"away", "eof"} ~> link \in {"listening", "up"}

(***************************************************************************)
(* Only a nonce that is "replayed or stale" is refused as such: the agent  *)
(* has already taken in that frame, or a later one of the same run of the  *)
(* core.                                                                   *)
(***************************************************************************)
OnlyStaleRefused ==
  \A frame \in refused :
    \E i \in DOMAIN accepted :
      accepted[i].epoch = frame.epoch /\ accepted[i].n >= frame.n
=============================================================================
