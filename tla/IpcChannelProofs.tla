--------------------------- MODULE IpcChannelProofs ---------------------------
(***************************************************************************)
(* Proofs about IpcChannel, for any number of threads, limits and bounds:  *)
(* its types and then, from one inductive invariant, its three safety      *)
(* invariants.                                                             *)
(***************************************************************************)
EXTENDS IpcChannel, FiniteSetTheorems, SequenceTheorems, TLAPS

-----------------------------------------------------------------------------
(* Types *)

\* What is read from the pipe is a frame, and what is left a sequence of frames.
LEMMA ReadTypes ==
  ASSUME TypeOK, Reading
  PROVE  Head(pipe) \in Frame /\ Tail(pipe) \in Seq(Frame)
BY HeadTailProperties DEF TypeOK, Reading

\* A thread's frame is a frame.
LEMMA FrameType ==
  ASSUME TypeOK, NEW t \in Threads, framed[t] # 0, NEW whole \in BOOLEAN
  PROVE  FrameOf(t, whole) \in Frame
BY IpcAssumption DEF TypeOK, FrameOf, Frame, Nonces

\* A line that is taken in leaves a last nonce, and remembered ones, that are nonces.
LEMMA RememberType ==
  ASSUME TypeOK, NEW n \in Nonces
  PROVE  Remember(n) \subseteq Nonces
BY DEF TypeOK, Remember

\* Every variable has its type at first.
LEMMA InitTypeOK == Init => TypeOK
<1>. SUFFICES ASSUME Init PROVE TypeOK
  OBVIOUS
<1>1. pipe \in Seq(Frame) /\ pending \in Seq(Frame)
  BY EmptySeq DEF Init
<1>2. accepted \in Seq(WholeFrame)
  BY EmptySeq DEF Init
<1>3. epoch \in Epochs /\ 0 \in 0..MaxNonce
  BY IpcAssumption DEF Init, Epochs
<1>. QED
  BY <1>1, <1>2, <1>3 DEF Init, TypeOK

\* Every step of either process keeps the types.
LEMMA NextTypeOK ==
  ASSUME TypeOK, [Next]_vars
  PROVE  TypeOK'
<1>0. 0 \in 0..MaxNonce
  BY IpcAssumption
<1>. USE <1>0, IpcAssumption DEF TypeOK
<1>1. ASSUME NEW t \in Threads, TakeNonce(t) PROVE TypeOK'
  BY <1>1 DEF TakeNonce, auth
<1>2. ASSUME NEW t \in Threads, SendWhole(t) PROVE TypeOK'
  <2>1. PICK frame \in Frame : pipe' = Append(pipe, frame)
    BY <1>2, FrameType DEF SendWhole, Sent
  <2>2. pipe' \in Seq(Frame)
    BY <2>1, AppendProperties
  <2>. QED
    BY <1>2, <2>2 DEF SendWhole, Sent, auth
<1>3. ASSUME NEW t \in Threads, SendPart(t) PROVE TypeOK'
  <2>1. PICK frame \in Frame : \E part \in {<< >>, <<frame>>} : pipe' = pipe \o part
    BY <1>3, FrameType DEF SendPart, Sent
  <2>2. << >> \in Seq(Frame) /\ <<frame>> \in Seq(Frame)
    BY EmptySeq
  <2>3. PICK part \in Seq(Frame) : pipe' = pipe \o part
    BY <2>1, <2>2
  <2>4. pipe' \in Seq(Frame)
    BY <2>3, ConcatProperties
  <2>. QED
    BY <1>3, <2>4 DEF SendPart, Sent, auth
<1>4. ASSUME NEW t \in Threads, SendToDeadHandle(t) PROVE TypeOK'
  BY <1>4 DEF SendToDeadHandle, Sent, auth
<1>5. ASSUME NEW t \in Threads, SendNothing(t) PROVE TypeOK'
  BY <1>5 DEF SendNothing, Sent, auth
<1>6. CASE CoreRestart
  <2>1. epoch' \in Epochs
    BY <1>6 DEF CoreRestart, Epochs
  <2>. QED
    BY <1>6, <2>1 DEF CoreRestart, auth
<1>7. CASE AgentListen
  BY <1>7 DEF AgentListen, core, auth
<1>8. CASE ReadFragment
  BY <1>8, ReadTypes DEF ReadFragment, core, auth
<1>10. CASE RejectStale
  BY <1>10, ReadTypes, EmptySeq DEF RejectStale, ReadLine, core
<1>11. CASE RejectUnverified
  BY <1>11, ReadTypes, EmptySeq DEF RejectUnverified, ReadLine, core, auth
<1>12. CASE Accept
  <2>1. Reading /\ Head(pipe).whole
    BY <1>12 DEF Accept, ReadLine
  <2>2. Head(pipe) \in WholeFrame /\ Tail(pipe) \in Seq(Frame)
    BY <2>1, ReadTypes DEF WholeFrame
  <2>3. Head(pipe).n \in Nonces
    BY <2>2 DEF WholeFrame, Frame
  <2>4. accepted' \in Seq(WholeFrame)
    BY <1>12, <2>2 DEF Accept
  <2>5. pending' \in Seq(Frame) /\ pipe' \in Seq(Frame)
    BY <1>12, <2>2, EmptySeq DEF Accept, ReadLine
  <2>6. last' \in 0..MaxNonce
    BY <1>12, <2>3 DEF Accept, Nonces
  <2>7. seen' \subseteq Nonces
    BY <1>12, <2>3, RememberType DEF Accept
  <2>. QED
    BY <1>12, <2>4, <2>5, <2>6, <2>7 DEF Accept, ReadLine, core
<1>13. CASE AgentEof
  BY <1>13, EmptySeq DEF AgentEof, EndSession, core, auth
<1>14. CASE AgentReadError
  BY <1>14, EmptySeq DEF AgentReadError, EndSession, core, auth
<1>15. CASE AgentRestart
  BY <1>15, EmptySeq DEF AgentRestart, EndSession, core
<1>16. CASE UNCHANGED vars
  BY <1>16 DEF vars
<1>. QED
  BY <1>1, <1>2, <1>3, <1>4, <1>5, <1>6, <1>7, <1>8, <1>10, <1>11, <1>12,
     <1>13, <1>14, <1>15, <1>16 DEF Next, CoreNext, AgentNext

(***************************************************************************)
(* Every variable keeps its type, whatever either process does.            *)
(***************************************************************************)
THEOREM TypeCorrect == Spec => []TypeOK
<1>1. TypeOK /\ [Next]_vars => TypeOK'
  BY NextTypeOK
<1>. QED
  BY InitTypeOK, <1>1, PTL DEF Spec

-----------------------------------------------------------------------------
(* Order *)

\* No frame the agent has taken in has a nonce above the last one it remembers.
AcceptedBelowLast == \A i \in DOMAIN accepted : accepted[i].n <= last

OrderInv == TypeOK /\ AcceptedInOrder /\ AcceptedBelowLast

\* The order is disturbed by Accept, which appends a nonce above the last, and by nothing else.
LEMMA NextOrderInv ==
  ASSUME OrderInv, [Next]_vars
  PROVE  OrderInv'
<1>. USE DEF OrderInv
<1>1. TypeOK'
  BY NextTypeOK
<1>2. CASE UNCHANGED <<last, accepted>>
  BY <1>1, <1>2 DEF AcceptedInOrder, AcceptedBelowLast
<1>3. CASE Accept
  <2>1. DEFINE frame == Head(pipe)
  <2>2. frame \in WholeFrame /\ frame.n \in Nonces
    BY <1>3, ReadTypes DEF Accept, ReadLine, WholeFrame, Frame
  <2>3. /\ accepted' = Append(accepted, frame)
        /\ last' = frame.n
        /\ ~(frame.n <= last)
    BY <1>3 DEF Accept, Stale
  <2>4. /\ DOMAIN accepted = 1..Len(accepted) /\ Len(accepted) \in Nat
        /\ DOMAIN accepted' = 1..(Len(accepted) + 1)
        /\ \A i \in 1..Len(accepted) : accepted'[i] = accepted[i]
        /\ accepted'[Len(accepted) + 1] = frame
    BY <1>1, <2>2, <2>3, AppendProperties, LenProperties DEF TypeOK
  <2>5. \A i \in 1..Len(accepted) : accepted[i].n \in Nat /\ accepted[i].n <= last
    <3>. SUFFICES ASSUME NEW i \in 1..Len(accepted)
                  PROVE  accepted[i].n \in Nat /\ accepted[i].n <= last
      OBVIOUS
    <3>1. accepted[i] \in WholeFrame
      BY ElementOfSeq DEF TypeOK
    <3>. QED
      BY <2>4, <3>1 DEF AcceptedBelowLast, WholeFrame, Frame, Nonces
  <2>6. last \in Nat /\ frame.n \in Nat
    BY <2>2 DEF TypeOK, Nonces
  <2>. HIDE DEF frame
  <2>7. AcceptedBelowLast'
    BY <2>3, <2>4, <2>5, <2>6 DEF AcceptedBelowLast
  <2>8. AcceptedInOrder'
    <3>1. SUFFICES ASSUME NEW i \in DOMAIN accepted', NEW j \in DOMAIN accepted', i < j
                   PROVE  accepted'[i].n < accepted'[j].n
      BY DEF AcceptedInOrder
    <3>2. CASE j = Len(accepted) + 1
      BY <2>3, <2>4, <2>5, <2>6, <3>1, <3>2
    <3>3. CASE j \in 1..Len(accepted)
      BY <2>4, <3>1, <3>3 DEF AcceptedInOrder
    <3>. QED
      BY <2>4, <3>1, <3>2, <3>3
  <2>. QED
    BY <1>1, <2>7, <2>8
<1>4. CASE AgentRestart
  BY <1>1, <1>4 DEF AgentRestart, AcceptedInOrder, AcceptedBelowLast
<1>5. UNCHANGED <<last, accepted>> \/ Accept \/ AgentRestart
  BY DEF Next, CoreNext, AgentNext, vars, auth, TakeNonce, SendWhole, SendPart,
         SendToDeadHandle, SendNothing, CoreRestart, AgentListen, ReadFragment,
         RejectStale, RejectUnverified, AgentEof, AgentReadError
<1>. QED
  BY <1>2, <1>3, <1>4, <1>5

(***************************************************************************)
(* AuthState takes frames in in strictly increasing order of their nonces, *)
(* whatever order the core's threads write them in, across short writes,   *)
(* reconnections and restarts of the core.                                 *)
(***************************************************************************)
THEOREM Ordered == Spec => []AcceptedInOrder
<1>1. Init => OrderInv
  BY InitTypeOK DEF Init, OrderInv, AcceptedInOrder, AcceptedBelowLast
<1>2. OrderInv /\ [Next]_vars => OrderInv'
  BY NextOrderInv
<1>3. OrderInv => AcceptedInOrder
  BY DEF OrderInv
<1>. QED
  BY <1>1, <1>2, <1>3, PTL DEF Spec

-----------------------------------------------------------------------------
(* Framing *)

\* A pipe instance no core is connected to is empty, and so is the agent's pending line.
EmptyUnlessConnected == link \in {"away", "listening"} => pipe = << >> /\ pending = << >>

FramingInv == TypeOK /\ EmptyUnlessConnected /\ NothingFollowsAFragment

(***************************************************************************)
(* A fragment can only be written to a live connection, which holds none,  *)
(* and DisconnectLocked closes it; so the agent has nothing left to read   *)
(* when it comes to the fragment.                                          *)
(***************************************************************************)
LEMMA NextFramingInv ==
  ASSUME FramingInv, [Next]_vars
  PROVE  FramingInv'
<1>. USE DEF FramingInv
<1>1. TypeOK'
  BY NextTypeOK
<1>2. DOMAIN pipe = 1..Len(pipe) /\ Len(pipe) \in Nat
  BY LenProperties DEF TypeOK
<1>3. Connectable => pending = << >> /\ \A i \in 1..Len(pipe) : pipe[i].whole
  <2>1. CASE link = "up"
    BY <1>2, <2>1 DEF NothingFollowsAFragment
  <2>2. CASE link = "listening"
    BY <1>2, <2>2, EmptySeq DEF EmptyUnlessConnected
  <2>. QED
    BY <2>1, <2>2 DEF Connectable
<1>4. ASSUME NEW t \in Threads, SendWhole(t) PROVE FramingInv'
  <2>1. PICK frame \in Frame : frame.whole /\ pipe' = Append(pipe, frame)
    BY <1>4, FrameType DEF SendWhole, Sent, FrameOf
  <2>2. /\ DOMAIN pipe' = 1..(Len(pipe) + 1)
        /\ \A i \in 1..Len(pipe) : pipe'[i] = pipe[i]
        /\ pipe'[Len(pipe) + 1] = frame
    BY <1>1, <2>1, AppendProperties, LenProperties DEF TypeOK
  <2>3. \A i \in DOMAIN pipe' : pipe'[i].whole
    <3>. SUFFICES ASSUME NEW i \in 1..(Len(pipe) + 1) PROVE pipe'[i].whole
      BY <2>2
    <3>1. CASE i \in 1..Len(pipe)
      BY <1>3, <1>4, <2>2, <3>1 DEF SendWhole
    <3>2. CASE i = Len(pipe) + 1
      BY <2>1, <2>2, <3>2
    <3>. QED
      BY <1>2, <3>1, <3>2
  <2>4. pending' = << >> /\ link' = "up"
    BY <1>3, <1>4 DEF SendWhole
  <2>. QED
    BY <1>1, <2>3, <2>4 DEF EmptyUnlessConnected, NothingFollowsAFragment
<1>5. ASSUME NEW t \in Threads, SendPart(t) PROVE FramingInv'
  <2>1. PICK frame \in Frame : pipe' \in {pipe, Append(pipe, frame)}
    <3>1. PICK frame \in Frame : \E part \in {<< >>, <<frame>>} : pipe' = pipe \o part
      BY <1>5, FrameType DEF SendPart, Sent
    <3>. QED
      BY <3>1, ConcatEmptySeq, AppendIsConcat DEF TypeOK
  <2>2. Len(pipe') \in {Len(pipe), Len(pipe) + 1} /\ DOMAIN pipe' = 1..Len(pipe')
    BY <1>1, <2>1, AppendProperties, LenProperties DEF TypeOK
  <2>3. \A i \in 1..Len(pipe) : pipe'[i] = pipe[i]
    BY <2>1, AppendProperties DEF TypeOK
  <2>4. pending' = << >> /\ link' = "eof"
    BY <1>3, <1>5 DEF SendPart
  <2>5. \A i \in DOMAIN pipe' : ~pipe'[i].whole => i = Len(pipe')
    <3>. SUFFICES ASSUME NEW i \in 1..Len(pipe'), ~pipe'[i].whole PROVE i = Len(pipe')
      BY <2>2
    <3>1. ASSUME i \in 1..Len(pipe) PROVE FALSE
      <4>1. pipe[i].whole
        BY <1>3, <1>5, <3>1 DEF SendPart
      <4>2. pipe'[i] = pipe[i]
        BY <2>3, <3>1
      <4>. QED
        BY <4>1, <4>2
    <3>2. i \notin 1..Len(pipe)
      BY <3>1
    <3>3. CASE Len(pipe') = Len(pipe)
      BY <3>2, <3>3
    <3>4. CASE Len(pipe') = Len(pipe) + 1
      BY <1>2, <3>2, <3>4
    <3>. QED
      BY <2>2, <3>3, <3>4
  <2>. QED
    BY <1>1, <2>4, <2>5 DEF EmptyUnlessConnected, NothingFollowsAFragment
<1>6. CASE /\ UNCHANGED <<pipe, pending>>
           /\ \/ link' = link
              \/ link = "up" /\ link' = "eof"
              \/ link = "away" /\ link' = "listening"
  BY <1>1, <1>6 DEF EmptyUnlessConnected, NothingFollowsAFragment
<1>7. CASE Reading /\ pipe' = Tail(pipe) /\ UNCHANGED link /\ (pending' = << >> \/ ReadFragment)
  <2>1. /\ Len(pipe') = Len(pipe) - 1 /\ DOMAIN pipe' = 1..Len(pipe')
        /\ \A i \in 1..Len(pipe') : pipe'[i] = pipe[i + 1]
        /\ Head(pipe) = pipe[1] /\ Len(pipe) >= 1
    BY <1>1, <1>2, <1>7, HeadTailProperties, LenProperties, EmptySeq DEF TypeOK, Reading
  <2>2. \A i \in DOMAIN pipe' : ~pipe'[i].whole => i = Len(pipe') /\ link' = "eof"
    BY <1>2, <1>7, <2>1 DEF NothingFollowsAFragment
  <2>3. CASE ReadFragment
    <3>1. Len(pipe) = 1 /\ link = "eof"
      BY <1>2, <2>1, <2>3 DEF ReadFragment, NothingFollowsAFragment
    <3>2. pipe' = << >> /\ link' = "eof"
      <4>1. Len(pipe') = 0 /\ pipe' \in Seq(Frame)
        BY <1>1, <2>1, <3>1 DEF TypeOK
      <4>. QED
        BY <1>7, <3>1, <4>1, EmptySeq
    <3>. QED
      BY <1>1, <2>2, <3>2 DEF EmptyUnlessConnected, NothingFollowsAFragment
  <2>. QED
    BY <1>1, <1>7, <2>2, <2>3 DEF Reading, EmptyUnlessConnected, NothingFollowsAFragment
<1>8. CASE EndSession
  BY <1>1, <1>8, EmptySeq DEF EndSession, EmptyUnlessConnected, NothingFollowsAFragment
<1>9. CASE UNCHANGED <<pipe, pending, link>>
  BY <1>1, <1>9 DEF EmptyUnlessConnected, NothingFollowsAFragment
<1>10. \/ \E t \in Threads : SendWhole(t) \/ SendPart(t)
       \/ UNCHANGED <<pipe, pending, link>> \/ CoreRestart \/ AgentListen
       \/ Reading /\ pipe' = Tail(pipe) /\ UNCHANGED link /\ (pending' = << >> \/ ReadFragment)
       \/ EndSession
  BY DEF Next, CoreNext, AgentNext, vars, core, auth, TakeNonce, SendToDeadHandle, SendNothing,
         ReadFragment, ReadLine, RejectStale, RejectUnverified, Accept,
         AgentEof, AgentReadError, AgentRestart
<1>11. CASE CoreRestart
  BY <1>6, <1>11 DEF CoreRestart
<1>12. CASE AgentListen
  BY <1>6, <1>12 DEF AgentListen
<1>. QED
  BY <1>4, <1>5, <1>7, <1>8, <1>9, <1>10, <1>11, <1>12

(***************************************************************************)
(* However the core's writes fail, no line the agent parses is made of two *)
(* of them.                                                                *)
(***************************************************************************)
THEOREM Framed == Spec => []NothingFollowsAFragment
<1>1. Init => FramingInv
  BY InitTypeOK DEF Init, FramingInv, EmptyUnlessConnected, NothingFollowsAFragment
<1>2. FramingInv /\ [Next]_vars => FramingInv'
  BY NextFramingInv
<1>3. FramingInv => NothingFollowsAFragment
  BY DEF FramingInv
<1>. QED
  BY <1>1, <1>2, <1>3, PTL DEF Spec

-----------------------------------------------------------------------------
(* The memory of nonces *)

SeenInv == TypeOK /\ seen \subseteq 1..last /\ SeenBounded

\* What Remember returns is bounded: pruned, it lies within a window of at most SeenLimit.
LEMMA RememberBounded ==
  ASSUME SeenInv, NEW n \in Nonces, n > last
  PROVE  /\ Remember(n) \subseteq 1..n
         /\ Cardinality(Remember(n)) <= SeenLimit
<1>. DEFINE grown == seen \cup {n}
            pruned == {m \in grown : m > n - SeenWindow} \cup {n}
<1>1. last \in Nat /\ n \in Nat /\ n >= 1 /\ SeenLimit \in Nat /\ SeenWindow \in Nat
      /\ 1 <= SeenWindow /\ SeenWindow <= SeenLimit
  BY IpcAssumption DEF SeenInv, TypeOK, Nonces
<1>2. grown \subseteq 1..n
  BY <1>1 DEF SeenInv
<1>3. IsFiniteSet(grown) /\ Cardinality(grown) \in Nat
  <2>1. IsFiniteSet(1..n)
    BY <1>1, FS_Interval
  <2>. QED
    BY <1>2, <2>1, FS_Subset, FS_CardinalityType
<1>4. pruned \subseteq 1..n /\ pruned \subseteq (n - SeenWindow + 1)..n
  BY <1>1, <1>2
<1>5. Cardinality(pruned) <= SeenLimit
  <2>1. /\ IsFiniteSet((n - SeenWindow + 1)..n)
        /\ Cardinality((n - SeenWindow + 1)..n) = SeenWindow
    BY <1>1, FS_Interval
  <2>2. IsFiniteSet(pruned) /\ Cardinality(pruned) <= SeenWindow
    BY <1>4, <2>1, FS_Subset
  <2>3. Cardinality(pruned) \in Nat
    BY <2>2, FS_CardinalityType
  <2>. QED
    BY <1>1, <2>2, <2>3
<1>6. Remember(n) = IF Cardinality(grown) > SeenLimit THEN pruned ELSE grown
  BY DEF Remember
<1>. HIDE DEF grown, pruned
<1>. QED
  BY <1>1, <1>2, <1>3, <1>4, <1>5, <1>6

\* Only Accept and a restart of the agent change the memory.
LEMMA NextSeenInv ==
  ASSUME SeenInv, [Next]_vars
  PROVE  SeenInv'
<1>. USE DEF SeenInv
<1>1. TypeOK'
  BY NextTypeOK
<1>2. CASE UNCHANGED <<last, seen>>
  BY <1>1, <1>2 DEF SeenBounded
<1>3. CASE Accept
  <2>1. Head(pipe).n \in Nonces
    BY <1>3, ReadTypes DEF Accept, ReadLine, Frame
  <2>2. Head(pipe).n > last
    BY <1>3, <2>1 DEF Accept, Stale, TypeOK, Nonces
  <2>3. last' = Head(pipe).n /\ seen' = Remember(Head(pipe).n)
    BY <1>3 DEF Accept
  <2>. QED
    BY <1>1, <2>1, <2>2, <2>3, RememberBounded DEF SeenBounded
<1>4. CASE AgentRestart
  BY <1>1, <1>4, FS_EmptySet, IpcAssumption DEF AgentRestart, SeenBounded
<1>5. UNCHANGED <<last, seen>> \/ Accept \/ AgentRestart
  BY DEF Next, CoreNext, AgentNext, vars, auth, TakeNonce, SendWhole, SendPart,
         SendToDeadHandle, SendNothing, CoreRestart, AgentListen, ReadFragment,
         RejectStale, RejectUnverified, AgentEof, AgentReadError
<1>. QED
  BY <1>2, <1>3, <1>4, <1>5

(***************************************************************************)
(* The agent remembers at most SeenLimit nonces.                           *)
(***************************************************************************)
THEOREM Bounded == Spec => []SeenBounded
<1>1. Init => SeenInv
  BY InitTypeOK, FS_EmptySet, IpcAssumption DEF Init, SeenInv, SeenBounded
<1>2. SeenInv /\ [Next]_vars => SeenInv'
  BY NextSeenInv
<1>3. SeenInv => SeenBounded
  BY DEF SeenInv
<1>. QED
  BY <1>1, <1>2, <1>3, PTL DEF Spec
=============================================================================
