--------------------------- MODULE AgentBridgeProofs ---------------------------
(***************************************************************************)
(* For any capacity, and any number of findings, sessions and lost answers *)
(* (BridgeAssumption), whatever fails on the way: no finding is lost but   *)
(* by the queue's overflow, batches fit, findings are stored in the order  *)
(* they were read, and what is known to be stored is not sent again.       *)
(*                                                                         *)
(* The argument: the queue is empty as long as a batch is in flight, so a  *)
(* batch goes back whole; queue and batch are increasing; and whatever is  *)
(* still to be stored was stored before all that came after it, if what    *)
(* came after it is stored at all.                                         *)
(***************************************************************************)
EXTENDS AgentBridge, TLAPS

Increasing(s) == \A i, j \in DOMAIN s : i < j => s[i] < s[j]

\* While a batch is in flight the queue it was drained from stays empty, and a flush that
\* waits for a session has something to send.
SendInv ==
  /\ Len(queue) <= Capacity /\ Len(guard.batch) <= Capacity
  /\ guard.request = "ingest" => guard.batch # << >> /\ queue = << >>
  /\ guard.request # "ingest" => guard.batch = << >>
  /\ guard.request = "session" /\ guard.for = "flush" => queue # << >>

OrderInv == Increasing(queue) /\ Increasing(guard.batch)

\* What is to be stored, and overtaken, is stored already.
NotOvertaken(x, stored) ==
  \A i \in DOMAIN stored : stored[i] > x => \E k \in 1..(i - 1) : stored[k] = x

\* A finding that is stored out of order was stored before.
InOrder(stored) ==
  \A i, j \in DOMAIN stored :
    i < j /\ stored[j] < stored[i] => \E k \in 1..(i - 1) : stored[k] = stored[j]

OvertakenInv ==
  \A x \in Range(queue) \cup Range(guard.batch) : NotOvertaken(x, received)

AnsweredInv == answered \subseteq 1..taken

DataInv ==
  OrderInv /\ OvertakenInv /\ AnsweredInv /\ NothingLost /\ StoredInOrder /\ AnsweredNotResent

IInv == TypeOK /\ SendInv /\ DataInv

-----------------------------------------------------------------------------
(* Sequences of findings.                                                  *)

LEMMA RangeEmpty == Range(<< >>) = {}
BY DEF Range

LEMMA RangeConcat ==
  ASSUME NEW s \in Seq(Nat), NEW t \in Seq(Nat)
  PROVE  Range(s \o t) = Range(s) \cup Range(t)
<1>1. ASSUME NEW x \in Range(s \o t) PROVE x \in Range(s) \cup Range(t)
  BY DEF Range
<1>2. ASSUME NEW x \in Range(s) PROVE x \in Range(s \o t)
  <2>1. PICK i \in DOMAIN s : x = s[i]
    BY DEF Range
  <2>2. i \in DOMAIN (s \o t) /\ (s \o t)[i] = x
    BY <2>1
  <2>. QED
    BY <2>2 DEF Range
<1>3. ASSUME NEW x \in Range(t) PROVE x \in Range(s \o t)
  <2>1. PICK i \in DOMAIN t : x = t[i]
    BY DEF Range
  <2>2. Len(s) + i \in DOMAIN (s \o t) /\ (s \o t)[Len(s) + i] = x
    BY <2>1
  <2>. QED
    BY <2>2 DEF Range
<1>. QED
  BY <1>1, <1>2, <1>3

LEMMA RangeAppend ==
  ASSUME NEW s \in Seq(Nat), NEW x \in Nat
  PROVE  Range(Append(s, x)) = Range(s) \cup {x}
<1>1. ASSUME NEW y \in Range(Append(s, x)) PROVE y \in Range(s) \cup {x}
  BY DEF Range
<1>2. ASSUME NEW y \in Range(s) PROVE y \in Range(Append(s, x))
  <2>1. PICK i \in DOMAIN s : y = s[i]
    BY DEF Range
  <2>2. i \in DOMAIN Append(s, x) /\ Append(s, x)[i] = y
    BY <2>1
  <2>. QED
    BY <2>2 DEF Range
<1>3. x \in Range(Append(s, x))
  <2>1. Len(s) + 1 \in DOMAIN Append(s, x) /\ Append(s, x)[Len(s) + 1] = x
    OBVIOUS
  <2>. QED
    BY <2>1 DEF Range
<1>. QED
  BY <1>1, <1>2, <1>3

LEMMA RangeTail ==
  ASSUME NEW s \in Seq(Nat), s # << >>
  PROVE  Range(s) = {Head(s)} \cup Range(Tail(s))
<1>1. ASSUME NEW x \in Range(s) PROVE x \in {Head(s)} \cup Range(Tail(s))
  <2>1. PICK i \in DOMAIN s : x = s[i]
    BY DEF Range
  <2>2. CASE i = 1
    BY <2>1, <2>2
  <2>3. CASE i # 1
    <3>1. i - 1 \in DOMAIN Tail(s) /\ Tail(s)[i - 1] = x
      BY <2>1, <2>3
    <3>. QED
      BY <3>1 DEF Range
  <2>. QED
    BY <2>2, <2>3
<1>2. Head(s) \in Range(s)
  BY DEF Range
<1>3. ASSUME NEW x \in Range(Tail(s)) PROVE x \in Range(s)
  <2>1. PICK i \in DOMAIN Tail(s) : x = Tail(s)[i]
    BY DEF Range
  <2>2. i + 1 \in DOMAIN s /\ s[i + 1] = x
    BY <2>1
  <2>. QED
    BY <2>2 DEF Range
<1>. QED
  BY <1>1, <1>2, <1>3

LEMMA IncreasingTail ==
  ASSUME NEW s \in Seq(Nat), s # << >>, Increasing(s)
  PROVE  Increasing(Tail(s)) /\ \A x \in Range(Tail(s)) : x # Head(s)
<1>1. \A i \in DOMAIN Tail(s) : i + 1 \in DOMAIN s /\ Tail(s)[i] = s[i + 1]
  OBVIOUS
<1>2. Increasing(Tail(s))
  BY <1>1 DEF Increasing
<1>. QED
  BY <1>1, <1>2 DEF Increasing, Range

LEMMA IncreasingAppend ==
  ASSUME NEW s \in Seq(Nat), NEW x \in Nat, Increasing(s), \A y \in Range(s) : y < x
  PROVE  Increasing(Append(s, x))
BY DEF Increasing, Range

\* A batch is appended to what is stored: nothing is stored out of order, nor is what is in
\* the batch or still to come overtaken.
LEMMA StoreFacts ==
  ASSUME NEW stored \in Seq(Nat), NEW batch \in Seq(Nat), Increasing(batch),
         \A x \in Range(batch) : NotOvertaken(x, stored),
         InOrder(stored)
  PROVE  InOrder(stored \o batch) /\ \A x \in Range(batch) : NotOvertaken(x, stored \o batch)
<1> DEFINE all == stored \o batch
           n == Len(stored)
<1>1. /\ all \in Seq(Nat) /\ n \in Nat /\ DOMAIN all = 1..(n + Len(batch))
      /\ DOMAIN stored = 1..n /\ DOMAIN batch = 1..Len(batch) /\ Len(batch) \in Nat
  OBVIOUS
<1>2. \A i \in DOMAIN all : all[i] \in Nat
  BY <1>1
<1>3. /\ \A i \in DOMAIN stored : i \in DOMAIN all /\ all[i] = stored[i]
      /\ \A i \in DOMAIN all \ DOMAIN stored : i - n \in DOMAIN batch /\ all[i] = batch[i - n]
      /\ \A i \in DOMAIN batch : n + i \in DOMAIN all /\ all[n + i] = batch[i]
  BY <1>1
<1>. HIDE DEF all, n
<1>4. ASSUME NEW x \in Range(batch), NEW i \in DOMAIN all, all[i] > x
      PROVE  \E k \in 1..(i - 1) : all[k] = x
  <2>1. PICK q \in DOMAIN batch : batch[q] = x
    BY <1>4 DEF Range
  <2>2. CASE i \in DOMAIN stored
    <3>1. PICK k \in 1..(i - 1) : stored[k] = x
      BY <1>4, <1>3, <2>2 DEF NotOvertaken
    <3>2. k \in DOMAIN stored
      BY <1>1, <2>2
    <3>. QED
      BY <1>3, <3>1, <3>2
  <2>3. CASE i \notin DOMAIN stored
    <3>1. PICK p \in DOMAIN batch : p = i - n /\ all[i] = batch[p]
      BY <1>3, <2>3
    <3>2. q < p
      <4>1. q \in Nat /\ p \in Nat /\ batch[q] \in Nat /\ batch[p] \in Nat
        BY <1>1
      <4>2. batch[p] > batch[q]
        BY <1>4, <2>1, <3>1
      <4>3. p < q => batch[p] < batch[q]
        BY DEF Increasing
      <4>. QED
        BY <4>1, <4>2, <4>3
    <3>3. n + q \in 1..(i - 1) /\ all[n + q] = x
      <4>1. q \in Nat \ {0} /\ p \in Nat /\ i \in Nat
        BY <1>1
      <4>. QED
        BY <1>1, <1>3, <2>1, <3>1, <3>2, <4>1
    <3>. QED
      BY <3>3
  <2>. QED
    BY <2>2, <2>3
<1>5. ASSUME NEW i \in DOMAIN all, NEW j \in DOMAIN all, i < j, all[j] < all[i]
      PROVE  \E k \in 1..(i - 1) : all[k] = all[j]
  <2>1. CASE j \in DOMAIN stored
    <3>1. i \in DOMAIN stored /\ stored[j] < stored[i]
      BY <1>1, <1>5, <1>3, <2>1
    <3>2. PICK k \in 1..(i - 1) : stored[k] = stored[j]
      BY <1>5, <2>1, <3>1 DEF InOrder
    <3>3. k \in DOMAIN stored
      BY <1>1, <3>1
    <3>. QED
      BY <1>3, <2>1, <3>2, <3>3
  <2>2. CASE j \notin DOMAIN stored
    <3>1. all[j] \in Range(batch)
      BY <1>3, <2>2 DEF Range
    <3>2. all[i] > all[j]
      <4>1. all[i] \in Nat /\ all[j] \in Nat
        BY <1>2
      <4>. QED
        BY <1>5, <4>1
    <3>. QED
      BY <1>4, <3>1, <3>2
  <2>. QED
    BY <2>1, <2>2
<1>. QED
  BY <1>4, <1>5 DEF NotOvertaken, InOrder, all

-----------------------------------------------------------------------------
(* What a step does with the findings.                                     *)

LEMMA Types ==
  ASSUME TypeOK
  PROVE  /\ queue \in Seq(Nat) /\ guard.batch \in Seq(Nat) /\ received \in Seq(Nat)
         /\ taken \in Nat /\ answered \subseteq Nat /\ dropped \subseteq Nat
BY BridgeAssumption DEF TypeOK, Findings

\* Nothing.
LEMMA DataSame ==
  ASSUME DataInv, queue' = queue, guard'.batch = guard.batch,
         UNCHANGED <<received, answered, dropped, taken>>
  PROVE  DataInv'
BY DEF DataInv, OrderInv, OvertakenInv, NotOvertaken, AnsweredInv, NothingLost, StoredInOrder,
       AnsweredNotResent, Increasing

\* The queue becomes the batch.
LEMMA DataSent ==
  ASSUME DataInv, guard.batch = << >>, guard'.batch = queue, queue' = << >>,
         UNCHANGED <<received, answered, dropped, taken>>
  PROVE  DataInv'
<1>1. Range(queue') \cup Range(guard'.batch) = Range(queue) \cup Range(guard.batch)
  BY RangeEmpty
<1>2. OrderInv'
  BY DEF DataInv, OrderInv, Increasing
<1>3. OvertakenInv'
  BY <1>1 DEF DataInv, OvertakenInv, NotOvertaken
<1>4. NothingLost' /\ AnsweredNotResent'
  BY <1>1 DEF DataInv, NothingLost, AnsweredNotResent
<1>. QED
  BY <1>2, <1>3, <1>4 DEF DataInv, AnsweredInv, StoredInOrder

\* The batch is stored.
LEMMA DataStored ==
  ASSUME TypeOK, DataInv, received' = received \o guard.batch
  PROVE  /\ \A x \in Range(guard.batch) : NotOvertaken(x, received')
         /\ StoredInOrder'
<1>1. PICK stored \in Seq(Nat), batch \in Seq(Nat) : stored = received /\ batch = guard.batch
  BY Types
<1>2. /\ Increasing(batch) /\ InOrder(stored)
      /\ \A x \in Range(batch) : NotOvertaken(x, stored)
  BY <1>1 DEF DataInv, OrderInv, OvertakenInv, StoredInOrder, InOrder
<1>3. InOrder(stored \o batch) /\ \A x \in Range(batch) : NotOvertaken(x, stored \o batch)
  BY <1>2, StoreFacts
<1>4. received' = stored \o batch
  BY <1>1
<1>5. StoredInOrder' <=> InOrder(received')
  BY DEF StoredInOrder, InOrder
<1>. QED
  BY <1>1, <1>3, <1>4, <1>5

\* The batch becomes the queue, and has been stored or has not.
LEMMA DataBack ==
  ASSUME TypeOK, DataInv, queue = << >>, guard'.batch = << >>, queue' = guard.batch,
         received' \in {received, received \o guard.batch},
         UNCHANGED <<answered, dropped, taken>>
  PROVE  DataInv'
<1>1. Range(queue') \cup Range(guard'.batch) = Range(queue) \cup Range(guard.batch)
  BY RangeEmpty
<1>2. OrderInv'
  BY DEF DataInv, OrderInv, Increasing
<1>3. AnsweredNotResent' /\ AnsweredInv'
  BY <1>1 DEF DataInv, AnsweredNotResent, AnsweredInv
<1>4. CASE received' = received
  <2>1. OvertakenInv'
    BY <1>1, <1>4 DEF DataInv, OvertakenInv, NotOvertaken
  <2>2. NothingLost' /\ StoredInOrder'
    BY <1>1, <1>4 DEF DataInv, NothingLost, StoredInOrder
  <2>. QED
    BY <1>2, <1>3, <2>1, <2>2 DEF DataInv
<1>5. CASE received' = received \o guard.batch
  <2>1. Range(received') = Range(received) \cup Range(guard.batch)
    BY <1>5, Types, RangeConcat
  <2>2. NothingLost'
    BY <1>1, <2>1 DEF DataInv, NothingLost
  <2>3. OvertakenInv' /\ StoredInOrder'
    <3>1. /\ \A x \in Range(guard.batch) : NotOvertaken(x, received')
          /\ StoredInOrder'
      BY <1>5, DataStored
    <3>2. Range(queue') = Range(guard.batch) /\ Range(guard'.batch) = {}
      BY RangeEmpty
    <3>. QED
      BY <3>1, <3>2 DEF OvertakenInv, NotOvertaken
  <2>. QED
    BY <1>2, <1>3, <2>2, <2>3 DEF DataInv
<1>. QED
  BY <1>4, <1>5

\* The batch is stored, and known to be.
LEMMA DataAnswered ==
  ASSUME TypeOK, DataInv, queue = << >>, guard'.batch = << >>, queue' = << >>,
         received' = received \o guard.batch,
         answered' = answered \cup Range(guard.batch), UNCHANGED <<dropped, taken>>
  PROVE  DataInv'
<1>1. Range(queue') = {} /\ Range(guard'.batch) = {} /\ Range(queue) = {}
  BY RangeEmpty
<1>2. OrderInv' /\ OvertakenInv' /\ AnsweredNotResent'
  BY <1>1 DEF OrderInv, OvertakenInv, AnsweredNotResent, Increasing
<1>3. Range(received') = Range(received) \cup Range(guard.batch)
  BY Types, RangeConcat
<1>4. NothingLost' /\ AnsweredInv'
  BY <1>1, <1>3 DEF DataInv, NothingLost, AnsweredInv
<1>5. StoredInOrder'
  BY DataStored
<1>. QED
  BY <1>2, <1>4, <1>5 DEF DataInv

\* One more is taken in; at the capacity the oldest goes.
LEMMA DataEnqueued ==
  ASSUME TypeOK, DataInv, guard.batch = << >>, guard' = guard, taken' = taken + 1,
         \/ queue' = Append(queue, taken') /\ dropped' = dropped
         \/ /\ queue # << >> /\ queue' = Append(Tail(queue), taken')
            /\ dropped' = dropped \cup {Head(queue)},
         UNCHANGED <<received, answered>>
  PROVE  DataInv'
<1>1. /\ queue \in Seq(Nat) /\ received \in Seq(Nat) /\ taken \in Nat /\ taken' \in Nat
      /\ answered \subseteq Nat
  BY Types
<1>2. Range(guard.batch) = {} /\ Range(guard'.batch) = {}
  BY RangeEmpty
<1>3. /\ \A x \in Range(queue) \cup Range(received) \cup dropped : x \in 1..taken
      /\ \A x \in 1..taken : x < taken' /\ x # taken'
  BY <1>1 DEF DataInv, NothingLost
<1>4. PICK rest \in Seq(Nat) :
        /\ queue' = Append(rest, taken') /\ Increasing(rest)
        /\ Range(rest) \subseteq Range(queue)
        /\ Range(queue) \cup dropped = Range(rest) \cup dropped'
  <2>1. CASE queue' = Append(queue, taken') /\ dropped' = dropped
    BY <1>1, <2>1 DEF DataInv, OrderInv
  <2>2. CASE /\ queue # << >> /\ queue' = Append(Tail(queue), taken')
             /\ dropped' = dropped \cup {Head(queue)}
    <3>1. /\ Tail(queue) \in Seq(Nat) /\ Increasing(Tail(queue))
          /\ Range(queue) = {Head(queue)} \cup Range(Tail(queue))
      BY <1>1, <2>2, RangeTail, IncreasingTail DEF DataInv, OrderInv
    <3>. QED
      BY <2>2, <3>1
  <2>. QED
    BY <2>1, <2>2
<1>5. Range(queue') = Range(rest) \cup {taken'}
  BY <1>1, <1>4, RangeAppend
<1>6. OrderInv'
  <2>1. Increasing(queue')
    BY <1>1, <1>3, <1>4, IncreasingAppend
  <2>. QED
    BY <2>1 DEF DataInv, OrderInv, Increasing
<1>7. OvertakenInv'
  <2>1. ASSUME NEW x \in Range(queue') PROVE NotOvertaken(x, received)
    <3>1. CASE x = taken'
      <4>1. \A i \in DOMAIN received : received[i] \in 1..taken
        BY <1>3 DEF Range
      <4>2. \A i \in DOMAIN received : ~(received[i] > taken')
        BY <1>1, <4>1
      <4>. QED
        BY <3>1, <4>2 DEF NotOvertaken
    <3>2. CASE x # taken'
      BY <1>4, <1>5, <2>1, <3>2 DEF DataInv, OvertakenInv
    <3>. QED
      BY <3>1, <3>2
  <2>. QED
    BY <1>2, <2>1 DEF OvertakenInv, NotOvertaken
<1>8. NothingLost'
  <2>1. 1..taken' = 1..taken \cup {taken'}
    BY <1>1
  <2>. QED
    BY <1>2, <1>4, <1>5, <2>1 DEF DataInv, NothingLost
<1>9. AnsweredInv' /\ AnsweredNotResent'
  <2>1. answered \subseteq 1..taken'
    BY <1>1 DEF DataInv, AnsweredInv
  <2>2. answered \cap (Range(rest) \cup {taken'}) = {}
    BY <1>1, <1>3, <1>4 DEF DataInv, AnsweredInv, AnsweredNotResent
  <2>. QED
    BY <1>2, <1>5, <2>1, <2>2 DEF AnsweredInv, AnsweredNotResent
<1>. QED
  BY <1>6, <1>7, <1>8, <1>9 DEF DataInv, StoredInOrder

-----------------------------------------------------------------------------
(* What a step does with the lock and the session.                         *)

LEMMA InitInv == Init => IInv
<1>. SUFFICES ASSUME Init PROVE IInv
  OBVIOUS
<1>1. /\ queue = << >> /\ guard.batch = << >> /\ received = << >> /\ taken = 0
      /\ answered = {} /\ dropped = {}
  BY DEF Init, Opening
<1>2. TypeOK /\ SendInv
  BY BridgeAssumption DEF Init, Opening, TypeOK, SendInv
<1>3. DataInv
  BY <1>1, RangeEmpty
  DEF DataInv, OrderInv, Increasing, OvertakenInv, AnsweredInv, NothingLost, StoredInOrder,
      AnsweredNotResent
<1>. QED
  BY <1>2, <1>3 DEF IInv

\* A step that moves the lock on, and no finding.
LEMMA QuietStep ==
  ASSUME IInv, TypeOK', queue' = queue, guard'.batch = << >>, guard.batch = << >>,
         guard'.request # "ingest",
         guard'.request = "session" /\ guard'.for = "flush" => queue # << >>,
         UNCHANGED <<received, answered, dropped, taken>>
  PROVE  IInv'
<1>1. DataInv'
  BY DataSame DEF IInv
<1>2. SendInv'
  BY BridgeAssumption DEF IInv, SendInv
<1>. QED
  BY <1>1, <1>2 DEF IInv

\* A step that sends what is queued.
LEMMA SendStep ==
  ASSUME IInv, TypeOK', guard.batch = << >>, queue # << >>, SendQueue("pipe"),
         UNCHANGED <<received, answered, dropped, taken>>
  PROVE  IInv'
<1>1. guard'.batch = queue /\ queue' = << >> /\ guard'.request = "ingest"
  BY DEF SendQueue
<1>2. DataInv'
  BY <1>1, DataSent DEF IInv
<1>3. SendInv'
  BY <1>1, BridgeAssumption DEF IInv, SendInv
<1>. QED
  BY <1>2, <1>3 DEF IInv

LEMMA NotIngesting ==
  ASSUME IInv, guard.request # "ingest" PROVE guard.batch = << >>
BY DEF IInv, SendInv

LEMMA FlushInv ==
  ASSUME IInv, guard.request # "ingest", Flush PROVE IInv'
<1>1. guard.batch = << >>
  BY NotIngesting
<1>2. /\ queue # << >>
      /\ UNCHANGED <<pipe, session, taken, dropped, opened, known, received, lost, answered>>
  BY DEF Flush, server
<1>3. CASE guard' = Opening("pipe", "flush") /\ UNCHANGED queue
  <2>1. TypeOK'
    BY <1>2, <1>3 DEF IInv, TypeOK, Opening
  <2>. QED
    BY <1>1, <1>2, <1>3, <2>1, QuietStep DEF Opening
<1>4. CASE session # 0 /\ SendQueue("pipe")
  <2>1. TypeOK'
    BY <1>2, <1>4 DEF IInv, TypeOK, SendQueue
  <2>. QED
    BY <1>1, <1>2, <1>4, <2>1, SendStep
<1>. QED
  BY <1>3, <1>4 DEF Flush

LEMMA ReleaseType ==
  ASSUME TypeOK, Release
  PROVE  /\ pipe' \in {"waiting", "reading", "leaving"}
         /\ guard' \in [by : {"nobody", "main", "pipe", "poller"},
                        request : {"none", "session", "challenge", "response", "ingest"},
                        for : {"none", "open", "poll", "flush"}, batch : Seq(Findings)]
         /\ guard'.request = "none" /\ guard'.batch = << >>
BY DEF TypeOK, Release, Free

LEMMA ReleaseInv ==
  ASSUME IInv, guard.request # "ingest", Release,
         UNCHANGED <<queue, session, taken, dropped, server, answered>>
  PROVE  IInv'
<1>1. TypeOK'
  BY ReleaseType DEF IInv, TypeOK, server
<1>. QED
  BY <1>1, ReleaseType, NotIngesting, QuietStep DEF IInv, server

LEMMA AfterPollInv ==
  ASSUME IInv, guard.request # "ingest", AfterPoll PROVE IInv'
BY FlushInv, ReleaseInv DEF AfterPoll

LEMMA EnqueueInv == ASSUME IInv, Enqueue PROVE IInv'
<1>1. /\ guard = Free /\ guard.batch = << >> /\ guard.request = "none" /\ taken < MaxFindings
      /\ taken' = taken + 1 /\ taken' \in Findings
      /\ UNCHANGED <<pipe, guard, session, opened, known, received, lost, answered>>
      /\ queue \in Seq(Findings) /\ Len(queue) <= Capacity /\ Len(queue) \in Nat
      /\ taken \in 0..MaxFindings /\ MaxFindings \in Nat
  BY BridgeAssumption
  DEF Enqueue, LockFree, Free, server, IInv, TypeOK, SendInv, Findings
<1>2. \/ Len(queue) < Capacity /\ queue' = Append(queue, taken') /\ dropped' = dropped
      \/ /\ queue # << >> /\ queue' = Append(Tail(queue), taken')
         /\ dropped' = dropped \cup {Head(queue)} /\ Head(queue) \in Findings
  BY <1>1, BridgeAssumption DEF Enqueue
<1>3. DataInv'
  BY <1>1, <1>2, DataEnqueued DEF IInv
<1>4. queue' \in Seq(Findings) /\ Len(queue') <= Capacity /\ dropped' \subseteq Findings
  <2>1. dropped \subseteq Findings
    BY DEF IInv, TypeOK
  <2>2. CASE Len(queue) < Capacity /\ queue' = Append(queue, taken') /\ dropped' = dropped
    BY <1>1, <2>1, <2>2, BridgeAssumption
  <2>3. CASE /\ queue # << >> /\ queue' = Append(Tail(queue), taken')
             /\ dropped' = dropped \cup {Head(queue)} /\ Head(queue) \in Findings
    <3>1. Tail(queue) \in Seq(Findings) /\ Len(Tail(queue)) = Len(queue) - 1
      BY <1>1, <2>3
    <3>2. dropped' \subseteq Findings
      BY <2>1, <2>3
    <3>3. PICK rest \in Seq(Findings), x \in Findings : rest = Tail(queue) /\ x = taken'
      BY <1>1, <3>1
    <3>4. Append(rest, x) \in Seq(Findings) /\ Len(Append(rest, x)) = Len(rest) + 1
      OBVIOUS
    <3>5. queue' = Append(rest, x) /\ Len(rest) = Len(queue) - 1
      BY <2>3, <3>1, <3>3
    <3>. QED
      BY <1>1, <3>2, <3>4, <3>5, BridgeAssumption
  <2>. QED
    BY <1>2, <2>2, <2>3
<1>5. TypeOK'
  BY <1>1, <1>4 DEF IInv, TypeOK
<1>6. SendInv'
  BY <1>1, <1>4 DEF IInv, SendInv
<1>. QED
  BY <1>3, <1>5, <1>6 DEF IInv

LEMMA SessionOpenedInv == ASSUME IInv, SessionOpened PROVE IInv'
<1>1. /\ guard.request = "session" /\ guard.batch = << >>
      /\ session' \in 1..MaxSessions /\ opened' \in 0..MaxSessions /\ known' \subseteq SessionIds
      /\ UNCHANGED <<taken, dropped, received, lost, answered>>
  BY NotIngesting, BridgeAssumption DEF SessionOpened, IInv, TypeOK, SessionIds
<1>2. CASE Release /\ UNCHANGED queue
  <2>1. TypeOK'
    BY <1>1, <1>2, ReleaseType DEF IInv, TypeOK
  <2>. QED
    BY <1>1, <1>2, <2>1, ReleaseType, QuietStep DEF IInv
<1>3. CASE PollChallenge(guard.by) /\ UNCHANGED pipe
  <2>1. TypeOK'
    BY <1>1, <1>3 DEF IInv, TypeOK, PollChallenge
  <2>. QED
    BY <1>1, <1>3, <2>1, QuietStep DEF PollChallenge
<1>4. CASE guard.for = "flush" /\ SendQueue(guard.by) /\ UNCHANGED pipe
  <2>1. queue # << >>
    BY <1>1, <1>4 DEF IInv, SendInv
  <2>2. TypeOK'
    BY <1>1, <1>4 DEF IInv, TypeOK, SendQueue
  <2>3. guard'.batch = queue /\ queue' = << >> /\ guard'.request = "ingest"
    BY <1>4 DEF SendQueue
  <2>4. DataInv'
    BY <1>1, <2>3, DataSent DEF IInv
  <2>5. SendInv'
    BY <2>1, <2>3, BridgeAssumption DEF IInv, SendInv
  <2>. QED
    BY <2>2, <2>4, <2>5 DEF IInv
<1>. QED
  BY <1>2, <1>3, <1>4 DEF SessionOpened

\* A batch that goes back fits, because the queue is empty.
LEMMA RequeueFacts ==
  ASSUME IInv, guard.request = "ingest", Requeue
  PROVE  /\ queue = << >> /\ queue' = guard.batch /\ guard'.batch = << >>
         /\ guard'.request = "none"
         /\ UNCHANGED <<taken, dropped, answered>>
         /\ SendInv'
<1>1. /\ queue = << >> /\ Len(guard.batch) <= Capacity
      /\ guard.batch \in Seq(Findings)
  BY DEF IInv, SendInv, TypeOK
<1>2. guard.batch \o queue = guard.batch
  BY <1>1
<1>3. queue' = guard.batch
  BY <1>1, <1>2 DEF Requeue, Requeued
<1>4. guard'.batch = << >> /\ guard'.request = "none"
  BY ReleaseType DEF Requeue, IInv
<1>5. SendInv'
  BY <1>1, <1>3, <1>4, BridgeAssumption DEF SendInv
<1>. QED
  BY <1>1, <1>3, <1>4, <1>5 DEF Requeue

LEMMA RequeueInv ==
  ASSUME IInv, guard.request = "ingest", Requeue,
         received' \in {received, received \o guard.batch}, session' \in {0, session},
         UNCHANGED <<opened, known>>, lost' \in 0..MaxLost
  PROVE  IInv'
<1>1. /\ queue = << >> /\ queue' = guard.batch /\ guard'.batch = << >>
      /\ UNCHANGED <<taken, dropped, answered>> /\ SendInv'
  BY RequeueFacts
<1>2. received' \in Seq(Findings)
  <2>1. received \in Seq(Findings) /\ guard.batch \in Seq(Findings)
    BY DEF IInv, TypeOK
  <2>2. received \o guard.batch \in Seq(Findings)
    BY <2>1
  <2>. QED
    BY <2>1, <2>2
<1>3. TypeOK'
  BY <1>1, <1>2, ReleaseType, BridgeAssumption DEF IInv, TypeOK, Requeue
<1>4. DataInv'
  BY <1>1, DataBack DEF IInv
<1>. QED
  BY <1>1, <1>3, <1>4 DEF IInv

LEMMA IngestAnsweredInv == ASSUME IInv, IngestAnswered PROVE IInv'
<1>1. /\ guard.request = "ingest" /\ queue = << >> /\ queue' = << >>
      /\ received' = received \o guard.batch /\ answered' = answered \cup Range(guard.batch)
      /\ Release /\ UNCHANGED <<session, taken, dropped, lost, opened, known>>
  BY DEF IngestAnswered, Store, IInv, SendInv
<1>2. received' \in Seq(Findings) /\ answered' \subseteq Findings
  BY <1>1 DEF IInv, TypeOK, Range
<1>3. TypeOK'
  BY <1>1, <1>2, ReleaseType DEF IInv, TypeOK
<1>4. guard'.batch = << >> /\ guard'.request = "none"
  BY <1>1, ReleaseType DEF IInv
<1>5. DataInv'
  BY <1>1, <1>4, DataAnswered DEF IInv
<1>6. SendInv'
  BY <1>1, <1>4, BridgeAssumption DEF SendInv
<1>. QED
  BY <1>3, <1>5, <1>6 DEF IInv

LEMMA NextInv == IInv /\ [Next]_vars => IInv'
<1>. SUFFICES ASSUME IInv, [Next]_vars PROVE IInv'
  OBVIOUS
<1>1. CASE Connect \/ Disconnect \/ ServerForgets
  <2>1. /\ UNCHANGED <<guard, queue, session, taken, dropped, opened, received, answered, lost>>
        /\ pipe' \in {"waiting", "reading", "leaving"} /\ known' \subseteq SessionIds
    BY <1>1 DEF Connect, Disconnect, ServerForgets, server, IInv, TypeOK
  <2>2. TypeOK' /\ SendInv'
    BY <2>1 DEF IInv, TypeOK, SendInv
  <2>3. DataInv'
    BY <2>1, DataSame DEF IInv
  <2>. QED
    BY <2>2, <2>3 DEF IInv
<1>2. ASSUME NEW by \in {"pipe", "poller"}, BeginPoll(by) PROVE IInv'
  <2>1. /\ guard.batch = << >>
        /\ \/ guard' = Opening(by, "poll")
           \/ session # 0 /\ PollChallenge(by)
        /\ UNCHANGED <<pipe, queue, session, taken, dropped, opened, known, received, lost,
                       answered>>
    BY <1>2 DEF BeginPoll, LockFree, Free, server, PollChallenge
  <2>2. TypeOK'
    BY <2>1 DEF IInv, TypeOK, Opening, PollChallenge
  <2>. QED
    BY <2>1, <2>2, QuietStep DEF Opening, PollChallenge
<1>3. CASE BeginFlush
  BY <1>3, FlushInv DEF BeginFlush, LockFree, Free
<1>4. CASE LeaveAtOnce
  BY <1>4, ReleaseInv DEF LeaveAtOnce, LockFree, Free
<1>5. CASE RequestFails
  BY <1>5, AfterPollInv, ReleaseInv DEF RequestFails
<1>6. CASE ChallengeFound
  <2>1. /\ guard.request = "challenge" /\ guard.batch = << >>
        /\ UNCHANGED <<pipe, queue, session, taken, dropped, opened, known, received, lost,
                       answered>>
    BY <1>6, NotIngesting DEF ChallengeFound, server
  <2>2. TypeOK' /\ guard'.request = "response" /\ guard'.batch = << >>
    BY <1>6, <2>1 DEF ChallengeFound, IInv, TypeOK
  <2>. QED
    BY <2>1, <2>2, QuietStep
<1>7. CASE PollDone
  BY <1>7, AfterPollInv DEF PollDone
<1>8. CASE IngestAnswerLost
  <2>1. lost' \in 0..MaxLost
    BY <1>8, BridgeAssumption DEF IngestAnswerLost, IInv, TypeOK
  <2>. QED
    BY <1>8, <2>1, RequeueInv DEF IngestAnswerLost, Store
<1>9. CASE IngestFails \/ IngestRefused
  <2>1. lost' \in 0..MaxLost
    BY <1>9 DEF IngestFails, IngestRefused, server, IInv, TypeOK
  <2>. QED
    BY <1>9, <2>1, RequeueInv DEF IngestFails, IngestRefused, server
<1>10. CASE UNCHANGED vars
  <2>1. TypeOK' /\ SendInv'
    BY <1>10 DEF vars, IInv, TypeOK, SendInv
  <2>2. DataInv'
    BY <1>10, DataSame DEF vars, IInv
  <2>. QED
    BY <2>1, <2>2 DEF IInv
<1>. QED
  BY <1>1, <1>2, <1>3, <1>4, <1>5, <1>6, <1>7, <1>8, <1>9, <1>10, EnqueueInv, SessionOpenedInv,
     IngestAnsweredInv DEF Next

LEMMA Always == Spec => []IInv
BY InitInv, NextInv, PTL DEF Spec

\* The state is well typed, whatever fails.
THEOREM TypeCorrect == Spec => []TypeOK
<1>1. IInv => TypeOK
  BY DEF IInv
<1>. QED
  BY <1>1, Always, PTL

\* No finding is lost but by the overflow of the queue (main.rs, enqueue and requeue).
THEOREM Complete == Spec => []NothingLost
<1>1. IInv => NothingLost
  BY DEF IInv, DataInv
<1>. QED
  BY <1>1, Always, PTL

\* Findings are stored in the order they were read, except that one may be stored again.
THEOREM InOrderOfReading == Spec => []StoredInOrder
<1>1. IInv => StoredInOrder
  BY DEF IInv, DataInv
<1>. QED
  BY <1>1, Always, PTL

\* A batch holds between one finding and the limit, and there is room for it to go back.
THEOREM Fitting == Spec => []BatchFits
<1>1. IInv => BatchFits
  BY BridgeAssumption DEF IInv, SendInv, BatchFits, TypeOK
<1>. QED
  BY <1>1, Always, PTL

\* What the agent knows to be stored it does not send again.
THEOREM NotResent == Spec => []AnsweredNotResent
<1>1. IInv => AnsweredNotResent
  BY DEF IInv, DataInv
<1>. QED
  BY <1>1, Always, PTL
=============================================================================
