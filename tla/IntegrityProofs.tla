--------------------------- MODULE IntegrityProofs ---------------------------
(***************************************************************************)
(* For any modules, any age, any capacity and any number of writes and     *)
(* failures: the cache of verdicts is bounded and holds no verdict on      *)
(* another file that a look could take, and the core raises no alarm over  *)
(* its own image without cause.                                            *)
(*                                                                         *)
(* The argument: write times are never ahead of the clock that counts the  *)
(* writes, so a file that is replaced gets a time that neither a verdict   *)
(* nor an inspection has seen; and while the time is the one that was      *)
(* read, what was read before is still what the file is.                   *)
(***************************************************************************)
EXTENDS Integrity, FiniteSetTheorems, TLAPS

\* What has a write time has one that was there already.
TimesInv ==
    /\ \A p \in Paths : file[p].time <= writes + 1
    /\ \A p \in Paths : cache[p] # None => cache[p].time <= writes + 1
    /\ job # None => job.time <= writes + 1

\* A verdict with the write time of its file is a verdict on that file.
CacheInv ==
    \A p \in Paths :
        cache[p] # None /\ cache[p].time = file[p].time /\ cache[p].whole =>
        cache[p].hash = file[p].content /\ cache[p].signed = (file[p].content \in Signed)

\* So is what an inspection has come to.
JobInv ==
    job # None /\ job.time = file[job.path].time /\ job.whole =>
    /\ job.pc # "hash" => job.hash = file[job.path].content
    /\ job.pc = "store" => job.signed = (file[job.path].content \in Signed)

\* A verdict on the image that a failure spoilt is not younger than the failure.
FailedInv ==
    /\ cache[Core] # None /\ ~cache[Core].whole => failed <= cache[Core].age
    /\ job # None /\ job.path = Core /\ ~job.whole => failed = 0

IInv == TypeOK /\ TimesInv /\ CacheInv /\ JobInv /\ FailedInv

-----------------------------------------------------------------------------
\* At first nothing is cached.
LEMMA InitIInv == Init => IInv
<1>. SUFFICES ASSUME Init PROVE IInv
  OBVIOUS
<1>. USE IntegrityAssumption DEF Init, Paths
<1>1. TypeOK
  <2>1. Keys = {}
    BY DEF Keys
  <2>2. IsFiniteSet(Keys) /\ Cardinality(Keys) <= Capacity
    BY <2>1, FS_EmptySet
  <2>3. file \in [Paths -> [content : Contents, time : 1..MaxWrites + 1]]
    BY DEF Contents
  <2>4. expected \in Hashes
    BY <2>3 DEF Hashes
  <2>5. /\ cache \in [Paths -> Entries \union {None}] /\ job \in Jobs \union {None}
        /\ found \in [Modules -> BOOLEAN] /\ pending \subseteq Paths /\ alert \in BOOLEAN
    OBVIOUS
  <2>6. writes \in 0..MaxWrites /\ faults \in 0..MaxFaults /\ failed \in 0..MaxAge
    OBVIOUS
  <2>. QED
    BY <2>2, <2>3, <2>4, <2>5, <2>6, Zenon DEF TypeOK
<1>2. TimesInv /\ CacheInv /\ JobInv /\ FailedInv
  BY DEF TimesInv, CacheInv, JobInv, FailedInv
<1>. QED
  BY <1>1, <1>2 DEF IInv

\* A file that is replaced gets a new write time.
LEMMA ReplaceIInv ==
    ASSUME IInv, NEW p \in Paths, NEW c \in Contents, Replace(p, c)
    PROVE  IInv'
<1>. USE IntegrityAssumption DEF IInv, Replace
<1>1. TypeOK'
  BY DEF TypeOK, Keys
<1>2. TimesInv' /\ FailedInv'
  BY DEF TypeOK, TimesInv, FailedInv, Entries, Jobs
<1>3. CacheInv'
  BY DEF TypeOK, TimesInv, CacheInv, Entries
<1>4. JobInv'
  BY DEF TypeOK, TimesInv, JobInv, Jobs
<1>. QED
  BY <1>1, <1>2, <1>3, <1>4

\* Ageing stops at MaxAge and keeps the order of ages.
LEMMA OlderFacts ==
    ASSUME NEW a \in 0..MaxAge, NEW b \in 0..MaxAge
    PROVE  Older(a) \in 0..MaxAge /\ (a <= b => Older(a) <= Older(b))
BY IntegrityAssumption DEF Older

\* Time ages the verdicts and changes nothing else of them.
LEMMA TickIInv == ASSUME IInv, Tick PROVE IInv'
<1>. USE IntegrityAssumption DEF IInv, Tick
<1>1. ASSUME NEW p \in Paths, cache[p] # None
      PROVE  /\ cache[p] \in Entries
             /\ cache'[p] = [cache[p] EXCEPT !.age = Older(cache[p].age)]
             /\ cache'[p] \in Entries
  BY <1>1, OlderFacts DEF TypeOK, Entries
<1>2. \A p \in Paths : cache'[p] = None <=> cache[p] = None
  BY <1>1
<1>3. TypeOK'
  <2>1. Keys' = Keys
    BY <1>2 DEF Keys
  <2>2. cache' \in [Paths -> Entries \union {None}]
    BY <1>1
  <2>. QED
    BY <2>1, <2>2, OlderFacts DEF TypeOK
<1>4. TimesInv' /\ CacheInv' /\ JobInv'
  BY <1>1, <1>2 DEF TimesInv, CacheInv, JobInv, Entries
<1>5. FailedInv'
  <2>1. ASSUME cache'[Core] # None, ~cache'[Core].whole
        PROVE  failed' <= cache'[Core].age
    <3>1. Core \in Paths /\ cache[Core] # None
      BY <1>2, <2>1 DEF Paths
    <3>2. /\ cache[Core].age \in 0..MaxAge /\ ~cache[Core].whole
          /\ cache'[Core].age = Older(cache[Core].age)
      BY <1>1, <2>1, <3>1 DEF Entries
    <3>. QED
      BY <3>1, <3>2, OlderFacts DEF TypeOK, FailedInv
  <2>. QED
    BY <2>1 DEF FailedInv
<1>. QED
  BY <1>3, <1>4, <1>5

\* A pass begins.
LEMMA BeginIInv ==
    ASSUME IInv, NEW ownImage \in BOOLEAN, Begin(ownImage)
    PROVE  IInv'
<1>. USE DEF IInv, Begin
<1>1. TypeOK'
  BY DEF TypeOK, Keys, Paths
<1>2. TimesInv' /\ CacheInv' /\ JobInv' /\ FailedInv'
  BY DEF TimesInv, CacheInv, JobInv, FailedInv
<1>. QED
  BY <1>1, <1>2

\* A cache that is emptied holds nothing.
LEMMA ReloadIInv == ASSUME IInv, Reload PROVE IInv'
<1>. USE IntegrityAssumption DEF IInv, Reload
<1>1. TypeOK'
  <2>1. Keys' = {}
    BY DEF Keys
  <2>2. IsFiniteSet(Keys') /\ Cardinality(Keys') <= Capacity
    BY <2>1, FS_EmptySet
  <2>3. (IsFiniteSet(Keys) /\ Cardinality(Keys) <= Capacity)'
    BY <2>2
  <2>. QED
    BY <2>3 DEF TypeOK
<1>2. TimesInv' /\ CacheInv' /\ JobInv' /\ FailedInv'
  BY DEF TimesInv, CacheInv, JobInv, FailedInv, Paths
<1>. QED
  BY <1>1, <1>2

\* A verdict that is delivered changes nothing of the cache.
LEMMA DeliverTypes ==
    ASSUME TypeOK, NEW p \in Paths, NEW hash, Deliver(p, hash)
    PROVE  /\ pending' \subseteq Paths
           /\ found' \in [Modules -> BOOLEAN]
           /\ alert' \in BOOLEAN
<1>1. CASE p = Core
  BY <1>1 DEF TypeOK, Deliver
<1>2. CASE p # Core
  <2>1. p \in Modules
    BY <1>2 DEF Paths
  <2>. QED
    BY <1>2, <2>1 DEF TypeOK, Deliver
<1>. QED
  BY <1>1, <1>2

LEMMA FaultTypes ==
    ASSUME TypeOK, NEW p, Fault(p)
    PROVE  faults' \in 0..MaxFaults /\ failed' \in 0..MaxAge /\ failed' <= failed
BY IntegrityAssumption DEF TypeOK, Fault

\* The calls without a verdict that is kept.
LEMMA CachedIInv == ASSUME IInv, NEW p \in Paths, Cached(p) PROVE IInv'
<1>. USE DEF IInv, Cached, NoFault
<1>1. TypeOK'
  BY DeliverTypes DEF TypeOK, Keys
<1>2. TimesInv' /\ CacheInv' /\ JobInv' /\ FailedInv'
  BY DEF TimesInv, CacheInv, JobInv, FailedInv
<1>. QED
  BY <1>1, <1>2

LEMMA InaccessibleIInv == ASSUME IInv, NEW p \in Paths, Inaccessible(p) PROVE IInv'
<1>. USE DEF IInv, Inaccessible
<1>1. TypeOK'
  BY DeliverTypes, FaultTypes DEF TypeOK, Keys
<1>2. TimesInv' /\ CacheInv' /\ JobInv'
  BY DEF TimesInv, CacheInv, JobInv
<1>3. FailedInv'
  <2>1. job = None
    BY DEF Up
  <2>2. ASSUME cache[Core] # None PROVE cache[Core].age \in 0..MaxAge
    BY <2>2 DEF TypeOK, Paths, Entries
  <2>3. failed \in 0..MaxAge
    BY DEF TypeOK
  <2>. QED
    BY <2>1, <2>2, <2>3, FaultTypes DEF FailedInv
<1>. QED
  BY <1>1, <1>2, <1>3

-----------------------------------------------------------------------------
(* The steps of an inspection.                                             *)

\* It begins with the write time, or with 0, which no file has.
LEMMA MissIInv == ASSUME IInv, NEW p \in Paths, Miss(p) PROVE IInv'
<1>. USE IntegrityAssumption DEF IInv
<1>1. PICK time \in {0, file[p].time} :
          /\ IF time = 0 THEN Fault(p) ELSE ~Hit(p) /\ NoFault
          /\ job' = Job(p, "hash", time, None, FALSE, TRUE)
  BY DEF Miss
<1>2. /\ file[p].time \in 1..MaxWrites + 1 /\ writes \in 0..MaxWrites /\ failed \in 0..MaxAge
      /\ UNCHANGED <<file, writes, cache, pending, found, expected, alert>>
  BY DEF TypeOK, Miss
<1>3. /\ job' \in Jobs /\ job'.path = p /\ job'.pc = "hash" /\ job'.time = time
      /\ job'.whole = TRUE
  BY <1>1, <1>2 DEF Jobs, Hashes, Job
<1>4. faults' \in 0..MaxFaults /\ failed' \in 0..MaxAge /\ failed' <= failed
  BY <1>1, <1>2, FaultTypes DEF TypeOK, NoFault
<1>5. TypeOK'
  BY <1>2, <1>3, <1>4 DEF TypeOK, Keys
<1>6. TimesInv'
  <2>1. time <= writes + 1
    BY <1>2 DEF TimesInv
  <2>. QED
    BY <1>2, <1>3, <2>1 DEF TimesInv
<1>7. CacheInv' /\ JobInv'
  BY <1>2, <1>3 DEF CacheInv, JobInv
<1>8. FailedInv'
  <2>1. ASSUME cache[Core] # None PROVE cache[Core].age \in 0..MaxAge
    BY <2>1 DEF TypeOK, Paths, Entries
  <2>. QED
    BY <1>2, <1>3, <1>4, <2>1 DEF FailedInv
<1>. QED
  BY <1>5, <1>6, <1>7, <1>8

\* What is read while the write time is that of the start is read of the file as it is.
LEMMA HashIInv == ASSUME IInv, Hash PROVE IInv'
<1>. USE IntegrityAssumption DEF IInv, NoFault
<1>1. PICK hash \in Hashes, whole \in BOOLEAN :
          /\ job' = Job(job.path, "verify", job.time, hash, FALSE, whole)
          /\ \/ NoFault /\ whole /\ hash = file[job.path].content
             \/ Fault(job.path) /\ ~whole /\ hash \in {None, Prefix}
  BY DEF Hash
<1>2. /\ job \in Jobs
      /\ UNCHANGED <<file, writes, cache, pending, found, expected, alert>>
  BY DEF TypeOK, Hash
<1>3. /\ job' \in Jobs /\ job'.path = job.path /\ job'.time = job.time /\ job'.pc = "verify"
      /\ job'.hash = hash /\ job'.whole = whole /\ job # None
  BY <1>1, <1>2 DEF Jobs, Job, Hash
<1>4. failed \in 0..MaxAge /\ faults' \in 0..MaxFaults /\ failed' \in 0..MaxAge /\ failed' <= failed
  BY <1>1, FaultTypes DEF TypeOK
<1>5. TypeOK'
  BY <1>2, <1>3, <1>4 DEF TypeOK, Keys
<1>6. TimesInv' /\ CacheInv'
  BY <1>2, <1>3 DEF TimesInv, CacheInv
<1>7. JobInv'
  BY <1>1, <1>2, <1>3 DEF JobInv
<1>8. FailedInv'
  <2>1. ASSUME cache[Core] # None PROVE cache[Core].age \in 0..MaxAge
    BY <2>1 DEF TypeOK, Paths, Entries
  <2>2. cache'[Core] # None /\ ~cache'[Core].whole => failed' <= cache'[Core].age
    BY <1>2, <1>4, <2>1 DEF FailedInv
  <2>3. job'.path = Core /\ ~job'.whole => failed' = 0
    BY <1>1, <1>2, <1>3 DEF Fault
  <2>. QED
    BY <2>2, <2>3 DEF FailedInv
<1>. QED
  BY <1>5, <1>6, <1>7, <1>8

LEMMA VerifyIInv == ASSUME IInv, Verify PROVE IInv'
<1>. USE IntegrityAssumption DEF IInv, NoFault
<1>1. PICK signed \in BOOLEAN, whole \in BOOLEAN :
          /\ job' = Job(job.path, "store", job.time, job.hash, signed, whole)
          /\ \/ NoFault /\ whole = job.whole /\ (signed <=> file[job.path].content \in Signed)
             \/ Fault(job.path) /\ ~whole /\ ~signed
  BY DEF Verify
<1>2. /\ job \in Jobs /\ job # None /\ job.pc = "verify"
      /\ UNCHANGED <<file, writes, cache, pending, found, expected, alert>>
  BY DEF TypeOK, Verify
<1>3. /\ job' \in Jobs /\ job'.path = job.path /\ job'.time = job.time /\ job'.pc = "store"
      /\ job'.hash = job.hash /\ job'.signed = signed /\ job'.whole = whole
  BY <1>1, <1>2 DEF Jobs, Job
<1>4. failed \in 0..MaxAge /\ faults' \in 0..MaxFaults /\ failed' \in 0..MaxAge /\ failed' <= failed
  BY <1>1, FaultTypes DEF TypeOK
<1>5. TypeOK'
  BY <1>2, <1>3, <1>4 DEF TypeOK, Keys
<1>6. TimesInv' /\ CacheInv'
  BY <1>2, <1>3 DEF TimesInv, CacheInv
<1>7. JobInv'
  <2>1. ASSUME job'.time = file[job.path].time, whole
        PROVE  /\ job.hash = file[job.path].content
               /\ signed <=> file[job.path].content \in Signed
    BY <1>1, <1>2, <1>3, <2>1 DEF JobInv
  <2>. QED
    BY <1>2, <1>3, <2>1 DEF JobInv
<1>8. FailedInv'
  <2>1. ASSUME cache[Core] # None PROVE cache[Core].age \in 0..MaxAge
    BY <2>1 DEF TypeOK, Paths, Entries
  <2>2. cache'[Core] # None /\ ~cache'[Core].whole => failed' <= cache'[Core].age
    BY <1>2, <1>4, <2>1 DEF FailedInv
  <2>3. job'.path = Core /\ ~job'.whole => failed' = 0
    BY <1>1, <1>2, <1>3 DEF Fault, FailedInv
  <2>. QED
    BY <2>2, <2>3 DEF FailedInv
<1>. QED
  BY <1>5, <1>6, <1>7, <1>8

\* A cache with one entry more is full or within its bound; one that was emptied has one.
LEMMA StoreIInv == ASSUME IInv, Store PROVE IInv'
<1>. USE IntegrityAssumption DEF IInv
<1>. DEFINE q == job.path
<1>1. /\ job \in Jobs /\ job # None /\ job.pc = "store" /\ q \in Paths
      /\ UNCHANGED <<file, writes, faults, failed, expected>> /\ job' = None
      /\ cache' = IF job.time = 0 THEN cache
                  ELSE IF Full(q) THEN [p \in Paths |-> IF p = q THEN Entry ELSE None]
                       ELSE [cache EXCEPT ![q] = Entry]
  BY DEF TypeOK, Store, NoFault, Jobs
<1>2. CASE job.time = 0
  <2>1. TypeOK'
    BY <1>1, <1>2, DeliverTypes DEF TypeOK, Keys, Store
  <2>. QED
    BY <1>1, <1>2, <2>1 DEF TimesInv, CacheInv, JobInv, FailedInv
<1>3. CASE job.time # 0
  <2>1. /\ Entry \in Entries /\ Entry # None /\ Entry.time = job.time /\ Entry.age = 0
        /\ Entry.hash = job.hash /\ Entry.signed = job.signed /\ Entry.whole = job.whole
    BY <1>1, <1>3 DEF Entry, Entries, Jobs
  <2>2. cache'[q] = Entry /\ cache' \in [Paths -> Entries \union {None}]
    BY <1>1, <1>3, <2>1 DEF TypeOK
  <2>3. ASSUME NEW p \in Paths, p # q, cache'[p] # None
        PROVE  cache'[p] = cache[p] /\ cache[p] # None
    BY <1>1, <1>3, <2>3 DEF TypeOK
  <2>4. (IsFiniteSet(Keys) /\ Cardinality(Keys) <= Capacity)'
    <3>1. CASE Full(q)
      <4>1. Keys' = {q}
        BY <1>1, <1>3, <2>1, <3>1 DEF Keys
      <4>2. IsFiniteSet(Keys') /\ Cardinality(Keys') = 1
        BY <4>1, FS_Singleton
      <4>. QED
        BY <4>2
    <3>2. CASE ~Full(q)
      <4>1. Keys' = Keys \union {q}
        BY <1>1, <1>3, <2>1, <3>2 DEF Keys, TypeOK
      <4>2. IsFiniteSet(Keys \union {q}) /\ Cardinality(Keys \union {q}) \in Nat
        BY FS_AddElement, FS_CardinalityType DEF TypeOK
      <4>3. ~(Cardinality(Keys \union {q}) > Capacity)
        BY <3>2 DEF Full
      <4>. QED
        BY <4>1, <4>2, <4>3
    <3>. QED
      BY <3>1, <3>2
  <2>5. TypeOK'
    BY <1>1, <2>2, <2>4, DeliverTypes DEF TypeOK, Store
  <2>6. TimesInv'
    BY <1>1, <2>1, <2>2, <2>3 DEF TimesInv
  <2>7. CacheInv'
    <3>1. ASSUME job.time = file[q].time, job.whole
          PROVE  job.hash = file[q].content /\ job.signed = (file[q].content \in Signed)
      BY <1>1, <3>1 DEF JobInv
    <3>. QED
      BY <1>1, <2>1, <2>2, <2>3, <3>1 DEF CacheInv
  <2>8. JobInv' /\ FailedInv'
    <3>1. q = Core /\ ~job.whole => failed = 0
      BY <1>1 DEF FailedInv
    <3>. QED
      BY <1>1, <2>1, <2>2, <2>3, <3>1 DEF JobInv, FailedInv, Paths
  <2>. QED
    BY <2>5, <2>6, <2>7, <2>8
<1>. QED
  BY <1>2, <1>3

-----------------------------------------------------------------------------
LEMMA NextIInv == ASSUME IInv, [Next]_vars PROVE IInv'
<1>1. ASSUME NEW ownImage \in BOOLEAN, Begin(ownImage) PROVE IInv'
  BY <1>1, BeginIInv
<1>2. ASSUME NEW p \in Paths, Cached(p) \/ Inaccessible(p) \/ Miss(p) PROVE IInv'
  BY <1>2, CachedIInv, InaccessibleIInv, MissIInv
<1>3. ASSUME Hash \/ Verify \/ Store PROVE IInv'
  BY <1>3, HashIInv, VerifyIInv, StoreIInv
<1>4. ASSUME Reload \/ Tick PROVE IInv'
  BY <1>4, ReloadIInv, TickIInv
<1>5. ASSUME NEW p \in Paths, NEW c \in Contents, Replace(p, c) PROVE IInv'
  BY <1>5, ReplaceIInv
<1>6. CASE UNCHANGED vars
  BY <1>6 DEF vars, IInv, TypeOK, TimesInv, CacheInv, JobInv, FailedInv, Keys
<1>. QED
  BY <1>1, <1>2, <1>3, <1>4, <1>5, <1>6 DEF Next, Loop

LEMMA AlwaysIInv == Spec => []IInv
BY InitIInv, NextIInv, PTL DEF Spec

\* Every reachable state is well typed, and the cache never holds more than its capacity
\* (integrity.hpp:564).
THEOREM TypeCorrect == Spec => []TypeOK
<1>1. IInv => TypeOK
  BY DEF IInv
<1>. QED
  BY <1>1, AlwaysIInv, PTL

\* What a look would take from the cache is the verdict on the file as it is, whatever was
\* replaced while it was inspected (integrity.hpp:490).
THEOREM NothingStale == Spec => []CachedIsCurrent
<1>1. IInv => CachedIsCurrent
  BY DEF IInv, CacheInv, CachedIsCurrent, Hit
<1>. QED
  BY <1>1, AlwaysIInv, PTL

\* A look at the image that raises the alarm has seen another content, or was overtaken by
\* a change, or rests on a call that failed not long ago.
LEMMA AlertHasCause ==
    ASSUME IInv, expected \in Contents, NEW hash, Deliver(Core, hash), alert',
           \/ Cached(Core) /\ hash = cache[Core].hash
           \/ Inaccessible(Core)
           \/ Store /\ job.path = Core /\ hash = job.hash
    PROVE  \/ file[Core].content # expected
           \/ job # None /\ job.time # file[Core].time
           \/ failed' < MaxAge
<1>. USE IntegrityAssumption DEF IInv
<1>1. hash # expected
  BY DEF Deliver
<1>2. Core \in Paths /\ failed \in 0..MaxAge
  BY DEF Paths, TypeOK
<1>3. CASE Cached(Core) /\ hash = cache[Core].hash
  <2>1. /\ cache[Core] \in Entries /\ cache[Core].age < MaxAge
        /\ cache[Core] # None /\ cache[Core].time = file[Core].time /\ failed' = failed
    BY <1>2, <1>3 DEF Cached, Hit, NoFault, TypeOK
  <2>2. CASE cache[Core].whole
    BY <1>1, <1>2, <1>3, <2>1, <2>2 DEF CacheInv
  <2>3. CASE ~cache[Core].whole
    BY <1>2, <2>1, <2>3 DEF FailedInv, Entries
  <2>. QED
    BY <2>2, <2>3
<1>4. CASE Inaccessible(Core)
  BY <1>4 DEF Inaccessible, Fault
<1>5. CASE Store /\ job.path = Core /\ hash = job.hash
  <2>1. job # None /\ job.pc = "store" /\ failed' = failed
    BY <1>5 DEF Store, NoFault
  <2>2. CASE job.whole
    BY <1>1, <1>5, <2>1, <2>2 DEF JobInv
  <2>3. CASE ~job.whole
    BY <1>5, <2>1, <2>3 DEF FailedInv
  <2>. QED
    BY <2>2, <2>3
<1>. QED
  BY <1>3, <1>4, <1>5

\* "Security core image hash changed on disk" (self_protect.hpp:369) is said for a reason.
THEOREM NoFalseAlarm == Spec => AlertMeansChange
<1>1. ASSUME IInv, [Next]_vars, expected \in Contents,
             Core \in pending, Core \notin pending', alert'
      PROVE  \/ file[Core].content # expected
             \/ job # None /\ job.time # file[Core].time
             \/ failed' < MaxAge
  <2>1. \E p \in Paths : Cached(p) \/ Inaccessible(p) \/ (Store /\ job.path = p)
    <3>1. ASSUME Store PROVE job.path \in Paths
      BY <1>1, <3>1 DEF IInv, TypeOK, Store, Jobs
    <3>. QED
      BY <1>1, <3>1 DEF Next, Loop, vars, Begin, Miss, Hash, Verify, Reload, Tick, Replace
  <2>2. PICK p \in Paths : Cached(p) \/ Inaccessible(p) \/ (Store /\ job.path = p)
    BY <2>1
  <2>3. PICK hash : /\ Deliver(p, hash)
                    /\ \/ Cached(p) /\ hash = cache[p].hash
                       \/ Inaccessible(p)
                       \/ Store /\ job.path = p /\ hash = job.hash
    BY <2>2 DEF Cached, Inaccessible, Store
  <2>4. p = Core
    BY <1>1, <2>3 DEF Deliver
  <2>. QED
    BY <1>1, <2>3, <2>4, AlertHasCause
<1>2. ASSUME IInv, [Next]_vars
      PROVE  [ /\ expected \in Contents
               /\ Core \in pending /\ Core \notin pending'
               /\ alert'
               => \/ file[Core].content # expected
                  \/ job # None /\ job.time # file[Core].time
                  \/ failed' < MaxAge ]_vars
  BY <1>1, <1>2
<1>. QED
  BY <1>2, AlwaysIInv, PTL DEF Spec, AlertMeansChange
=============================================================================
