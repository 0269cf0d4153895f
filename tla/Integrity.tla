------------------------------ MODULE Integrity ------------------------------
(***************************************************************************)
(* The inspection of files and its cache (client/core/integrity.hpp), with *)
(* the two who use them in every pass of the main loop: the scan of the    *)
(* game's modules (ScanModules, engine.hpp) and the core's look at its own *)
(* image (SelfProtect::Inspect, self_protect.hpp).                         *)
(*                                                                         *)
(* Files are replaced at any time, also between two steps of an inspection *)
(* of theirs, and every call on a file may fail.  A file never has a write *)
(* time again that it had before.  An inspection is short against the time *)
(* that a verdict is kept.                                                 *)
(***************************************************************************)
EXTENDS Naturals, FiniteSets

CONSTANTS
    Modules,    \* paths of the modules that are inspected
    Core,       \* path of the core's own image
    Good, Bad,  \* contents of files; the hash of a content stands for it
    Signed,     \* those of the contents that have a valid signature
    Prefix,     \* the hash of a file of which not all could be read
    None,       \* no hash (the empty string), no entry, no inspection
    MaxAge,     \* ten minutes, in ticks
    Capacity,   \* entries of the cache
    MaxWrites,  \* bound: files replaced
    MaxFaults   \* bound: failed calls

Contents == {Good, Bad}
Hashes == Contents \union {Prefix, None}
Paths == Modules \union {Core}

VARIABLES
    file,       \* path -> its content and write time
    writes,     \* files replaced so far
    faults,     \* calls that failed so far
    cache,      \* path -> the verdict kept for it (cache_), or None
    pending,    \* the inspections this pass still has to make
    job,        \* the inspection under way, or None
    found,      \* module -> did its last inspection tell a known bad hash?
    expected,   \* expectedSelfHash_
    alert,      \* did the last Inspect say that the image changed?
    failed      \* age of the last failed inspection of the image, for the properties

vars == <<file, writes, faults, cache, pending, job, found, expected, alert, failed>>

\* whole tells for the properties that no call failed.
Entries == [hash : Hashes, signed : BOOLEAN, time : 1..MaxWrites + 1, age : 0..MaxAge,
            whole : BOOLEAN]
Jobs == [path : Paths, pc : {"hash", "verify", "store"}, time : 0..MaxWrites + 1,
         hash : Hashes, signed : BOOLEAN, whole : BOOLEAN]

ASSUME IntegrityAssumption ==
    /\ Core \notin Modules
    /\ Prefix \notin Contents /\ None \notin Contents \union {Prefix}
    /\ Signed \subseteq Contents
    /\ MaxAge \in Nat \ {0} /\ Capacity \in Nat \ {0}
    /\ MaxWrites \in Nat /\ MaxFaults \in Nat
    /\ None \notin Entries \union Jobs

\* SelfProtect::Initialize has looked at the image, and may have failed to.
Init ==
    /\ file \in [Paths -> [content : Contents, time : {1}]]
    /\ writes = 0
    /\ faults = 0
    /\ cache = [p \in Paths |-> None]
    /\ pending = {}
    /\ job = None
    /\ found = [m \in Modules |-> FALSE]
    /\ expected \in {file[Core].content, Prefix, None}
    /\ alert = FALSE
    /\ failed = MaxAge

-----------------------------------------------------------------------------
(* The surroundings.                                                       *)

Replace(p, c) ==
    /\ writes < MaxWrites
    /\ writes' = writes + 1
    /\ file' = [file EXCEPT ![p] = [content |-> c, time |-> writes + 2]]
    /\ UNCHANGED <<faults, cache, pending, job, found, expected, alert, failed>>

Older(age) == IF age < MaxAge THEN age + 1 ELSE MaxAge

Tick ==
    /\ job = None
    /\ cache' = [p \in Paths |-> IF cache[p] = None THEN None
                                 ELSE [cache[p] EXCEPT !.age = Older(@)]]
    /\ failed' = Older(failed)
    /\ UNCHANGED <<file, writes, faults, pending, job, found, expected, alert>>

Fault(p) ==
    /\ faults < MaxFaults
    /\ faults' = faults + 1
    /\ failed' = IF p = Core THEN 0 ELSE failed

NoFault == UNCHANGED <<faults, failed>>

-----------------------------------------------------------------------------
(* The callers.                                                            *)

\* The pass begins, with the look at the own image in every fifteenth cycle, if the image
\* could be hashed when the core started.
Begin(ownImage) ==
    /\ pending = {} /\ job = None
    /\ pending' = Modules \union IF ownImage /\ expected # None THEN {Core} ELSE {}
    /\ UNCHANGED <<file, writes, faults, cache, job, found, expected, alert, failed>>

\* The configuration was reloaded: ClearCache.
Reload ==
    /\ pending = {} /\ job = None
    /\ cache' = [p \in Paths |-> None]
    /\ UNCHANGED <<file, writes, faults, pending, job, found, expected, alert, failed>>

\* The caller gets a verdict of which it uses the hash.  A changed image is worth 80, enough
\* for an alert whatever else Inspect finds.
Deliver(p, hash) ==
    /\ pending' = pending \ {p}
    /\ IF p = Core
       THEN alert' = (hash # expected) /\ UNCHANGED found
       ELSE found' = [found EXCEPT ![p] = (hash = Bad)] /\ UNCHANGED alert

-----------------------------------------------------------------------------
(* InspectFile.                                                            *)

\* Mutant of the next: verdicts do not age.
Timeless(p) == cache[p] # None /\ cache[p].time = file[p].time

\* There is a verdict for the write time that was read, and it is not too old.
Hit(p) == cache[p] # None /\ cache[p].time = file[p].time /\ cache[p].age < MaxAge

\* The own image comes last.
Up(p) == job = None /\ p \in pending /\ (p = Core => pending = {Core})

Cached(p) ==
    /\ Up(p)
    /\ Hit(p)
    /\ Deliver(p, cache[p].hash)
    /\ NoFault
    /\ UNCHANGED <<file, writes, cache, job, expected>>

\* The attributes cannot be had: the verdict has no hash, and is not kept.
Inaccessible(p) ==
    /\ Up(p)
    /\ Fault(p)
    /\ Deliver(p, None)
    /\ UNCHANGED <<file, writes, cache, job, expected>>

Job(p, pc, time, hash, signed, whole) ==
    [path |-> p, pc |-> pc, time |-> time, hash |-> hash, signed |-> signed, whole |-> whole]

\* No verdict that will do, or no write time to look for (0).
Miss(p) ==
    /\ Up(p)
    /\ \E time \in {0, file[p].time} :
           /\ IF time = 0 THEN Fault(p) ELSE ~Hit(p) /\ NoFault
           /\ job' = Job(p, "hash", time, None, FALSE, TRUE)
    /\ UNCHANGED <<file, writes, cache, pending, found, expected, alert>>

\* ComputeSha256: a file that cannot be opened has no hash, and an error while reading is
\* taken for the end of the file.
Hash ==
    /\ job # None /\ job.pc = "hash"
    /\ \E hash \in Hashes, whole \in BOOLEAN :
           /\ job' = Job(job.path, "verify", job.time, hash, FALSE, whole)
           /\ \/ NoFault /\ whole /\ hash = file[job.path].content
              \/ Fault(job.path) /\ ~whole /\ hash \in {None, Prefix}
    /\ UNCHANGED <<file, writes, cache, pending, found, expected, alert>>

\* VerifyEmbeddedSignature opens the file by itself.
Verify ==
    /\ job # None /\ job.pc = "verify"
    /\ \E signed \in BOOLEAN, whole \in BOOLEAN :
           /\ job' = Job(job.path, "store", job.time, job.hash, signed, whole)
           /\ \/ NoFault /\ whole = job.whole /\ (signed <=> file[job.path].content \in Signed)
              \/ Fault(job.path) /\ ~whole /\ ~signed
    /\ UNCHANGED <<file, writes, cache, pending, found, expected, alert>>

\* Mutant of the next: the verdict is kept for the write time the file has now.
EntryForNow == [hash |-> job.hash, signed |-> job.signed, time |-> file[job.path].time,
                age |-> 0, whole |-> job.whole]

Entry == [hash |-> job.hash, signed |-> job.signed, time |-> job.time,
          age |-> 0, whole |-> job.whole]

Keys == {p \in Paths : cache[p] # None}

\* Mutant of the next: the bound is looked at before the entry is made.
FullBefore(p) == Cardinality(Keys) > Capacity

\* With an entry for p the cache is over its bound.
Full(p) == Cardinality(Keys \union {p}) > Capacity

\* The verdict is kept for the write time that was read before, whatever came of the calls.
\* A cache that is full is emptied.
Store ==
    /\ job # None /\ job.pc = "store"
    /\ cache' = IF job.time = 0 THEN cache
                ELSE IF Full(job.path)
                     THEN [p \in Paths |-> IF p = job.path THEN Entry ELSE None]
                     ELSE [cache EXCEPT ![job.path] = Entry]
    /\ Deliver(job.path, job.hash)
    /\ job' = None
    /\ NoFault
    /\ UNCHANGED <<file, writes, expected>>

-----------------------------------------------------------------------------
Loop ==
    \/ \E ownImage \in BOOLEAN : Begin(ownImage)
    \/ \E p \in Paths : Cached(p) \/ Inaccessible(p) \/ Miss(p)
    \/ Hash \/ Verify \/ Store

Next ==
    \/ Loop
    \/ Reload
    \/ Tick
    \/ \E p \in Paths, c \in Contents : Replace(p, c)

\* The loop goes on, and so does time.
Spec == Init /\ [][Next]_vars /\ WF_vars(Loop) /\ WF_vars(Tick)

-----------------------------------------------------------------------------
\* The state is well typed, the cache within its bound
\* (integrity.hpp:564).
TypeOK ==
    /\ file \in [Paths -> [content : Contents, time : 1..MaxWrites + 1]]
    /\ writes \in 0..MaxWrites
    /\ faults \in 0..MaxFaults
    /\ cache \in [Paths -> Entries \union {None}]
    /\ IsFiniteSet(Keys) /\ Cardinality(Keys) <= Capacity
    /\ pending \subseteq Paths
    /\ job \in Jobs \union {None}
    /\ found \in [Modules -> BOOLEAN]
    /\ expected \in Hashes
    /\ alert \in BOOLEAN
    /\ failed \in 0..MaxAge

\* A verdict that a look at the file would take from the cache is the verdict on the file as
\* it is, unless a call had failed: a file that was replaced while it was inspected leaves
\* nothing behind that is taken for it later (integrity.hpp:490, 509, 557).
CachedIsCurrent ==
    \A p \in Paths :
        LET e == cache[p]
        IN  e # None /\ Hit(p) /\ e.whole =>
            e.hash = file[p].content /\ e.signed = (file[p].content \in Signed)

\* "Security core image hash changed on disk" (self_protect.hpp:369) is only said when the
\* image did change, if only during the look, or when an inspection of it failed less than
\* MaxAge ago - given that the image could be read when the core started.
AlertMeansChange ==
    [][ /\ expected \in Contents
        /\ Core \in pending /\ Core \notin pending'
        /\ alert'
        => \/ file[Core].content # expected
           \/ job # None /\ job.time # file[Core].time
           \/ failed' < MaxAge ]_vars

\* What the scan says of a file that is left alone comes to be what the file is, and stays
\* so, whatever it was before and whatever failed: a bad file is found, a good one cleared.
VerdictsCatchUp ==
    \A m \in Modules, c \in Contents :
        <>[](file[m].content = c) => <>[](found[m] = (c = Bad))
=============================================================================
