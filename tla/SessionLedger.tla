---------------------------- MODULE SessionLedger ----------------------------
(***************************************************************************)
(* What the control plane promises about a player's session, whatever      *)
(* threads, crashes and failed writes lie behind it: a durable ledger in   *)
(* which findings are recorded and then judged, each in one step, and in   *)
(* which neither the record nor the verdict is ever weakened or withdrawn. *)
(***************************************************************************)
EXTENDS Integers, Decide

CONSTANTS Sessions,   \* the session identifiers
          None        \* no entry

VARIABLES recorded,   \* recorded[s]: peak and number of the findings taken in
          verdict     \* verdict[s]: the last judgement of those findings

ledger == <<recorded, verdict>>

Init ==
  /\ recorded = [s \in Sessions |-> None]
  /\ verdict  = [s \in Sessions |-> None]

Open(s) ==
  /\ recorded[s] = None
  /\ recorded' = [recorded EXCEPT ![s] = [peak_risk |-> 0, finding_count |-> 0]]
  /\ UNCHANGED verdict

Record(s) ==
  /\ recorded[s] # None
  /\ recorded'[s] # None
  /\ recorded'[s].peak_risk >= recorded[s].peak_risk
  /\ recorded'[s].finding_count > recorded[s].finding_count
  /\ \A r \in Sessions \ {s} : recorded'[r] = recorded[r]
  /\ UNCHANGED verdict

\* The verdict is always on everything recorded by then.
Judge(s) ==
  /\ recorded[s] # None
  /\ verdict'[s] # None
  /\ verdict'[s].peak_risk = recorded[s].peak_risk
  /\ verdict'[s].finding_count = recorded[s].finding_count
  /\ verdict[s] # None => Covers(verdict'[s], verdict[s])
  /\ \A r \in Sessions \ {s} : verdict'[r] = verdict[r]
  /\ UNCHANGED recorded

Next == \E s \in Sessions : Open(s) \/ Record(s) \/ Judge(s)

Spec == Init /\ [][Next]_ledger
=============================================================================
