---------------------------- MODULE MCHeartbeats ----------------------------
(***************************************************************************)
(* When a heartbeat is due, and whether it goes out: the dispatcher with   *)
(* the schedules of MCScheduler, and the evidence of one target.  They     *)
(* meet only in the outcome of a dispatch, which each of them leaves open; *)
(* a behaviour exercises one of them, and the other stays as it began.     *)
(***************************************************************************)
EXTENDS MCScheduler, HeartbeatProperties

CONSTANTS c1, c2, s1, s2

VARIABLE half    \* the one that the behaviour exercises

HalvesInit ==
    /\ half \in {"schedule", "evidence"} /\ Init /\ EvidenceInit
    /\ half = "schedule" => source = Null

InSchedule == half = "schedule" /\ UNCHANGED <<half, evidenceVars>>
InEvidence == half = "evidence" /\ UNCHANGED <<half, vars>>

HalvesNext ==
    \/ InSchedule /\ Next
    \/ InEvidence /\ Watch
    \/ InEvidence /\ Dispatch
    \/ InEvidence /\ Observe
    \/ InEvidence /\ Submit
    \/ InEvidence /\ Defer
    \/ InEvidence /\ Register
    \/ InEvidence /\ ClockMoves

Symmetries == Permutations(Scopes) \cup Permutations(Contents)

HalvesSpec == HalvesInit /\ [][HalvesNext]_<<half, vars, evidenceVars>>
=============================================================================
