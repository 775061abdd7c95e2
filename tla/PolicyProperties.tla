-------------------------- MODULE PolicyProperties --------------------------
(***************************************************************************)
(* What must hold of a bounded task.                                       *)
(***************************************************************************)
EXTENDS PolicyService, PolicyRecord

(***************************************************************************)
(* InputsBudgeted: lost answers, late turns and restarts included, no      *)
(* input is sent twice, none is sent without its charge, and no more are   *)
(* sent than the most that any policy allowed (submit, admit_task_attempt, *)
(* _restore_policy_intents).                                               *)
(***************************************************************************)
Started == {i \in Intents : sent[i] > 0}

InputsBudgeted ==
    /\ \A i \in Started : sent[i] = 1 /\ Charged(i)
    /\ Cardinality(Started) <= granted

(***************************************************************************)
(* NoOrphanCharge: while the service runs, the runtime knows the intent of *)
(* an unresolved attempt and still reconciles it, although SQLite and      *)
(* runtime.json are written one after the other (_restore_policy_intents,  *)
(* _recover_task_policy_usage).                                            *)
(***************************************************************************)
NoOrphanCharge ==
    up /\ usage.outcome \in Unresolved => intents[current] \in Open \cup {"completed"}

(***************************************************************************)
(* StopProof: a task counts as stopped at its deadline only while nothing  *)
(* of it runs that the service could know of: whoever started a turn after *)
(* the proof, its notification is still under way (_on_notification,       *)
(* _enforce_task_deadlines).                                               *)
(***************************************************************************)
StopProof == up /\ task.stopped => ~Active \/ notes > 0

(***************************************************************************)
(* OverdueIsStopped: native work that goes on past the deadline of an      *)
(* unresolved attempt does not go on forever: it is stopped, by the stop   *)
(* or with the service, or it gets other limits or a result, even when     *)
(* other clients keep starting turns (_enforce_task_deadlines).            *)
(***************************************************************************)
Overdue ==
    /\ up /\ usage.outcome \in Unresolved
    /\ OutOfTime(policy, Facts, now)
    /\ Active

OverdueIsStopped == Overdue ~> ~Overdue
=============================================================================
