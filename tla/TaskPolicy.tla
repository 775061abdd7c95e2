----------------------------- MODULE TaskPolicy -----------------------------
(***************************************************************************)
(* The pure admission decision of a bounded task (resources.py, classes    *)
(* TaskUsage and TaskPolicy).  A policy is                                 *)
(*   [elapsed, attempts, retries, retryWait, unchangedWait]                *)
(* and the facts it is applied to are                                      *)
(*   [started, attempts, failures, outcome, finished, checked].            *)
(***************************************************************************)
EXTENDS Integers, FiniteSets

NoTime == -1           \* a timestamp that is None
NoOutcome == "none"    \* last_outcome of a task that was never attempted

Confirmed  == {"progress", "unchanged", "failed"}       \* a further attempt may follow
Unresolved == {"running", "unknown"}
Outcomes   == Confirmed \cup Unresolved \cup {"complete"}

Later(s, t) == IF s < t THEN t ELSE s

(***************************************************************************)
(* observed_at: the highest instant the task has seen.  The caller saves   *)
(* it, so that a clock set back never gives time away again.               *)
(***************************************************************************)
Observed(facts, now) ==
    Later(Later(now, facts.started), Later(facts.finished, facts.checked))

Deadline(policy, facts) == facts.started + policy.elapsed

OutOfTime(policy, facts, now) == Deadline(policy, facts) <= Observed(facts, now)

OutOfAttempts(policy, facts) == policy.attempts <= facts.attempts

OutOfRetries(policy, facts) ==
    facts.outcome = "failed" /\ policy.retries < facts.failures

\* The end of the pause that a failed or unchanged attempt demands.
NextAttemptAt(policy, facts) ==
    IF facts.outcome = "failed" THEN facts.finished + policy.retryWait
    ELSE IF facts.outcome = "unchanged" THEN facts.finished + policy.unchangedWait
    ELSE 0

(***************************************************************************)
(* decide(..)["allowed"].  The other states of the decision (complete,     *)
(* reconciliation_required, waiting, exhausted) all deny the attempt.      *)
(***************************************************************************)
Ready(policy, facts, now, busy) ==
    /\ facts.outcome \notin Unresolved \cup {"complete"}
    /\ ~busy
    /\ now >= Observed(facts, now)
    /\ ~OutOfTime(policy, facts, now)
    /\ ~OutOfAttempts(policy, facts)
    /\ ~OutOfRetries(policy, facts)
    /\ NextAttemptAt(policy, facts) <= now

(***************************************************************************)
(* "task_time_exhausted" \in decide(..)["reasons"], which is what stops    *)
(* native work that is still running.                                      *)
(***************************************************************************)
TimeExhausted(policy, facts, now, busy) ==
    /\ facts.outcome # "complete"
    /\ OutOfTime(policy, facts, now)
    /\ \/ busy
       \/ facts.outcome \notin Unresolved /\ now >= Observed(facts, now)
=============================================================================
