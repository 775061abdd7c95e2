---------------------------- MODULE PolicyRecord ----------------------------
(***************************************************************************)
(* What must hold of the durable record of a bounded task.                 *)
(***************************************************************************)
EXTENDS PolicyLedger

(***************************************************************************)
(* RecordValid: whatever order charges, answers, reconciliations and clock *)
(* changes come in, the persisted record is one that the store accepts     *)
(* when it reads it again (_validate_policy_record); were it not, no       *)
(* operation on the policy of any task would work any more, and the        *)
(* service would not start.                                                *)
(***************************************************************************)
ChargedIntents == {i \in Intents : Charged(i)}

UsageMatches ==
    IF current = None
    THEN usage = NoUsage /\ ChargedIntents = {}
    ELSE /\ Charged(current)
         /\ usage.attempts = Cardinality(ChargedIntents)
         /\ checked >= usage.started
         /\ receipts[current].number = usage.attempts
         /\ receipts[current].outcome = usage.outcome
         /\ receipts[current].finished = usage.finished
         /\ usage.failures =
              IF usage.outcome = "failed" THEN receipts[current].prior + 1
              ELSE IF usage.outcome \in Unresolved THEN receipts[current].prior
              ELSE 0

ReceiptValid(i) ==
    LET r == receipts[i]
    IN  /\ r.number \in 1..usage.attempts
        /\ r.prior < r.number
        /\ usage.started <= r.admitted /\ r.admitted <= checked
        /\ IF r.outcome = "running" THEN r.finished = NoTime
           ELSE r.admitted <= r.finished /\ r.finished <= checked

Follows(i, k) ==     \* the attempt i came right before the attempt k
    LET r == receipts[i]  s == receipts[k]
    IN  /\ r.outcome \in Confirmed
        /\ s.prior = IF r.outcome = "failed" THEN r.prior + 1 ELSE 0
        /\ s.admitted >= r.finished

RecordValid ==
    /\ UsageMatches
    /\ \A i \in ChargedIntents : ReceiptValid(i)
    /\ \A i, k \in ChargedIntents : receipts[i].number = receipts[k].number => i = k
    /\ \A i \in ChargedIntents : receipts[i].number = 1 => receipts[i].prior = 0
    /\ \A i, k \in ChargedIntents :
         receipts[k].number = receipts[i].number + 1 => Follows(i, k)

(***************************************************************************)
(* TimeNeverReturns: setting the clock back gives a bounded task no time:  *)
(* its watermark never falls, and no attempt is admitted once the          *)
(* watermark reached the deadline (decide, _decide_task_policy,            *)
(* finish_task_attempt).                                                   *)
(***************************************************************************)
TimeNeverReturns ==
    [][ /\ checked <= checked'
        /\ usage'.attempts # usage.attempts /\ current # None =>
             checked < Deadline(policy, usage) ]_ledgerVars
=============================================================================
