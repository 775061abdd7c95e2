---------------------------- MODULE PolicyLedger ----------------------------
(***************************************************************************)
(* The durable record of one bounded task (store.py: set_task_policy,      *)
(* task_policy_status, admit_task_attempt, finish_task_attempt).  Each     *)
(* operation is one SQLite transaction.  The record keeps the same facts   *)
(* twice, in usage and in the receipts of the attempts, and the store      *)
(* refuses to read one in which they disagree (_validate_policy_record).   *)
(***************************************************************************)
EXTENDS TaskPolicy

CONSTANTS
    Intents,     \* request ids of host inputs
    None,        \* SQL NULL
    Policies,    \* the limits an operator may set
    MaxTime      \* bound: the clock stops here

ASSUME IntentsAssumption == None \notin Intents /\ IsFiniteSet(Intents)
ASSUME PoliciesAssumption ==
    /\ Policies \subseteq [elapsed : Nat \ {0}, attempts : Nat \ {0}, retries : Nat,
                           retryWait : Nat \ {0}, unchangedWait : Nat \ {0}]
    /\ MaxTime \in Nat

VARIABLES
    now,         \* time.time(), in seconds
    policy,      \* the limits in force; None before the first are set
    usage,       \* TaskUsage, or NoUsage
    checked,     \* last_checked_at: the watermark of the task's clock
    receipts,    \* attempts: the receipt of each charged intent, or NoReceipt
    current      \* current_attempt_id

ledgerVars == <<now, policy, usage, checked, receipts, current>>

Times == 0..MaxTime

Usage == [started : Times, attempts : Nat, failures : Nat, outcome : Outcomes,
          finished : Times \cup {NoTime}]
NoUsage == [started |-> NoTime, attempts |-> 0, failures |-> 0, outcome |-> NoOutcome,
            finished |-> NoTime]

Receipt == [number : Nat, prior : Nat, admitted : Times, outcome : Outcomes,
            finished : Times \cup {NoTime}]
NoReceipt == [number |-> 0, prior |-> 0, admitted |-> NoTime, outcome |-> NoOutcome,
              finished |-> NoTime]

LedgerTypeOK ==
    /\ now \in Times
    /\ policy \in Policies \cup {None}
    /\ usage \in Usage \cup {NoUsage}
    /\ checked \in Times \cup {NoTime}
    /\ receipts \in [Intents -> Receipt \cup {NoReceipt}]
    /\ current \in Intents \cup {None}

LedgerInit ==
    /\ now = 0
    /\ policy = None
    /\ usage = NoUsage
    /\ checked = NoTime
    /\ receipts = [i \in Intents |-> NoReceipt]
    /\ current = None

Charged(i) == receipts[i] # NoReceipt

\* An unused task starts its clock with the decision itself.
Facts ==
    [started  |-> IF current = None THEN now ELSE usage.started,
     attempts |-> usage.attempts,
     failures |-> usage.failures,
     outcome  |-> usage.outcome,
     finished |-> usage.finished,
     checked  |-> IF current = None THEN Later(now, checked) ELSE checked]

SetPolicy(p) ==
    /\ policy' = p
    /\ UNCHANGED <<now, usage, checked, receipts, current>>

\* Mutant of LookAt: the watermark follows the clock down.
LookAtClock == checked' = now

\* Every decision saves what it observed, also those that deny or only report.
LookAt == checked' = Observed(Facts, now)

PolicyStatus ==
    /\ policy # None
    /\ LookAt
    /\ UNCHANGED <<now, policy, usage, receipts, current>>

Allowed(busy) == Ready(policy, Facts, now, busy)

\* Mutant of Charge: the failures before the attempt are not carried over.
ChargeForgets(i) ==
    /\ usage' = [started |-> Facts.started, attempts |-> usage.attempts + 1,
                 failures |-> usage.failures, outcome |-> "running", finished |-> NoTime]
    /\ receipts' = [receipts EXCEPT ![i] =
         [number |-> usage.attempts + 1, prior |-> 0, admitted |-> now,
          outcome |-> "running", finished |-> NoTime]]
    /\ current' = i

\* The attempt is charged before anything is sent.
Charge(i) ==
    /\ usage' = [started |-> Facts.started, attempts |-> usage.attempts + 1,
                 failures |-> usage.failures, outcome |-> "running", finished |-> NoTime]
    /\ receipts' = [receipts EXCEPT ![i] =
         [number |-> usage.attempts + 1, prior |-> usage.failures, admitted |-> now,
          outcome |-> "running", finished |-> NoTime]]
    /\ current' = i

\* admit_task_attempt that charges an intent it does not know yet.
AdmitAttempt(i, busy) ==
    /\ policy # None /\ ~Charged(i) /\ Allowed(busy)
    /\ LookAt
    /\ Charge(i)
    /\ UNCHANGED <<now, policy>>

\* admit_task_attempt that charges nothing.
DenyAttempt(i, busy) ==
    /\ policy # None /\ ~Charged(i) /\ ~Allowed(busy)
    /\ LookAt
    /\ UNCHANGED <<now, policy, usage, receipts, current>>

FinishedAt(i) == Later(Later(now, receipts[i].admitted), checked)

\* Mutant of FailuresAfter: an unknown outcome takes back a failure that it never added.
FailuresTakenBack(i, outcome) ==
    IF outcome = "failed" THEN receipts[i].prior + 1
    ELSE IF outcome = "unknown" THEN receipts[i].prior - 1
    ELSE 0

\* An unknown outcome neither adds a failure nor clears those before it.
FailuresAfter(i, outcome) ==
    IF outcome = "failed" THEN receipts[i].prior + 1
    ELSE IF outcome = "unknown" THEN receipts[i].prior
    ELSE 0

Settle(i, outcome) ==
    /\ usage' = [started |-> usage.started, attempts |-> usage.attempts,
                 failures |-> FailuresAfter(i, outcome), outcome |-> outcome,
                 finished |-> FinishedAt(i)]
    /\ receipts' = [receipts EXCEPT ![i] =
         [number |-> receipts[i].number, prior |-> receipts[i].prior,
          admitted |-> receipts[i].admitted, outcome |-> outcome, finished |-> FinishedAt(i)]]
    /\ checked' = FinishedAt(i)

(***************************************************************************)
(* finish_task_attempt of the current attempt.  A duplicate of the same    *)
(* outcome changes nothing, in particular not when the attempt finished.   *)
(***************************************************************************)
FinishAttempt(i, outcome) ==
    /\ policy # None /\ current = i
    /\ \/ receipts[i].outcome = outcome /\ UNCHANGED <<usage, receipts, checked>>
       \/ /\ receipts[i].outcome # outcome
          /\ receipts[i].outcome \in Unresolved
          /\ Settle(i, outcome)
    /\ UNCHANGED <<now, policy, current>>

Tick ==
    /\ now < MaxTime
    /\ now' = now + 1
    /\ UNCHANGED <<policy, usage, checked, receipts, current>>

\* time.time() follows the wall clock, which can be set back.
ClockBack ==
    /\ now > 0
    /\ now' = now - 1
    /\ UNCHANGED <<policy, usage, checked, receipts, current>>

-----------------------------------------------------------------------------
(* Any caller, in any order: what the service does is a part of it. *)

LedgerNext ==
    \/ \E p \in Policies : SetPolicy(p)
    \/ PolicyStatus
    \/ \E i \in Intents, busy \in BOOLEAN : AdmitAttempt(i, busy) \/ DenyAttempt(i, busy)
    \/ \E i \in Intents, outcome \in Outcomes \ {"running"} : FinishAttempt(i, outcome)
    \/ Tick
    \/ ClockBack

LedgerSpec == LedgerInit /\ [][LedgerNext]_ledgerVars
=============================================================================
