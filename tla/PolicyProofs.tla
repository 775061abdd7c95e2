---------------------------- MODULE PolicyProofs ----------------------------
(***************************************************************************)
(* The record of a bounded task stays acceptable to the store, and its     *)
(* clock runs one way.  The service around it uses the record only through *)
(* the record's operations, spends no more than the limits allow, loses no *)
(* charge, and never takes an old stop for proof of a new turn: for any    *)
(* number of inputs, any limits, any crashes and any other clients.        *)
(***************************************************************************)
EXTENDS PolicyProperties, FiniteSetTheorems, TLAPS

\* Types and contents depend on each other: only together they are inductive.
RecordInv == LedgerTypeOK /\ RecordValid

-----------------------------------------------------------------------------
(* Facts about the parts. *)

LEMMA LaterFacts ==
    ASSUME NEW s \in Int, NEW t \in Int
    PROVE  /\ Later(s, t) \in Int
           /\ Later(s, t) >= s
           /\ Later(s, t) >= t
           /\ Later(s, t) \in {s, t}
BY DEF Later

LEMMA LimitTypes ==
    ASSUME LedgerTypeOK, policy # None
    PROVE  /\ policy.elapsed \in Nat \ {0}
           /\ policy.attempts \in Nat /\ policy.retries \in Nat
           /\ policy.retryWait \in Nat /\ policy.unchangedWait \in Nat
BY PoliciesAssumption DEF LedgerTypeOK

LEMMA FactTypes ==
    ASSUME LedgerTypeOK, current # None => usage \in Usage
    PROVE  /\ Facts.started \in Times
           /\ Facts.checked \in Times \cup {NoTime}
           /\ Facts.finished \in Times \cup {NoTime}
           /\ Facts.attempts = usage.attempts
           /\ Facts.failures = usage.failures
           /\ Facts.outcome = usage.outcome
           /\ Facts.finished = usage.finished
           /\ current # None => Facts.checked = checked /\ Facts.started = usage.started
           /\ current = None => Facts.started = now
<1>1. now \in Int /\ checked \in Int
  BY PoliciesAssumption DEF LedgerTypeOK, Times, NoTime
<1>2. Later(now, checked) \in Times \cup {NoTime}
  BY <1>1, LaterFacts DEF LedgerTypeOK
<1>3. usage.finished \in Times \cup {NoTime}
  BY DEF LedgerTypeOK, Usage, NoUsage
<1>4. current # None => usage.started \in Times
  BY DEF Usage
<1> QED
  BY <1>2, <1>3, <1>4 DEF Facts, LedgerTypeOK

LEMMA ObservedFacts ==
    ASSUME LedgerTypeOK, current # None => usage \in Usage
    PROVE  /\ Observed(Facts, now) \in Times
           /\ Observed(Facts, now) >= now
           /\ Observed(Facts, now) >= Facts.started
           /\ Observed(Facts, now) >= Facts.finished
           /\ Observed(Facts, now) >= Facts.checked
<1> DEFINE a == Later(now, Facts.started)
           b == Later(Facts.finished, Facts.checked)
<1>1. /\ now \in Int /\ Facts.started \in Int /\ Facts.finished \in Int /\ Facts.checked \in Int
      /\ now \in Times /\ Facts.started \in Times
  BY FactTypes, PoliciesAssumption DEF LedgerTypeOK, Times, NoTime
<1>2. a \in Int /\ a >= now /\ a >= Facts.started /\ a \in Times
  BY <1>1, LaterFacts
<1>3. b \in Int /\ b >= Facts.finished /\ b >= Facts.checked /\ b \in Times \cup {NoTime}
  BY <1>1, LaterFacts, FactTypes
<1>4. Later(a, b) \in Int /\ Later(a, b) >= a /\ Later(a, b) >= b /\ Later(a, b) \in {a, b}
  BY <1>2, <1>3, LaterFacts
<1> HIDE DEF a, b
<1>5. Later(a, b) \in Times
  BY <1>2, <1>3, <1>4, PoliciesAssumption DEF Times, NoTime
<1>6. Observed(Facts, now) = Later(a, b)
  BY DEF Observed, a, b
<1> QED
  BY <1>1, <1>2, <1>3, <1>4, <1>5, <1>6

LEMMA CurrentAttempt ==
    ASSUME RecordInv, current # None
    PROVE  /\ current \in Intents
           /\ usage \in Usage
           /\ receipts[current] \in Receipt
           /\ current \in ChargedIntents
           /\ checked \in Times
<1>1. current \in Intents /\ Charged(current)
  BY DEF RecordInv, LedgerTypeOK, RecordValid, UsageMatches
<1>2. receipts[current] \in Receipt
  BY <1>1 DEF RecordInv, LedgerTypeOK, Charged
<1>3. usage.outcome \in Outcomes
  BY <1>2 DEF RecordInv, RecordValid, UsageMatches, Receipt
<1>4. usage # NoUsage
  BY <1>3 DEF NoUsage, Outcomes, Confirmed, Unresolved, NoOutcome
<1>5. usage \in Usage
  BY <1>4 DEF RecordInv, LedgerTypeOK
<1>6. checked # NoTime
  BY <1>5 DEF RecordInv, RecordValid, UsageMatches, Usage, Times, NoTime
<1> QED
  BY <1>1, <1>2, <1>5, <1>6 DEF ChargedIntents, RecordInv, LedgerTypeOK

LEMMA UsageKnown ==
    ASSUME RecordInv
    PROVE  current # None => usage \in Usage
BY CurrentAttempt

LEMMA ReceiptTypes ==
    ASSUME RecordInv, NEW i \in ChargedIntents
    PROVE  i \in Intents /\ receipts[i] \in Receipt
BY DEF RecordInv, LedgerTypeOK, ChargedIntents, Charged

-----------------------------------------------------------------------------
(* Operations that leave usage and receipts alone. *)

\* The receipts stay right while the watermark rises.
LEMMA WatermarkRises ==
    ASSUME RecordInv, UNCHANGED <<usage, receipts, current>>, LedgerTypeOK',
           current # None => checked' >= checked
    PROVE  RecordInv'
<1>1. CASE current = None
  BY <1>1 DEF RecordInv, RecordValid, UsageMatches, ChargedIntents, Charged, ReceiptValid, Follows
<1>2. CASE current # None
  <2>1. checked \in Int /\ checked' \in Int /\ checked' >= checked /\ usage.started \in Int
    BY <1>2, CurrentAttempt DEF LedgerTypeOK, Times, NoTime, Usage
  <2>2. ChargedIntents' = ChargedIntents
    BY DEF ChargedIntents, Charged
  <2>3. UsageMatches'
    BY <1>2, <2>1, <2>2 DEF RecordInv, RecordValid, UsageMatches, Charged
  <2>4. ASSUME NEW i \in ChargedIntents
        PROVE  ReceiptValid(i)'
    <3>1. receipts[i].admitted \in Int /\ receipts[i].finished \in Int
      BY ReceiptTypes DEF Receipt, Times, NoTime
    <3>2. ReceiptValid(i)
      BY DEF RecordInv, RecordValid
    <3> QED
      BY <2>1, <3>1, <3>2 DEF ReceiptValid
  <2> QED
    BY <2>2, <2>3, <2>4 DEF RecordInv, RecordValid, Follows
<1> QED
  BY <1>1, <1>2

LEMMA SetPolicyKeeps ==
    ASSUME RecordInv, NEW p \in Policies, SetPolicy(p)
    PROVE  RecordInv'
<1>1. LedgerTypeOK'
  BY DEF RecordInv, LedgerTypeOK, SetPolicy
<1>2. checked \in Int
  BY PoliciesAssumption DEF RecordInv, LedgerTypeOK, Times, NoTime
<1> QED
  BY <1>1, <1>2, WatermarkRises DEF SetPolicy

LEMMA ClockKeeps ==
    ASSUME RecordInv, Tick \/ ClockBack
    PROVE  RecordInv'
<1>1. now' \in Times
  BY PoliciesAssumption DEF RecordInv, LedgerTypeOK, Times, Tick, ClockBack
<1>2. LedgerTypeOK'
  BY <1>1 DEF RecordInv, LedgerTypeOK, Tick, ClockBack
<1>3. checked \in Int
  BY PoliciesAssumption DEF RecordInv, LedgerTypeOK, Times, NoTime
<1> QED
  BY <1>2, <1>3, WatermarkRises DEF Tick, ClockBack

LEMMA LookKeeps ==
    ASSUME RecordInv, LookAt, UNCHANGED <<now, policy, usage, receipts, current>>
    PROVE  RecordInv'
<1>1. checked' \in Times /\ (current # None => checked' >= checked)
  BY UsageKnown, ObservedFacts, FactTypes DEF LookAt, RecordInv
<1>2. LedgerTypeOK'
  BY <1>1 DEF RecordInv, LedgerTypeOK
<1> QED
  BY <1>1, <1>2, WatermarkRises

-----------------------------------------------------------------------------
(* A charged attempt. *)

LEMMA ChargedFinite == IsFiniteSet(ChargedIntents)
BY IntentsAssumption, FS_Subset DEF ChargedIntents

LEMMA AdmitKeeps ==
    ASSUME RecordInv, NEW i \in Intents, NEW busy \in BOOLEAN, AdmitAttempt(i, busy)
    PROVE  RecordInv'
<1> DEFINE n == usage.attempts + 1
           r == [number |-> n, prior |-> usage.failures, admitted |-> now,
                 outcome |-> "running", finished |-> NoTime]
<1>1. /\ usage.attempts \in Nat /\ usage.failures \in Nat
      /\ now \in Times /\ now \in Int
      /\ Facts.started \in Times /\ Facts.started \in Int
  BY UsageKnown, FactTypes, PoliciesAssumption
     DEF RecordInv, LedgerTypeOK, Usage, NoUsage, Times
<1>2. /\ usage' = [started |-> Facts.started, attempts |-> n, failures |-> usage.failures,
                   outcome |-> "running", finished |-> NoTime]
      /\ receipts' = [receipts EXCEPT ![i] = r]
      /\ current' = i /\ current' # None
      /\ UNCHANGED <<now, policy>>
      /\ policy # None /\ ~Charged(i)
  BY IntentsAssumption DEF AdmitAttempt, Charge
<1> HIDE DEF r, n
\* The decision: the clock is not behind anything the task has seen.
<1>3. /\ checked' = Observed(Facts, now) /\ now >= Observed(Facts, now)
      /\ usage.outcome \notin Unresolved \cup {"complete"}
  BY UsageKnown, FactTypes DEF AdmitAttempt, Allowed, Ready, LookAt, RecordInv
<1>4. /\ checked' = now /\ now >= Facts.started /\ now >= Facts.finished
      /\ now >= Facts.checked
  <2>1. /\ Observed(Facts, now) \in Int /\ Facts.finished \in Int /\ Facts.checked \in Int
        /\ Observed(Facts, now) >= now
        /\ Observed(Facts, now) >= Facts.started
        /\ Observed(Facts, now) >= Facts.finished
        /\ Observed(Facts, now) >= Facts.checked
    BY UsageKnown, ObservedFacts, FactTypes, PoliciesAssumption DEF RecordInv, Times, NoTime
  <2> QED
    BY <1>1, <1>3, <2>1
<1>5. r \in Receipt /\ r # NoReceipt
      /\ r.number = n /\ r.prior = usage.failures /\ r.admitted = now
      /\ r.outcome = "running" /\ r.finished = NoTime
  BY <1>1 DEF r, n, Receipt, Outcomes, Unresolved, NoReceipt, NoOutcome
<1>6. /\ receipts'[i] = r
      /\ \A k \in Intents : k # i => receipts'[k] = receipts[k]
  BY <1>2 DEF RecordInv, LedgerTypeOK
<1>7. LedgerTypeOK'
  <2>1. usage' \in Usage
    BY <1>1, <1>2 DEF n, Usage, Outcomes, Unresolved
  <2>2. receipts' \in [Intents -> Receipt \cup {NoReceipt}]
    BY <1>2, <1>5 DEF RecordInv, LedgerTypeOK
  <2> QED
    BY <1>1, <1>2, <1>4, <2>1, <2>2 DEF RecordInv, LedgerTypeOK
<1>8. ChargedIntents' = ChargedIntents \cup {i} /\ i \notin ChargedIntents
  BY <1>2, <1>5, <1>6 DEF ChargedIntents, Charged
<1>9. /\ usage.attempts = Cardinality(ChargedIntents)
      /\ current = None => ChargedIntents = {} /\ usage.attempts = 0 /\ usage.failures = 0
      /\ current # None => Facts.started = usage.started /\ Facts.checked = checked
      /\ Facts.finished = usage.finished
  <2>1. usage.attempts = Cardinality(ChargedIntents)
    BY FS_EmptySet DEF RecordInv, RecordValid, UsageMatches, NoUsage
  <2>2. current = None => ChargedIntents = {} /\ usage.attempts = 0 /\ usage.failures = 0
    BY DEF RecordInv, RecordValid, UsageMatches, NoUsage
  <2> QED
    BY <2>1, <2>2, UsageKnown, FactTypes DEF RecordInv
<1>10. UsageMatches'
  <2>1. Cardinality(ChargedIntents') = n
    BY <1>8, <1>9, ChargedFinite, FS_AddElement DEF n
  <2>2. Charged(i)'
    BY <1>5, <1>6 DEF Charged
  <2> QED
    BY <1>2, <1>4, <1>5, <1>6, <2>1, <2>2 DEF UsageMatches, n, Unresolved
\* What is known of the earlier attempts.
<1>11. ASSUME NEW k \in ChargedIntents
       PROVE  /\ k # i /\ k \in Intents /\ receipts'[k] = receipts[k] /\ receipts[k] \in Receipt
              /\ receipts[k].number \in 1..usage.attempts
              /\ ReceiptValid(k) /\ current # None
              /\ receipts[k].number = usage.attempts => k = current
  <2>1. k # i /\ k \in Intents /\ receipts'[k] = receipts[k] /\ receipts[k] \in Receipt
    BY <1>6, <1>8, ReceiptTypes
  <2>2. ReceiptValid(k) /\ receipts[k].number \in 1..usage.attempts
    BY DEF RecordInv, RecordValid, ReceiptValid
  <2>3. current # None /\ current \in ChargedIntents /\ receipts[current].number = usage.attempts
    BY <1>9, CurrentAttempt DEF RecordInv, RecordValid, UsageMatches
  <2>4. receipts[k].number = usage.attempts => k = current
    BY <2>3 DEF RecordInv, RecordValid
  <2> QED
    BY <2>1, <2>2, <2>3, <2>4
<1>12. usage.failures < n /\ (n = 1 => usage.failures = 0)
  <2>1. CASE current = None
    BY <2>1, <1>1, <1>9 DEF n
  <2>2. CASE current # None
    <3>1. /\ current \in ChargedIntents /\ receipts[current].prior \in Nat
          /\ receipts[current].prior < receipts[current].number
          /\ receipts[current].number = usage.attempts
      BY <2>2, CurrentAttempt DEF RecordInv, RecordValid, UsageMatches, ReceiptValid, Receipt
    <3>2. \/ usage.failures = receipts[current].prior + 1
          \/ usage.failures = 0
      BY <2>2, <1>3 DEF RecordInv, RecordValid, UsageMatches
    <3> QED
      BY <1>1, <3>1, <3>2 DEF n
  <2> QED
    BY <2>1, <2>2
<1>13. \A k \in ChargedIntents' : ReceiptValid(k)'
  <2>1. ReceiptValid(i)'
    BY <1>1, <1>2, <1>4, <1>5, <1>6, <1>12 DEF ReceiptValid, n
  <2>2. ASSUME NEW k \in ChargedIntents
        PROVE  ReceiptValid(k)'
    <3>1. /\ receipts[k].admitted \in Int /\ receipts[k].finished \in Int
          /\ receipts[k].number \in Nat /\ checked \in Int /\ now >= checked
          /\ usage'.started = usage.started /\ usage'.attempts = n
      BY <1>2, <1>4, <1>9, <1>11, PoliciesAssumption
         DEF Receipt, Times, NoTime, RecordInv, LedgerTypeOK
    <3> QED
      BY <1>1, <1>4, <1>11, <3>1 DEF ReceiptValid, n
  <2> QED
    BY <1>8, <2>1, <2>2
<1>14. \A j, k \in ChargedIntents' : receipts'[j].number = receipts'[k].number => j = k
  BY <1>1, <1>5, <1>6, <1>8, <1>11 DEF n, RecordInv, RecordValid
<1>15. \A k \in ChargedIntents' : receipts'[k].number = 1 => receipts'[k].prior = 0
  BY <1>5, <1>6, <1>8, <1>11, <1>12 DEF RecordInv, RecordValid
<1>16. ASSUME NEW j \in ChargedIntents', NEW k \in ChargedIntents',
              receipts'[k].number = receipts'[j].number + 1
       PROVE  Follows(j, k)'
  <2>1. CASE j # i /\ k # i
    BY <2>1, <1>8, <1>11, <1>16 DEF RecordInv, RecordValid, Follows
  <2>2. CASE j = i
    BY <2>2, <1>1, <1>5, <1>6, <1>8, <1>11, <1>16 DEF n
  <2>3. CASE j # i /\ k = i
    <3>1. j = current /\ current # None /\ receipts'[j] = receipts[current]
      BY <2>3, <1>1, <1>5, <1>6, <1>8, <1>11, <1>16 DEF n
    <3>2. /\ receipts[current].outcome = usage.outcome
          /\ receipts[current].finished = usage.finished
          /\ receipts[current].outcome \in Outcomes
          /\ usage.failures = IF usage.outcome = "failed" THEN receipts[current].prior + 1
                              ELSE IF usage.outcome \in Unresolved THEN receipts[current].prior
                              ELSE 0
      BY <3>1, CurrentAttempt DEF RecordInv, RecordValid, UsageMatches, Receipt
    <3>3. usage.outcome \in Confirmed
      BY <1>3, <3>2 DEF Outcomes
    <3> QED
      BY <2>3, <1>3, <1>4, <1>5, <1>6, <1>9, <3>1, <3>2, <3>3 DEF Follows
  <2> QED
    BY <2>1, <2>2, <2>3
<1> QED
  BY <1>7, <1>10, <1>13, <1>14, <1>15, <1>16 DEF RecordInv, RecordValid

-----------------------------------------------------------------------------
(* An outcome for the current attempt. *)

LEMMA FinishedAtFacts ==
    ASSUME RecordInv, NEW i \in Intents, current = i
    PROVE  /\ FinishedAt(i) \in Times
           /\ FinishedAt(i) >= receipts[i].admitted
           /\ FinishedAt(i) >= checked
<1>1. /\ now \in Times /\ checked \in Times /\ receipts[i].admitted \in Times
      /\ now \in Int /\ checked \in Int /\ receipts[i].admitted \in Int
  BY CurrentAttempt, IntentsAssumption, PoliciesAssumption
     DEF RecordInv, LedgerTypeOK, Receipt, Times
<1> DEFINE a == Later(now, receipts[i].admitted)
<1>2. a \in Int /\ a >= receipts[i].admitted /\ a \in Times
  BY <1>1, LaterFacts
<1> HIDE DEF a
<1>3. Later(a, checked) \in Int /\ Later(a, checked) >= a /\ Later(a, checked) >= checked
      /\ Later(a, checked) \in Times
  BY <1>1, <1>2, LaterFacts
<1>4. FinishedAt(i) = Later(a, checked)
  BY DEF FinishedAt, a
<1> QED
  BY <1>1, <1>2, <1>3, <1>4

LEMMA SettleKeeps ==
    ASSUME RecordInv, NEW i \in Intents, NEW outcome \in Outcomes \ {"running"},
           current = i, receipts[i].outcome \in Unresolved, Settle(i, outcome),
           UNCHANGED <<now, policy, current>>
    PROVE  RecordInv'
<1> DEFINE f == FinishedAt(i)
           r == [number |-> receipts[i].number, prior |-> receipts[i].prior,
                 admitted |-> receipts[i].admitted, outcome |-> outcome, finished |-> f]
<1>1. /\ usage \in Usage /\ receipts[i] \in Receipt /\ i \in ChargedIntents /\ checked \in Times
      /\ current # None
  BY CurrentAttempt, IntentsAssumption
<1>2. f \in Times /\ f >= receipts[i].admitted /\ f >= checked
  BY FinishedAtFacts
<1>3. /\ usage' = [started |-> usage.started, attempts |-> usage.attempts,
                   failures |-> FailuresAfter(i, outcome), outcome |-> outcome, finished |-> f]
      /\ receipts' = [receipts EXCEPT ![i] = r]
      /\ checked' = f /\ current' = i /\ UNCHANGED <<now, policy>>
  BY DEF Settle
<1> HIDE DEF f
<1>4. /\ r \in Receipt /\ r # NoReceipt
      /\ r.number = receipts[i].number /\ r.prior = receipts[i].prior
      /\ r.admitted = receipts[i].admitted /\ r.outcome = outcome /\ r.finished = f
  BY <1>1, <1>2 DEF Receipt, NoReceipt, Outcomes, Confirmed, Unresolved, NoOutcome
<1> HIDE DEF r
<1>5. receipts'[i] = r /\ \A k \in Intents : k # i => receipts'[k] = receipts[k]
  BY <1>3 DEF RecordInv, LedgerTypeOK
<1>6. /\ FailuresAfter(i, outcome) \in Nat
      /\ FailuresAfter(i, outcome) =
           IF outcome = "failed" THEN receipts[i].prior + 1
           ELSE IF outcome \in Unresolved THEN receipts[i].prior
           ELSE 0
  BY <1>1 DEF FailuresAfter, Receipt, Unresolved
<1>7. LedgerTypeOK'
  <2>1. usage' \in Usage
    BY <1>1, <1>2, <1>3, <1>6 DEF Usage
  <2>2. receipts' \in [Intents -> Receipt \cup {NoReceipt}]
    BY <1>3, <1>4 DEF RecordInv, LedgerTypeOK
  <2> QED
    BY <1>2, <1>3, <2>1, <2>2 DEF RecordInv, LedgerTypeOK
<1>8. ChargedIntents' = ChargedIntents
  BY <1>1, <1>4, <1>5 DEF ChargedIntents, Charged
<1>9. UsageMatches'
  <2>1. /\ usage.attempts = Cardinality(ChargedIntents)
        /\ receipts[i].number = usage.attempts
        /\ checked >= usage.started
    BY <1>1 DEF RecordInv, RecordValid, UsageMatches
  <2>2. checked \in Int /\ f \in Int /\ usage.started \in Int
    BY <1>1, <1>2, PoliciesAssumption DEF Times, Usage
  <2>3. Charged(i)'
    BY <1>4, <1>5 DEF Charged
  <2> QED
    BY <1>1, <1>2, <1>3, <1>4, <1>5, <1>6, <1>8, <2>1, <2>2, <2>3 DEF UsageMatches
<1>10. ASSUME NEW k \in ChargedIntents
       PROVE  /\ receipts'[k].number = receipts[k].number
              /\ receipts'[k].prior = receipts[k].prior
              /\ receipts'[k].admitted = receipts[k].admitted
              /\ k # i => receipts'[k] = receipts[k]
              /\ receipts[k].number \in 1..usage.attempts
              /\ receipts[k] \in Receipt /\ ReceiptValid(k)
  BY <1>4, <1>5, ReceiptTypes DEF RecordInv, RecordValid, ReceiptValid
<1>11. ASSUME NEW k \in ChargedIntents
       PROVE  ReceiptValid(k)'
  <2>1. /\ checked \in Int /\ f \in Int /\ usage.started \in Int
        /\ receipts[k].admitted \in Int /\ receipts[k].finished \in Int
    BY <1>1, <1>2, <1>10, PoliciesAssumption DEF Times, Usage, Receipt, NoTime
  <2>2. CASE k = i
    BY <2>1, <2>2, <1>2, <1>3, <1>4, <1>5, <1>10 DEF ReceiptValid
  <2>3. CASE k # i
    BY <2>1, <2>3, <1>2, <1>3, <1>10 DEF ReceiptValid
  <2> QED
    BY <2>2, <2>3
\* The current attempt is the last: nothing follows it.
<1>12. ASSUME NEW j \in ChargedIntents, NEW k \in ChargedIntents,
              receipts'[k].number = receipts'[j].number + 1
       PROVE  Follows(j, k)'
  <2>1. receipts[i].number = usage.attempts /\ usage.attempts \in Nat
    BY <1>1 DEF RecordInv, RecordValid, UsageMatches, Usage
  <2>2. j # i
    BY <1>10, <1>12, <2>1
  <2>3. Follows(j, k)
    BY <1>10, <1>12 DEF RecordInv, RecordValid
  <2> QED
    BY <1>10, <2>2, <2>3 DEF Follows
<1>13. \A j, k \in ChargedIntents' : receipts'[j].number = receipts'[k].number => j = k
  BY <1>8, <1>10 DEF RecordInv, RecordValid
<1>14. \A k \in ChargedIntents' : receipts'[k].number = 1 => receipts'[k].prior = 0
  BY <1>8, <1>10 DEF RecordInv, RecordValid
<1> QED
  BY <1>7, <1>8, <1>9, <1>11, <1>12, <1>13, <1>14 DEF RecordInv, RecordValid

LEMMA FinishKeeps ==
    ASSUME RecordInv, NEW i \in Intents, NEW outcome \in Outcomes \ {"running"},
           FinishAttempt(i, outcome)
    PROVE  RecordInv'
<1>1. CASE receipts[i].outcome = outcome /\ UNCHANGED <<usage, receipts, checked>>
  <2>1. LedgerTypeOK'
    BY <1>1 DEF FinishAttempt, RecordInv, LedgerTypeOK
  <2>2. checked \in Int
    BY PoliciesAssumption DEF RecordInv, LedgerTypeOK, Times, NoTime
  <2> QED
    BY <1>1, <2>1, <2>2, WatermarkRises DEF FinishAttempt
<1>2. CASE receipts[i].outcome \in Unresolved /\ Settle(i, outcome)
  BY <1>2, SettleKeeps DEF FinishAttempt
<1> QED
  BY <1>1, <1>2 DEF FinishAttempt

-----------------------------------------------------------------------------
(* The theorems. *)

LEMMA InitHolds == LedgerInit => RecordInv
<1> SUFFICES ASSUME LedgerInit PROVE RecordInv
  OBVIOUS
<1>1. LedgerTypeOK
  BY PoliciesAssumption DEF LedgerInit, LedgerTypeOK, Times
<1>2. ChargedIntents = {}
  BY DEF LedgerInit, ChargedIntents, Charged
<1> QED
  BY <1>1, <1>2 DEF LedgerInit, RecordInv, RecordValid, UsageMatches

LEMMA StepKeeps == RecordInv /\ [LedgerNext]_ledgerVars => RecordInv'
<1> SUFFICES ASSUME RecordInv, [LedgerNext]_ledgerVars PROVE RecordInv'
  OBVIOUS
<1>1. CASE \E p \in Policies : SetPolicy(p)
  BY <1>1, SetPolicyKeeps
<1>2. CASE PolicyStatus
  BY <1>2, LookKeeps DEF PolicyStatus
<1>3. CASE \E i \in Intents, busy \in BOOLEAN : AdmitAttempt(i, busy) \/ DenyAttempt(i, busy)
  BY <1>3, AdmitKeeps, LookKeeps DEF DenyAttempt
<1>4. CASE \E i \in Intents, outcome \in Outcomes \ {"running"} : FinishAttempt(i, outcome)
  BY <1>4, FinishKeeps
<1>5. CASE Tick \/ ClockBack
  BY <1>5, ClockKeeps
<1>6. CASE UNCHANGED ledgerVars
  <2>1. LedgerTypeOK'
    BY <1>6 DEF ledgerVars, RecordInv, LedgerTypeOK
  <2>2. checked \in Int
    BY PoliciesAssumption DEF RecordInv, LedgerTypeOK, Times, NoTime
  <2> QED
    BY <1>6, <2>1, <2>2, WatermarkRises DEF ledgerVars
<1> QED
  BY <1>1, <1>2, <1>3, <1>4, <1>5, <1>6 DEF LedgerNext

(***************************************************************************)
(* Types and contents of the record hold together: neither is inductive    *)
(* without the other (the store reads its columns back before each write,  *)
(* _validate_policy_record).                                               *)
(***************************************************************************)
THEOREM RecordInvariant == LedgerSpec => []RecordInv
BY InitHolds, StepKeeps, PTL DEF LedgerSpec

(***************************************************************************)
(* Every column of the record keeps its type (TaskUsage, attempt receipts).*)
(***************************************************************************)
THEOREM RecordTypes == LedgerSpec => []LedgerTypeOK
<1>1. RecordInv => LedgerTypeOK
  BY DEF RecordInv
<1> QED
  BY <1>1, RecordInvariant, PTL

(***************************************************************************)
(* Whatever the order of charges, outcomes, status reports, new limits and *)
(* clock changes, the store accepts the record (_validate_policy_record).  *)
(***************************************************************************)
THEOREM RecordAccepted == LedgerSpec => []RecordValid
<1>1. RecordInv => RecordValid
  BY DEF RecordInv
<1> QED
  BY <1>1, RecordInvariant, PTL

LEMMA StepTime ==
    RecordInv /\ [LedgerNext]_ledgerVars =>
      [ /\ checked <= checked'
        /\ usage'.attempts # usage.attempts /\ current # None =>
             checked < Deadline(policy, usage) ]_ledgerVars
<1> SUFFICES ASSUME RecordInv, LedgerNext
             PROVE  /\ checked <= checked'
                    /\ usage'.attempts # usage.attempts /\ current # None =>
                         checked < Deadline(policy, usage)
  OBVIOUS
<1>1. checked \in Times \cup {NoTime} /\ checked \in Int
  BY PoliciesAssumption DEF RecordInv, LedgerTypeOK, Times, NoTime
<1>2. ASSUME LookAt
      PROVE  checked <= checked'
  <2>1. /\ Observed(Facts, now) \in Times /\ Observed(Facts, now) >= Facts.checked
        /\ Facts.checked >= checked
    <3>1. CASE current # None
      BY <3>1, <1>1, UsageKnown, FactTypes, ObservedFacts DEF RecordInv
    <3>2. CASE current = None
      <4>1. now \in Int
        BY DEF RecordInv, LedgerTypeOK, Times
      <4>2. Facts.checked = Later(now, checked)
        BY <3>2 DEF Facts
      <4> QED
        BY <4>1, <4>2, <1>1, LaterFacts, UsageKnown, FactTypes, ObservedFacts DEF RecordInv
    <3> QED
      BY <3>1, <3>2
  <2>2. Facts.checked \in Int
    BY UsageKnown, FactTypes, PoliciesAssumption DEF RecordInv, Times, NoTime
  <2> QED
    BY <1>1, <1>2, <2>1, <2>2 DEF LookAt, Times
<1>3. CASE \E p \in Policies : SetPolicy(p)
  BY <1>1, <1>3 DEF SetPolicy
<1>4. CASE PolicyStatus
  BY <1>2, <1>4 DEF PolicyStatus
<1>5. ASSUME NEW i \in Intents, NEW busy \in BOOLEAN, DenyAttempt(i, busy)
      PROVE  checked <= checked' /\ usage' = usage
  BY <1>2, <1>5 DEF DenyAttempt
<1>6. ASSUME NEW i \in Intents, NEW busy \in BOOLEAN, AdmitAttempt(i, busy)
      PROVE  /\ checked <= checked'
             /\ current # None => checked < Deadline(policy, usage)
  <2>1. checked <= checked'
    BY <1>2, <1>6 DEF AdmitAttempt
  <2>2. ASSUME current # None
        PROVE  checked < Deadline(policy, usage)
    <3>1. ~(Deadline(policy, Facts) <= Observed(Facts, now)) /\ policy # None
      BY <1>6 DEF AdmitAttempt, Allowed, Ready, OutOfTime
    <3>2. /\ Observed(Facts, now) >= checked /\ Observed(Facts, now) \in Int
          /\ Facts.started = usage.started /\ usage.started \in Int
      BY <2>2, UsageKnown, FactTypes, ObservedFacts DEF RecordInv, Times
    <3>3. policy.elapsed \in Int
      BY <3>1, LimitTypes DEF RecordInv
    <3> QED
      BY <1>1, <3>1, <3>2, <3>3 DEF Deadline
  <2> QED
    BY <2>1, <2>2
<1>7. ASSUME NEW i \in Intents, NEW outcome \in Outcomes \ {"running"}, FinishAttempt(i, outcome)
      PROVE  checked <= checked' /\ usage'.attempts = usage.attempts
  <2>1. CASE UNCHANGED <<usage, receipts, checked>>
    BY <1>1, <2>1
  <2>2. CASE Settle(i, outcome)
    <3>1. FinishedAt(i) \in Int /\ FinishedAt(i) >= checked
      BY <1>7, FinishedAtFacts DEF FinishAttempt, Times
    <3> QED
      BY <1>1, <2>2, <3>1 DEF Settle
  <2> QED
    BY <1>7, <2>1, <2>2 DEF FinishAttempt
<1>8. CASE Tick \/ ClockBack
  BY <1>1, <1>8 DEF Tick, ClockBack
<1> QED
  BY <1>3, <1>4, <1>5, <1>6, <1>7, <1>8 DEF LedgerNext, PolicyStatus, SetPolicy, Tick, ClockBack

(***************************************************************************)
(* A clock that is set back gives a task no time: the watermark never      *)
(* falls, and beyond the deadline nothing is admitted (TaskPolicy.decide). *)
(***************************************************************************)
THEOREM TimeIsNotGivenBack == LedgerSpec => TimeNeverReturns
BY RecordInvariant, StepTime, PTL DEF LedgerSpec, TimeNeverReturns
-----------------------------------------------------------------------------
(* Every step of the service is a step of the record, or leaves it alone. *)

LEMMA SubmitCharges ==
    ASSUME NEW i \in Intents, SubmitCharged(i)
    PROVE  \E busy \in BOOLEAN : AdmitAttempt(i, busy)
<1>1. PICK active \in BOOLEAN : AdmitAttempt(i, active \/ IntentBusy)
  BY DEF SubmitCharged
<1>2. (active \/ IntentBusy) \in BOOLEAN
  OBVIOUS
<1> QED
  BY <1>1, <1>2

LEMMA FinishesIntent ==
    ASSUME NEW i \in Intents, NEW outcome \in Outcomes \ {"running"}, FinishIntent(i, outcome)
    PROVE  [LedgerNext]_ledgerVars
BY DEF FinishIntent, LedgerNext

LEMMA CompletesIntent ==
    ASSUME NEW i \in Intents, Completes(i)
    PROVE  [LedgerNext]_ledgerVars
BY FinishesIntent DEF Completes, Outcomes, Confirmed, Unresolved

LEMMA LooksIfLimited ==
    ASSUME LookIfLimited
    PROVE  [LedgerNext]_ledgerVars
BY DEF LookIfLimited, LedgerNext

LEMMA StepUsesLedger == RecordInv /\ [Next]_vars => [LedgerNext]_ledgerVars
<1> SUFFICES ASSUME RecordInv, [Next]_vars PROVE [LedgerNext]_ledgerVars
  OBVIOUS
<1>o. {"unknown", "failed"} \cup Confirmed \cup {"complete"} \subseteq Outcomes \ {"running"}
  BY DEF Outcomes, Confirmed, Unresolved
<1>1. CASE AssignPolicy
  BY <1>1 DEF AssignPolicy, LedgerNext
<1>2. ASSUME NEW i \in Intents, HostReconciles(i)
      PROVE  [LedgerNext]_ledgerVars
  BY <1>2, <1>o DEF HostReconciles, LedgerNext
<1>3. ASSUME NEW i \in Intents, Submit(i)
      PROVE  [LedgerNext]_ledgerVars
  BY <1>3, SubmitCharges DEF Submit, LedgerNext
<1>4. ASSUME NEW i \in Intents, SubmitDenied(i)
      PROVE  [LedgerNext]_ledgerVars
  <2>1. PICK active \in BOOLEAN : DenyAttempt(i, active \/ IntentBusy)
    BY <1>4 DEF SubmitDenied
  <2>2. (active \/ IntentBusy) \in BOOLEAN
    OBVIOUS
  <2> QED
    BY <2>1, <2>2 DEF LedgerNext
<1>5. ASSUME NEW i \in Intents, Unanswered(i) \/ HistoryMissing(i)
      PROVE  [LedgerNext]_ledgerVars
  BY <1>5, <1>o, FinishesIntent DEF Unanswered, HistoryMissing
<1>6. ASSUME NEW i \in Intents, Complete(i)
      PROVE  [LedgerNext]_ledgerVars
  BY <1>6, CompletesIntent DEF Complete
<1>7. ASSUME NEW i \in Intents,
             \/ Acknowledged(i) \/ TurnFound(i)
             \/ TurnStarts(i) \/ RequestLost(i) \/ TurnEnds(i)
      PROVE  [LedgerNext]_ledgerVars
  BY <1>7 DEF Acknowledged, TurnFound, TurnStarts, RequestLost, TurnEnds
<1>8. CASE StartDelivered \/ Pause \/ PauseStops \/ StopNative \/ StopProved
  BY <1>8 DEF StartDelivered, Pause, PauseStops, StopNative, StopProved
<1>9. CASE Enforce
  BY <1>9 DEF Enforce, LedgerNext
<1>10. CASE ResumeBegins \/ ResumeEnds
  BY <1>10, LooksIfLimited DEF ResumeBegins, ResumeEnds
<1>11. CASE Crash
  <2>1. CASE UNCHANGED ledgerVars
    BY <2>1
  <2>2. ASSUME NEW i \in Intents, SubmitCharged(i)
        PROVE  [LedgerNext]_ledgerVars
    BY <2>2, SubmitCharges DEF LedgerNext
  <2> QED
    BY <1>11, <2>1, <2>2, CompletesIntent DEF Crash
<1>12. CASE Restart
  <2>1. CASE usage.outcome \in Unresolved
    <3>1. current \in Intents /\ FinishAttempt(current, "unknown")
      BY <1>12, <2>1 DEF Restart, FinishAttempt, RecordInv, RecordValid, UsageMatches,
           NoUsage, Unresolved, NoOutcome, LedgerTypeOK
    <3> QED
      BY <1>o, <3>1 DEF LedgerNext
  <2>2. CASE usage.outcome \notin Unresolved
    BY <1>12, <2>2 DEF Restart
  <2> QED
    BY <2>1, <2>2
<1>13. CASE StrangerStarts \/ StrangerEnds
  BY <1>13 DEF StrangerStarts, StrangerEnds
<1>14. CASE Time \/ SetBack
  BY <1>14 DEF Time, SetBack, LedgerNext
<1>15. CASE UNCHANGED vars
  BY <1>15 DEF vars
<1> QED
  BY <1>1, <1>2, <1>3, <1>4, <1>5, <1>6, <1>7, <1>8, <1>9, <1>10, <1>11, <1>12, <1>13, <1>14,
     <1>15 DEF Next

LEMMA ServiceInit == Init => LedgerInit
BY DEF Init

(***************************************************************************)
(* The record's invariant survives the service around it: every handler of *)
(* submit, completion, recovery and the deadline stop leaves it whole.     *)
(***************************************************************************)
THEOREM ServiceRecordInvariant == Spec => []RecordInv
<1>1. Init => RecordInv
  BY ServiceInit, InitHolds
<1>2. RecordInv /\ [Next]_vars => RecordInv'
  BY StepUsesLedger, StepKeeps
<1> QED
  BY <1>1, <1>2, PTL DEF Spec

(***************************************************************************)
(* The service drives the record through the store's operations only, and  *)
(* each at a moment when the store accepts it: what is proved of the       *)
(* record alone holds of it in the service (submit, _complete_turn,        *)
(* _enforce_task_deadlines, resume, _recover_task_policy_usage).           *)
(***************************************************************************)
THEOREM ServiceUsesLedger == Spec => LedgerSpec
BY ServiceInit, ServiceRecordInvariant, StepUsesLedger, PTL DEF Spec, LedgerSpec

(***************************************************************************)
(* With crashes, lost answers and late notifications, the store accepts    *)
(* the record that the service leaves (_validate_policy_record).           *)
(***************************************************************************)
THEOREM ServiceRecordAccepted == Spec => []RecordValid
BY ServiceUsesLedger, RecordAccepted, PTL

-----------------------------------------------------------------------------
(* Types. *)

LEMMA SetIntentType ==
    ASSUME ServiceTypeOK, NEW i \in Intents,
           NEW status \in Open \cup {"none", "completed", "failed"}, SetIntent(i, status)
    PROVE  intents' \in [Intents -> Open \cup {"none", "completed", "failed"}]
BY DEF ServiceTypeOK, SetIntent

LEMMA NativeStopsType ==
    ASSUME ServiceTypeOK, NativeStops
    PROVE  /\ turn' \in [Intents -> Ended \cup {"none", "running"}]
           /\ foreign' \in BOOLEAN
           /\ \A i \in Intents : turn'[i] # "running"
           /\ \A i \in Intents : turn[i] # "none" => turn'[i] # "none"
BY DEF ServiceTypeOK, NativeStops, Ended

LEMMA SupersededType ==
    ASSUME ServiceTypeOK
    PROVE  Superseded \in {"no", "open", "superseded"}
BY DEF ServiceTypeOK, Superseded

LEMMA FlagTypes ==
    ASSUME ServiceTypeOK
    PROVE  /\ task.paused \in BOOLEAN /\ task.pending \in BOOLEAN /\ task.stopped \in BOOLEAN
           /\ \A a, b, c \in BOOLEAN : [paused |-> a, pending |-> b, stopped |-> c] \in TaskFlags
BY DEF ServiceTypeOK, TaskFlags

LEMMA IntentStepType ==
    ASSUME ServiceTypeOK, NEW i \in Intents,
           \/ HostReconciles(i) \/ Submit(i) \/ SubmitDenied(i)
           \/ Acknowledged(i) \/ Unanswered(i) \/ TurnFound(i) \/ HistoryMissing(i) \/ Complete(i)
    PROVE  ServiceTypeOK'
<1>s. {"sending", "accepted", "unknown"} = Open
  BY DEF Open
<1>1. CASE HostReconciles(i) \/ SubmitDenied(i)
  BY <1>1 DEF HostReconciles, SubmitDenied, ServiceTypeOK, daemonVars, nativeVars, historyVars
<1>2. CASE Submit(i)
  <2>1. intents' \in [Intents -> Open \cup {"none", "completed", "failed"}]
    BY <1>2, <1>s, SetIntentType DEF Submit
  <2> QED
    BY <1>2, <2>1 DEF Submit, ServiceTypeOK, historyVars
<1>3. CASE Acknowledged(i) \/ TurnFound(i)
  <2>1. intents' \in [Intents -> Open \cup {"none", "completed", "failed"}]
    BY <1>3, <1>s, SetIntentType DEF Acknowledged, TurnFound
  <2> QED
    BY <1>3, <2>1 DEF Acknowledged, TurnFound, ServiceTypeOK, nativeVars, historyVars
<1>4. CASE Unanswered(i)
  <2>1. intents' \in [Intents -> Open \cup {"none", "completed", "failed"}]
    BY <1>4, <1>s, SetIntentType DEF Unanswered
  <2> QED
    BY <1>4, <2>1 DEF Unanswered, ServiceTypeOK, nativeVars, historyVars
<1>5. CASE HistoryMissing(i)
  <2>1. intents' \in [Intents -> Open \cup {"none", "completed", "failed"}]
    BY <1>5, <1>s, SetIntentType DEF HistoryMissing
  <2>2. task' \in TaskFlags
    BY <1>5, FlagTypes DEF HistoryMissing
  <2> QED
    BY <1>5, <2>1, <2>2 DEF HistoryMissing, ServiceTypeOK, nativeVars, historyVars
<1>6. CASE Complete(i)
  <2>1. intents' \in [Intents -> Open \cup {"none", "completed", "failed"}]
    BY <1>6, <1>s, SetIntentType DEF Complete
  <2>2. task' \in TaskFlags /\ resume' \in {"no", "open", "superseded"} /\ pausing' \in BOOLEAN
    BY <1>6, FlagTypes, SupersededType DEF Complete, Pauses, ServiceTypeOK
  <2> QED
    BY <1>6, <2>1, <2>2 DEF Complete, ServiceTypeOK, nativeVars, historyVars
<1> QED
  BY <1>1, <1>2, <1>3, <1>4, <1>5, <1>6

LEMMA StopStepType ==
    ASSUME ServiceTypeOK,
           \/ StartDelivered \/ Pause \/ PauseStops \/ Enforce \/ StopNative \/ StopProved
           \/ ResumeBegins \/ ResumeEnds
    PROVE  ServiceTypeOK'
<1>1. CASE StartDelivered
  <2>1. task' \in TaskFlags
    BY <1>1, FlagTypes DEF StartDelivered
  <2>2. notes' \in Nat
    BY <1>1 DEF StartDelivered, ServiceTypeOK
  <2> QED
    BY <1>1, <2>1, <2>2 DEF StartDelivered, ServiceTypeOK, historyVars
<1>2. CASE Pause
  <2>1. task' \in TaskFlags /\ resume' \in {"no", "open", "superseded"}
    BY <1>2, FlagTypes, SupersededType DEF Pause, Pauses
  <2> QED
    BY <1>2, <2>1 DEF Pause, ServiceTypeOK, nativeVars, historyVars
<1>3. CASE PauseStops
  BY <1>3, NativeStopsType DEF PauseStops, ServiceTypeOK, historyVars
<1>4. CASE Enforce
  <2>1. task' \in TaskFlags /\ resume' \in {"no", "open", "superseded"}
        /\ raced' \in BOOLEAN /\ stopper' \in {"idle", "waiting", "proved"}
    BY <1>4, FlagTypes, SupersededType DEF Enforce, ServiceTypeOK
  <2> QED
    BY <1>4, <2>1 DEF Enforce, ServiceTypeOK, nativeVars, historyVars
<1>5. CASE StopNative
  BY <1>5, NativeStopsType DEF StopNative, ServiceTypeOK, historyVars
<1>6. CASE StopProved
  <2>1. task' \in TaskFlags
    BY <1>6, FlagTypes DEF StopProved, ServiceTypeOK
  <2> QED
    BY <1>6, <2>1 DEF StopProved, ServiceTypeOK, nativeVars, historyVars
<1>7. CASE ResumeBegins
  BY <1>7 DEF ResumeBegins, ServiceTypeOK, nativeVars, historyVars
<1>8. CASE ResumeEnds
  <2>1. task' \in TaskFlags
    BY <1>8, FlagTypes DEF ResumeEnds, ServiceTypeOK
  <2> QED
    BY <1>8, <2>1 DEF ResumeEnds, ServiceTypeOK, nativeVars, historyVars
<1> QED
  BY <1>1, <1>2, <1>3, <1>4, <1>5, <1>6, <1>7, <1>8

LEMMA NativeStepType ==
    ASSUME ServiceTypeOK,
           \/ \E i \in Intents : TurnStarts(i) \/ RequestLost(i) \/ TurnEnds(i)
           \/ StrangerStarts \/ StrangerEnds
    PROVE  ServiceTypeOK'
<1>n. Told \in Nat
  BY DEF Told, ServiceTypeOK
<1>1. ASSUME NEW i \in Intents, TurnStarts(i)
      PROVE  ServiceTypeOK'
  <2>1. /\ turn' \in [Intents -> Ended \cup {"none", "running"}]
        /\ sent' \in [Intents -> Nat] /\ wire' \subseteq Intents /\ notes' \in Nat
    BY <1>1, <1>n DEF TurnStarts, ServiceTypeOK
  <2> QED
    BY <1>1, <2>1 DEF TurnStarts, ServiceTypeOK, daemonVars, historyVars
<1>2. ASSUME NEW i \in Intents, RequestLost(i)
      PROVE  ServiceTypeOK'
  BY <1>2 DEF RequestLost, ServiceTypeOK, daemonVars, historyVars
<1>3. ASSUME NEW i \in Intents, TurnEnds(i)
      PROVE  ServiceTypeOK'
  <2>1. turn' \in [Intents -> Ended \cup {"none", "running"}]
    BY <1>3 DEF TurnEnds, ServiceTypeOK
  <2> QED
    BY <1>3, <2>1 DEF TurnEnds, ServiceTypeOK, daemonVars, historyVars
<1>4. CASE StrangerStarts
  <2>1. strangers' \in 0..MaxForeign /\ notes' \in Nat
    BY <1>4, <1>n, ServiceBoundsAssumption DEF StrangerStarts, ServiceTypeOK
  <2> QED
    BY <1>4, <2>1 DEF StrangerStarts, ServiceTypeOK, daemonVars
<1>5. CASE StrangerEnds
  BY <1>5 DEF StrangerEnds, ServiceTypeOK, daemonVars, historyVars
<1> QED
  BY <1>1, <1>2, <1>3, <1>4, <1>5

LEMMA ServiceStepType == RecordInv /\ ServiceTypeOK /\ [Next]_vars => ServiceTypeOK'
<1> SUFFICES ASSUME RecordInv, ServiceTypeOK, [Next]_vars PROVE ServiceTypeOK'
  OBVIOUS
<1>1. CASE AssignPolicy
  <2>1. granted' \in Nat
    BY <1>1, PoliciesAssumption DEF AssignPolicy, ServiceTypeOK
  <2> QED
    BY <1>1, <2>1 DEF AssignPolicy, ServiceTypeOK, daemonVars, nativeVars
<1>2. CASE Crash
  BY <1>2 DEF Crash, ServiceTypeOK, historyVars
<1>3. CASE Restart
  <2>1. intents' \in [Intents -> Open \cup {"none", "completed", "failed"}] /\ up' \in BOOLEAN
    BY <1>3 DEF Restart, RestoredIntents, ServiceTypeOK, Open
  <2> QED
    BY <1>3, <2>1, NativeStopsType DEF Restart, ServiceTypeOK, historyVars
<1>4. CASE Time
  BY <1>4 DEF Time, ServiceTypeOK, daemonVars, nativeVars, historyVars
<1>5. CASE SetBack
  <2>1. backs' \in 0..MaxBack
    BY <1>5, ServiceBoundsAssumption DEF SetBack, ServiceTypeOK
  <2> QED
    BY <1>5, <2>1 DEF SetBack, ServiceTypeOK, daemonVars, nativeVars
<1>6. CASE UNCHANGED vars
  BY <1>6 DEF vars, ServiceTypeOK, daemonVars, nativeVars, historyVars
<1> QED
  BY <1>1, <1>2, <1>3, <1>4, <1>5, <1>6, IntentStepType, StopStepType, NativeStepType DEF Next

LEMMA ServiceInitType == Init => ServiceTypeOK
<1> SUFFICES ASSUME Init PROVE ServiceTypeOK
  OBVIOUS
<1>1. task \in TaskFlags /\ strangers \in 0..MaxForeign /\ backs \in 0..MaxBack
  BY ServiceBoundsAssumption DEF Init, TaskFlags
<1>2. intents \in [Intents -> Open \cup {"none", "completed", "failed"}]
      /\ turn \in [Intents -> Ended \cup {"none", "running"}]
      /\ sent \in [Intents -> Nat]
  BY DEF Init
<1>3. up \in BOOLEAN /\ pausing \in BOOLEAN /\ raced \in BOOLEAN /\ foreign \in BOOLEAN
  BY DEF Init
<1> QED
  BY <1>1, <1>2, <1>3 DEF Init, ServiceTypeOK

(***************************************************************************)
(* Every variable of the service, its native thread and the record keeps   *)
(* its type.                                                               *)
(***************************************************************************)
THEOREM ServiceTypes == Spec => []PolicyTypeOK
<1>1. RecordInv => LedgerTypeOK
  BY DEF RecordInv
<1>2. Spec => []ServiceTypeOK
  BY ServiceRecordInvariant, ServiceInitType, ServiceStepType, PTL DEF Spec
<1> QED
  BY <1>1, <1>2, ServiceRecordInvariant, PTL DEF PolicyTypeOK

-----------------------------------------------------------------------------
(* A stop is no proof of a turn that starts after it. *)

\* Also the stop that is still under way proves nothing once a start came in.
StopInv ==
    up /\ (task.stopped \/ (stopper = "proved" /\ ~raced)) => ~Active \/ notes > 0

LEMMA NativeStopsEndAll ==
    ASSUME ServiceTypeOK, NativeStops
    PROVE  ~Active'
BY NativeStopsType DEF Active, NativeStops

LEMMA StartIsTold ==
    ASSUME ServiceTypeOK, up
    PROVE  Told > 0
BY DEF Told, ServiceTypeOK

LEMMA StopStep == ServiceTypeOK /\ StopInv /\ [Next]_vars => StopInv'
<1> SUFFICES ASSUME ServiceTypeOK, StopInv, [Next]_vars PROVE StopInv'
  OBVIOUS
\* Steps that neither start anything nor touch what has been proved.
<1>q. ASSUME UNCHANGED <<up, task, stopper, raced, notes, turn, foreign>>
      PROVE  StopInv'
  BY <1>q DEF StopInv, Active
<1>1. CASE AssignPolicy \/ Time \/ SetBack
  BY <1>1, <1>q DEF AssignPolicy, Time, SetBack, daemonVars, nativeVars
<1>2. ASSUME NEW i \in Intents,
             \/ HostReconciles(i) \/ Submit(i) \/ SubmitDenied(i)
             \/ Acknowledged(i) \/ Unanswered(i) \/ TurnFound(i) \/ RequestLost(i)
      PROVE  StopInv'
  BY <1>2, <1>q DEF HostReconciles, Submit, SubmitDenied, Acknowledged, Unanswered, TurnFound,
                    RequestLost, daemonVars, nativeVars
<1>3. ASSUME NEW i \in Intents, HistoryMissing(i) \/ Complete(i)
      PROVE  StopInv'
  <2>1. task'.stopped = task.stopped
    BY <1>3 DEF HistoryMissing, Complete, Pauses
  <2> QED
    BY <1>3, <2>1 DEF HistoryMissing, Complete, nativeVars, StopInv, Active
<1>4. ASSUME NEW i \in Intents, TurnStarts(i)
      PROVE  StopInv'
  <2>1. up => notes' > 0
    BY <1>4, StartIsTold DEF TurnStarts
  <2> QED
    BY <1>4, <2>1 DEF TurnStarts, daemonVars, StopInv
<1>5. CASE StrangerStarts
  <2>1. up => notes' > 0
    BY <1>5, StartIsTold DEF StrangerStarts
  <2> QED
    BY <1>5, <2>1 DEF StrangerStarts, daemonVars, StopInv
<1>6. ASSUME NEW i \in Intents, TurnEnds(i)
      PROVE  StopInv'
  <2>1. Active' => Active
    BY <1>6 DEF TurnEnds, Active, ServiceTypeOK, Ended
  <2> QED
    BY <1>6, <2>1 DEF TurnEnds, daemonVars, StopInv
<1>7. CASE StrangerEnds
  <2>1. Active' => Active
    BY <1>7 DEF StrangerEnds, Active
  <2> QED
    BY <1>7, <2>1 DEF StrangerEnds, daemonVars, StopInv
<1>8. CASE StartDelivered
  <2>1. ~task'.stopped /\ raced'
    BY <1>8 DEF StartDelivered
  <2> QED
    BY <2>1 DEF StopInv
<1>9. CASE Pause
  <2>1. task'.stopped = task.stopped
    BY <1>9 DEF Pause, Pauses
  <2> QED
    BY <1>9, <2>1 DEF Pause, nativeVars, StopInv, Active
<1>10. CASE PauseStops \/ StopNative
  BY <1>10, NativeStopsEndAll DEF PauseStops, StopNative, StopInv
<1>11. CASE Enforce
  <2>1. CASE MustStop
    BY <1>11, <2>1 DEF Enforce, nativeVars, StopInv, Active
  <2>2. CASE ~MustStop
    BY <1>11, <2>2, <1>q DEF Enforce, nativeVars
  <2> QED
    BY <2>1, <2>2
<1>12. CASE StopProved
  <2>1. CASE raced
    BY <1>12, <2>1 DEF StopProved, nativeVars, StopInv, Active
  <2>2. CASE ~raced
    BY <1>12, <2>2 DEF StopProved, nativeVars, StopInv, Active
  <2> QED
    BY <2>1, <2>2
<1>13. CASE ResumeBegins
  BY <1>13, <1>q DEF ResumeBegins, nativeVars
<1>14. CASE ResumeEnds
  <2>1. ~task'.stopped \/ task' = task
    BY <1>14 DEF ResumeEnds
  <2> QED
    BY <1>14, <2>1 DEF ResumeEnds, nativeVars, StopInv, Active
<1>15. CASE Crash
  BY <1>15 DEF Crash, StopInv
<1>16. CASE Restart
  BY <1>16, NativeStopsEndAll DEF Restart, StopInv
<1>17. CASE UNCHANGED vars
  BY <1>17, <1>q DEF vars, daemonVars, nativeVars
<1> QED
  BY <1>1, <1>2, <1>3, <1>4, <1>5, <1>6, <1>7, <1>8, <1>9, <1>10, <1>11, <1>12, <1>13, <1>14,
     <1>15, <1>16, <1>17 DEF Next

(***************************************************************************)
(* However many turns other clients start, and however starts, stops,      *)
(* pauses, resumes and crashes meet, a task counts as stopped at its       *)
(* deadline only while nothing of it runs that the service could know of.  *)
(***************************************************************************)
THEOREM StopIsProof == Spec => []StopProof
<1>1. Init => StopInv
  BY DEF Init, StopInv
<1>2. StopInv => StopProof
  BY DEF StopInv, StopProof
<1>3. Spec => []ServiceTypeOK
  BY ServiceRecordInvariant, ServiceInitType, ServiceStepType, PTL DEF Spec
<1> QED
  BY <1>1, <1>2, <1>3, StopStep, PTL DEF Spec

-----------------------------------------------------------------------------
(* No charge is orphaned. *)

\* What a step of the record does to the outcome of the current attempt.
LEMMA OutcomeAfterFinish ==
    ASSUME RecordInv, NEW i \in Intents, NEW outcome \in Outcomes, FinishAttempt(i, outcome)
    PROVE  usage'.outcome = outcome /\ current' = current /\ current = i
<1>1. usage.outcome = receipts[i].outcome
  BY IntentsAssumption DEF FinishAttempt, RecordInv, RecordValid, UsageMatches
<1> QED
  BY <1>1 DEF FinishAttempt, Settle

\* An intent is finished, or the attempt of another one is still the current.
LEMMA OutcomeAfterFinishIntent ==
    ASSUME RecordInv, NEW i \in Intents, NEW outcome \in Outcomes, FinishIntent(i, outcome)
    PROVE  /\ current' = current
           /\ usage'.outcome \in Unresolved => usage.outcome \in Unresolved \/ usage'.outcome = outcome
           /\ current = i /\ usage'.outcome \in Unresolved => usage'.outcome = outcome
<1>1. CASE receipts[i].outcome \in Unresolved
  BY <1>1, OutcomeAfterFinish DEF FinishIntent
<1>2. CASE receipts[i].outcome \notin Unresolved
  <2>1. current = i => usage.outcome = receipts[i].outcome
    BY IntentsAssumption DEF RecordInv, RecordValid, UsageMatches
  <2> QED
    BY <1>2, <2>1 DEF FinishIntent, ledgerVars
<1> QED
  BY <1>1, <1>2

\* NoOrphanCharge is inductive once the record and the types are known.
LEMMA OrphanStep ==
    RecordInv /\ ServiceTypeOK /\ NoOrphanCharge /\ [Next]_vars => NoOrphanCharge'
<1> SUFFICES ASSUME RecordInv, ServiceTypeOK, NoOrphanCharge, [Next]_vars
             PROVE  NoOrphanCharge'
  OBVIOUS
<1>o. {"unknown", "failed", "complete"} \cup Confirmed \subseteq Outcomes
      /\ "unknown" \in Unresolved /\ "failed" \notin Unresolved
      /\ Confirmed \cap Unresolved = {} /\ "complete" \notin Unresolved
  BY DEF Outcomes, Confirmed, Unresolved
<1>c. usage.outcome \in Unresolved => current \in Intents
  BY DEF RecordInv, RecordValid, UsageMatches, NoUsage, Unresolved, NoOutcome, LedgerTypeOK
<1>i. intents \in [Intents -> Open \cup {"none", "completed", "failed"}]
  BY DEF ServiceTypeOK
<1>q. ASSUME UNCHANGED <<up, intents, usage, current>>
      PROVE  NoOrphanCharge'
  BY <1>q DEF NoOrphanCharge
<1>1. CASE AssignPolicy
  BY <1>1, <1>q DEF AssignPolicy, SetPolicy, daemonVars
<1>2. ASSUME NEW i \in Intents, HostReconciles(i)
      PROVE  NoOrphanCharge'
  <2>1. PICK outcome \in Confirmed \cup {"complete"} : FinishAttempt(i, outcome)
    BY <1>2 DEF HostReconciles
  <2>2. usage'.outcome = outcome
    BY <2>1, <1>o, OutcomeAfterFinish
  <2> QED
    BY <1>o, <2>1, <2>2 DEF NoOrphanCharge
<1>3. ASSUME NEW i \in Intents, Submit(i)
      PROVE  NoOrphanCharge'
  <2>1. current' = i
    BY <1>3 DEF Submit, SubmitCharged, AdmitAttempt, Charge
  <2>2. intents'[i] = "sending"
    BY <1>3, <1>i DEF Submit, SetIntent
  <2> QED
    BY <2>1, <2>2 DEF NoOrphanCharge, Open
<1>4. ASSUME NEW i \in Intents, SubmitDenied(i)
      PROVE  NoOrphanCharge'
  BY <1>4, <1>q DEF SubmitDenied, DenyAttempt, daemonVars
<1>5. ASSUME NEW i \in Intents, Acknowledged(i) \/ TurnFound(i)
      PROVE  NoOrphanCharge'
  <2>1. UNCHANGED <<up, usage, current>>
    BY <1>5 DEF Acknowledged, TurnFound, ledgerVars
  <2>2. intents'[i] \in {"accepted", intents[i]} /\ \A k \in Intents : k # i => intents'[k] = intents[k]
    BY <1>5, <1>i DEF Acknowledged, TurnFound, SetIntent
  <2> QED
    BY <1>c, <2>1, <2>2 DEF NoOrphanCharge, Open
<1>6. ASSUME NEW i \in Intents, Unanswered(i) \/ HistoryMissing(i)
      PROVE  NoOrphanCharge'
  <2>1. up' = up /\ FinishIntent(i, "unknown")
    BY <1>6 DEF Unanswered, HistoryMissing
  <2>2. /\ current' = current
        /\ usage'.outcome \in Unresolved => usage.outcome \in Unresolved \/ usage'.outcome = "unknown"
    BY <1>o, <2>1, OutcomeAfterFinishIntent
  <2>3. intents'[i] = "unknown" \/ (intents[i] = "failed" /\ intents'[i] = "failed")
    BY <1>6, <1>i DEF Unanswered, HistoryMissing, SetIntent
  <2>4. \A k \in Intents : k # i => intents'[k] = intents[k]
    BY <1>6, <1>i DEF Unanswered, HistoryMissing, SetIntent
  <2>5. usage'.outcome \in Unresolved => usage.outcome \in Unresolved
    <3>1. CASE receipts[i].outcome \in Unresolved
      BY <2>1, <3>1, IntentsAssumption
         DEF FinishIntent, FinishAttempt, RecordInv, RecordValid, UsageMatches
    <3>2. CASE receipts[i].outcome \notin Unresolved
      BY <2>1, <3>2 DEF FinishIntent, ledgerVars
    <3> QED
      BY <3>1, <3>2
  <2> QED
    BY <1>c, <2>1, <2>2, <2>3, <2>4, <2>5 DEF NoOrphanCharge, Open
<1>7. ASSUME NEW i \in Intents, Complete(i)
      PROVE  NoOrphanCharge'
  <2> DEFINE outcome == IF turn[i] = "completed" THEN "unknown" ELSE "failed"
  <2>1. up' = up /\ FinishIntent(i, outcome) /\ outcome \in Outcomes
    BY <1>7, <1>o DEF Complete, Completes
  <2>2. /\ current' = current
        /\ current = i /\ usage'.outcome \in Unresolved => usage'.outcome = outcome
    BY <2>1, OutcomeAfterFinishIntent
  <2>3. /\ outcome \in Unresolved => intents'[i] = "completed"
        /\ \A k \in Intents : k # i => intents'[k] = intents[k]
    BY <1>7, <1>i, <1>o DEF Complete, SetIntent
  <2>4. usage'.outcome \in Unresolved => usage.outcome \in Unresolved
    <3>1. CASE receipts[i].outcome \in Unresolved
      BY <2>1, <3>1, IntentsAssumption
         DEF FinishIntent, FinishAttempt, RecordInv, RecordValid, UsageMatches
    <3>2. CASE receipts[i].outcome \notin Unresolved
      BY <2>1, <3>2 DEF FinishIntent, ledgerVars
    <3> QED
      BY <3>1, <3>2
  <2> HIDE DEF outcome
  <2> QED
    BY <1>c, <2>1, <2>2, <2>3, <2>4 DEF NoOrphanCharge
<1>8. ASSUME NEW i \in Intents, TurnStarts(i) \/ RequestLost(i) \/ TurnEnds(i)
      PROVE  NoOrphanCharge'
  BY <1>8, <1>q DEF TurnStarts, RequestLost, TurnEnds, ledgerVars, daemonVars
<1>9. CASE StartDelivered \/ Pause \/ PauseStops \/ StopNative \/ StopProved
  BY <1>9, <1>q DEF StartDelivered, Pause, PauseStops, StopNative, StopProved, ledgerVars
<1>10. CASE Enforce
  BY <1>10, <1>q DEF Enforce, PolicyStatus
<1>11. CASE ResumeBegins \/ ResumeEnds
  <2>1. UNCHANGED <<usage, current>>
    BY <1>11 DEF ResumeBegins, ResumeEnds, LookIfLimited, PolicyStatus, ledgerVars
  <2> QED
    BY <1>11, <1>q, <2>1 DEF ResumeBegins, ResumeEnds
<1>12. CASE Crash
  BY <1>12 DEF Crash, NoOrphanCharge
<1>13. CASE Restart
  <2>1. CASE usage.outcome \in Unresolved
    <3>1. current \in Intents /\ FinishAttempt(current, "unknown")
      BY <1>13, <1>c, <2>1 DEF Restart
    <3>2. current' = current
      BY <3>1, <1>o, OutcomeAfterFinish
    <3>3. up' => intents' = RestoredIntents(current)
      BY <1>13, <2>1 DEF Restart
    <3>4. up' => intents'[current] = "unknown"
      BY <1>i, <3>1, <3>3 DEF RestoredIntents
    <3> QED
      BY <3>2, <3>4 DEF NoOrphanCharge, Open
  <2>2. CASE usage.outcome \notin Unresolved
    BY <1>13, <2>2 DEF Restart, ledgerVars, NoOrphanCharge
  <2> QED
    BY <2>1, <2>2
<1>14. CASE StrangerStarts \/ StrangerEnds
  BY <1>14, <1>q DEF StrangerStarts, StrangerEnds, ledgerVars, daemonVars
<1>15. CASE Time \/ SetBack
  BY <1>15, <1>q DEF Time, SetBack, Tick, ClockBack, daemonVars
<1>16. CASE UNCHANGED vars
  BY <1>16, <1>q DEF vars, ledgerVars, daemonVars
<1> QED
  BY <1>1, <1>2, <1>3, <1>4, <1>5, <1>6, <1>7, <1>8, <1>9, <1>10, <1>11, <1>12, <1>13, <1>14,
     <1>15, <1>16 DEF Next

(***************************************************************************)
(* While the service runs, it knows the intent of an unresolved attempt,   *)
(* wherever it died between SQLite and runtime.json                        *)
(* (_restore_policy_intents, _recover_task_policy_usage).                  *)
(***************************************************************************)
THEOREM ChargesAreKnown == Spec => []NoOrphanCharge
<1>1. Init => NoOrphanCharge
  BY DEF Init, LedgerInit, NoUsage, NoOutcome, NoOrphanCharge, Unresolved
<1>2. Spec => []ServiceTypeOK
  BY ServiceRecordInvariant, ServiceInitType, ServiceStepType, PTL DEF Spec
<1> QED
  BY <1>1, <1>2, ServiceRecordInvariant, OrphanStep, PTL DEF Spec

-----------------------------------------------------------------------------
(* Every input is charged before it is sent, and sent once. *)

\* A request on the wire is the only one its intent will ever have.
BudgetInv ==
    /\ policy # None => policy.attempts <= granted
    /\ usage.attempts <= granted
    /\ \A i \in wire : sent[i] = 0 /\ Charged(i)
    /\ \A i \in Intents : sent[i] = 0 \/ (sent[i] = 1 /\ Charged(i))

LEMMA ChargesStay ==
    ASSUME RecordInv, [LedgerNext]_ledgerVars, NEW k \in Intents, Charged(k)
    PROVE  Charged(k)'
<1>1. CASE UNCHANGED receipts
  BY <1>1 DEF Charged
<1>2. ASSUME NEW i \in Intents, NEW busy \in BOOLEAN, AdmitAttempt(i, busy)
      PROVE  Charged(k)'
  <2>1. i # k /\ receipts'[k] = receipts[k]
    BY <1>2 DEF AdmitAttempt, Charge, RecordInv, LedgerTypeOK
  <2> QED
    BY <2>1 DEF Charged
<1>3. ASSUME NEW i \in Intents, NEW outcome \in Outcomes \ {"running"}, Settle(i, outcome)
      PROVE  Charged(k)'
  <2>1. CASE i = k
    <3>1. receipts'[k].outcome = outcome
      BY <1>3, <2>1 DEF Settle, RecordInv, LedgerTypeOK
    <3> QED
      BY <3>1 DEF Charged, NoReceipt, Outcomes, Confirmed, Unresolved, NoOutcome
  <2>2. CASE i # k
    BY <1>3, <2>2 DEF Settle, Charged, RecordInv, LedgerTypeOK
  <2> QED
    BY <2>1, <2>2
<1> QED
  BY <1>1, <1>2, <1>3
     DEF LedgerNext, SetPolicy, PolicyStatus, DenyAttempt, FinishAttempt, Tick, ClockBack, ledgerVars

\* An attempt is charged only within the limits in force.
LEMMA ChargesWithin ==
    ASSUME RecordInv, [LedgerNext]_ledgerVars
    PROVE  \/ usage'.attempts = usage.attempts
           \/ policy # None /\ usage'.attempts <= policy.attempts
<1>1. ASSUME NEW i \in Intents, NEW busy \in BOOLEAN, AdmitAttempt(i, busy)
      PROVE  policy # None /\ usage'.attempts <= policy.attempts
  <2>1. policy # None /\ ~OutOfAttempts(policy, Facts) /\ usage'.attempts = usage.attempts + 1
    BY <1>1 DEF AdmitAttempt, Charge, Allowed, Ready
  <2>2. Facts.attempts = usage.attempts /\ usage.attempts \in Nat /\ policy.attempts \in Nat
    BY <2>1, UsageKnown, FactTypes, LimitTypes DEF RecordInv, LedgerTypeOK, Usage, NoUsage
  <2> QED
    BY <2>1, <2>2 DEF OutOfAttempts
<1>2. ASSUME NEW i \in Intents, NEW outcome \in Outcomes, FinishAttempt(i, outcome)
      PROVE  usage'.attempts = usage.attempts
  BY <1>2 DEF FinishAttempt, Settle
<1> QED
  BY <1>1, <1>2 DEF LedgerNext, SetPolicy, PolicyStatus, DenyAttempt, Tick, ClockBack, ledgerVars

\* Steps that send nothing and set no limits.
LEMMA BudgetRest ==
    ASSUME RecordInv, ServiceTypeOK, BudgetInv, [LedgerNext]_ledgerVars,
           UNCHANGED <<policy, sent, granted>>, wire' \subseteq wire
    PROVE  BudgetInv'
<1>1. usage'.attempts <= granted'
  <2>1. usage.attempts \in Nat /\ granted \in Nat /\ (policy # None => policy.attempts \in Nat)
    BY LimitTypes DEF RecordInv, LedgerTypeOK, Usage, NoUsage, ServiceTypeOK
  <2>2. RecordInv'
    BY StepKeeps
  <2>3. usage'.attempts \in Nat
    BY <2>2 DEF RecordInv, LedgerTypeOK, Usage, NoUsage
  <2> QED
    BY <2>1, <2>3, ChargesWithin DEF BudgetInv
<1>2. \A i \in wire' : sent'[i] = 0 /\ Charged(i)'
  BY ChargesStay DEF BudgetInv, ServiceTypeOK
<1>3. \A i \in Intents : sent'[i] = 0 \/ (sent'[i] = 1 /\ Charged(i)')
  BY ChargesStay DEF BudgetInv
<1> QED
  BY <1>1, <1>2, <1>3 DEF BudgetInv

LEMMA BudgetStep ==
    RecordInv /\ ServiceTypeOK /\ BudgetInv /\ [Next]_vars => BudgetInv'
<1> SUFFICES ASSUME RecordInv, ServiceTypeOK, BudgetInv, [Next]_vars
             PROVE  BudgetInv'
  OBVIOUS
<1>l. [LedgerNext]_ledgerVars
  BY StepUsesLedger
<1>r. UNCHANGED <<policy, sent, granted>> /\ wire' \subseteq wire => BudgetInv'
  BY <1>l, BudgetRest
<1>1. CASE AssignPolicy
  <2>1. PICK p \in Policies : /\ SetPolicy(p)
                             /\ granted' = IF granted < p.attempts THEN p.attempts ELSE granted
    BY <1>1 DEF AssignPolicy
  <2>2. granted \in Nat /\ p.attempts \in Nat /\ usage.attempts \in Nat
    BY PoliciesAssumption DEF ServiceTypeOK, RecordInv, LedgerTypeOK, Usage, NoUsage
  <2>3. granted' >= granted /\ granted' >= p.attempts /\ granted' \in Nat
    BY <2>1, <2>2
  <2>4. policy' = p /\ UNCHANGED <<usage, receipts, wire, sent>>
    BY <1>1, <2>1 DEF AssignPolicy, SetPolicy, nativeVars
  <2> QED
    BY <2>2, <2>3, <2>4 DEF BudgetInv, Charged
<1>2. ASSUME NEW i \in Intents, Submit(i)
      PROVE  BudgetInv'
  <2>1. PICK busy \in BOOLEAN : AdmitAttempt(i, busy)
    BY <1>2, SubmitCharges DEF Submit
  <2>2. ~Charged(i) /\ policy' = policy /\ receipts'[i].outcome = "running"
    BY <2>1 DEF AdmitAttempt, Charge, RecordInv, LedgerTypeOK
  <2>3. Charged(i)' /\ sent[i] = 0
    BY <2>2 DEF BudgetInv, Charged, NoReceipt, NoOutcome
  <2>4. wire' = wire \cup {i} /\ sent' = sent /\ granted' = granted
    BY <1>2 DEF Submit, historyVars
  <2>5. usage'.attempts <= granted'
    <3>1. usage.attempts \in Nat /\ granted \in Nat /\ (policy # None => policy.attempts \in Nat)
      BY LimitTypes DEF RecordInv, LedgerTypeOK, Usage, NoUsage, ServiceTypeOK
    <3>2. RecordInv'
      BY <1>l, StepKeeps
    <3>3. usage'.attempts \in Nat
      BY <3>2 DEF RecordInv, LedgerTypeOK, Usage, NoUsage
    <3> QED
      BY <1>l, <2>4, <3>1, <3>3, ChargesWithin DEF BudgetInv
  <2>6. \A k \in wire' : sent'[k] = 0 /\ Charged(k)'
    BY <1>l, <2>3, <2>4, ChargesStay DEF BudgetInv, ServiceTypeOK
  <2>7. \A k \in Intents : sent'[k] = 0 \/ (sent'[k] = 1 /\ Charged(k)')
    BY <1>l, <2>4, ChargesStay DEF BudgetInv
  <2> QED
    BY <2>2, <2>4, <2>5, <2>6, <2>7 DEF BudgetInv
<1>3. ASSUME NEW i \in Intents, TurnStarts(i)
      PROVE  BudgetInv'
  <2>1. /\ sent[i] = 0 /\ Charged(i)
        /\ wire' = wire \ {i} /\ UNCHANGED <<policy, usage, receipts, granted>>
        /\ sent'[i] = sent[i] + 1 /\ \A k \in Intents : k # i => sent'[k] = sent[k]
    BY <1>3 DEF TurnStarts, BudgetInv, ServiceTypeOK, ledgerVars, historyVars
  <2> QED
    BY <2>1 DEF BudgetInv, Charged, ServiceTypeOK
<1>4. ASSUME NEW i \in Intents, HostReconciles(i) \/ SubmitDenied(i) \/ Acknowledged(i) \/ TurnFound(i)
      PROVE  BudgetInv'
  BY <1>4, <1>r DEF HostReconciles, SubmitDenied, Acknowledged, TurnFound, FinishAttempt, DenyAttempt,
     ledgerVars, nativeVars, historyVars
<1>5. ASSUME NEW i \in Intents, Unanswered(i) \/ HistoryMissing(i) \/ Complete(i)
      PROVE  BudgetInv'
  BY <1>5, <1>r DEF Unanswered, HistoryMissing, Complete, Completes, FinishIntent, FinishAttempt,
     ledgerVars, nativeVars, historyVars
<1>6. ASSUME NEW i \in Intents, RequestLost(i) \/ TurnEnds(i)
      PROVE  BudgetInv'
  BY <1>6, <1>r DEF RequestLost, TurnEnds, ledgerVars, historyVars
<1>7. CASE StartDelivered \/ Pause \/ PauseStops \/ StopNative \/ StopProved
  BY <1>7, <1>r DEF StartDelivered, Pause, PauseStops, StopNative, StopProved,
     ledgerVars, nativeVars, historyVars
<1>8. CASE Enforce \/ ResumeBegins \/ ResumeEnds
  BY <1>8, <1>r DEF Enforce, ResumeBegins, ResumeEnds, LookIfLimited, PolicyStatus,
     ledgerVars, nativeVars, historyVars
<1>9. CASE Crash
  <2>1. policy' = policy
    <3>1. ASSUME NEW i \in Intents, SubmitCharged(i)
          PROVE  policy' = policy
      BY <3>1 DEF SubmitCharged, AdmitAttempt
    <3>2. ASSUME NEW i \in Intents, Completes(i)
          PROVE  policy' = policy
      BY <3>2 DEF Completes, FinishIntent, FinishAttempt, ledgerVars
    <3> QED
      BY <1>9, <3>1, <3>2 DEF Crash, ledgerVars
  <2> QED
    BY <1>9, <1>r, <2>1 DEF Crash, historyVars
<1>10. CASE Restart
  <2>1. policy' = policy
    BY <1>10 DEF Restart, FinishAttempt, ledgerVars
  <2> QED
    BY <1>10, <1>r, <2>1 DEF Restart, historyVars
<1>11. CASE StrangerStarts \/ StrangerEnds
  BY <1>11, <1>r DEF StrangerStarts, StrangerEnds, ledgerVars, historyVars
<1>12. CASE Time \/ SetBack
  BY <1>12, <1>r DEF Time, SetBack, Tick, ClockBack, nativeVars, historyVars
<1>13. CASE UNCHANGED vars
  BY <1>13, <1>r DEF vars, ledgerVars, nativeVars, historyVars
<1> QED
  BY <1>1, <1>2, <1>3, <1>4, <1>5, <1>6, <1>7, <1>8, <1>9, <1>10, <1>11, <1>12, <1>13 DEF Next

LEMMA BudgetHolds == RecordInv /\ ServiceTypeOK /\ BudgetInv => InputsBudgeted
<1> SUFFICES ASSUME RecordInv, ServiceTypeOK, BudgetInv PROVE InputsBudgeted
  OBVIOUS
<1>1. \A i \in Started : sent[i] = 1 /\ Charged(i)
  BY DEF Started, BudgetInv
<1>2. Started \subseteq ChargedIntents
  BY <1>1 DEF Started, ChargedIntents
<1>3. Cardinality(Started) <= Cardinality(ChargedIntents)
      /\ Cardinality(Started) \in Nat /\ Cardinality(ChargedIntents) \in Nat
  BY <1>2, ChargedFinite, FS_Subset, FS_CardinalityType
<1>4. usage.attempts = Cardinality(ChargedIntents)
  BY FS_EmptySet DEF RecordInv, RecordValid, UsageMatches, NoUsage
<1>5. usage.attempts <= granted /\ granted \in Nat
  BY DEF BudgetInv, ServiceTypeOK
<1> QED
  BY <1>1, <1>3, <1>4, <1>5 DEF InputsBudgeted

(***************************************************************************)
(* However answers are lost and processes die, no input is sent twice or   *)
(* without a charge, and no more are sent than the most that any limits    *)
(* allowed (submit, admit_task_attempt).                                   *)
(***************************************************************************)
THEOREM InputsWithinBudget == Spec => []InputsBudgeted
<1>1. Init => BudgetInv
  BY DEF Init, LedgerInit, NoUsage, BudgetInv
<1>2. Spec => []ServiceTypeOK
  BY ServiceRecordInvariant, ServiceInitType, ServiceStepType, PTL DEF Spec
<1> QED
  BY <1>1, <1>2, ServiceRecordInvariant, BudgetStep, BudgetHolds, PTL DEF Spec
=============================================================================
