--------------------------- MODULE PolicyService ---------------------------
(***************************************************************************)
(* The service around the record of one bounded task (service.py: submit,  *)
(* _finish_policy_intent, _complete_turn, _restore_policy_intents,         *)
(* _recover_task_policy_usage, _enforce_task_deadlines, pause, resume),    *)
(* with the native thread it drives.  A step runs from one await to the    *)
(* next.  The task has its limits before its first input.                  *)
(*                                                                         *)
(* SQLite commits before runtime.json is saved: intents and task are the   *)
(* saved state, which is all that a restart finds, and Crash may fall      *)
(* between the two writes of one step.                                     *)
(***************************************************************************)
EXTENDS PolicyLedger

CONSTANTS
    MaxForeign,    \* bound: turns that another native client starts
    MaxBack        \* bound: how often the wall clock is set back

ASSUME ServiceBoundsAssumption == MaxForeign \in Nat /\ MaxBack \in Nat

VARIABLES
    up,          \* the service process runs
    intents,     \* runtime.json intents: status, "none" when there is no such intent
    task,        \* runtime.json tasks: paused, policy_pause_pending, policy_deadline_stopped
    asking,      \* the intent whose turn/start awaits its answer, under the admission lock
    resume,      \* a resume in flight: "no", "open", or "superseded" by a pause
    stopper,     \* _enforce_task_deadlines: "idle", "waiting" in pause, or "proved"
    pausing,     \* a pause that has yet to stop the native work
    raced,       \* a turn/started came in since the stop began (_native_turn_revisions)
    turn,        \* native: what became of the turn of each intent
    foreign,     \* native: a turn of another client, or of a Goal, runs
    wire,        \* native: turn/start requests under way
    notes,       \* native: turn/started notifications not yet delivered
    sent,        \* history: turns started for each intent
    granted,     \* history: the most attempts any policy allowed
    strangers,   \* history: turns that other clients started
    backs        \* history: how often the clock was set back

daemonVars == <<up, intents, task, asking, resume, stopper, pausing, raced>>
nativeVars == <<turn, foreign, wire, notes, sent>>
historyVars == <<granted, strangers, backs>>
vars == <<ledgerVars, daemonVars, nativeVars, historyVars>>

Open == {"sending", "accepted", "unknown"}
TaskFlags == [paused : BOOLEAN, pending : BOOLEAN, stopped : BOOLEAN]
Ended == {"completed", "failed", "interrupted"}

ServiceTypeOK ==
    /\ up \in BOOLEAN
    /\ intents \in [Intents -> Open \cup {"none", "completed", "failed"}]
    /\ task \in TaskFlags
    /\ asking \in Intents \cup {None}
    /\ resume \in {"no", "open", "superseded"}
    /\ stopper \in {"idle", "waiting", "proved"}
    /\ pausing \in BOOLEAN
    /\ raced \in BOOLEAN
    /\ turn \in [Intents -> Ended \cup {"none", "running"}]
    /\ foreign \in BOOLEAN
    /\ wire \subseteq Intents
    /\ notes \in Nat
    /\ sent \in [Intents -> Nat]
    /\ granted \in Nat
    /\ strangers \in 0..MaxForeign
    /\ backs \in 0..MaxBack

PolicyTypeOK == LedgerTypeOK /\ ServiceTypeOK

Init ==
    /\ LedgerInit
    /\ up = TRUE
    /\ intents = [i \in Intents |-> "none"]
    /\ task = [paused |-> FALSE, pending |-> FALSE, stopped |-> FALSE]
    /\ asking = None /\ resume = "no" /\ stopper = "idle" /\ pausing = FALSE /\ raced = FALSE
    /\ turn = [i \in Intents |-> "none"]
    /\ foreign = FALSE /\ wire = {} /\ notes = 0
    /\ sent = [i \in Intents |-> 0]
    /\ granted = 0 /\ strangers = 0 /\ backs = 0

Active == foreign \/ \E i \in Intents : turn[i] = "running"
IntentBusy == \E i \in Intents : intents[i] \in Open          \* _policy_intent_busy
AdmissionFree == asking = None /\ resume = "no"
Superseded == IF resume = "open" THEN "superseded" ELSE resume

\* A pause is saved at once and supersedes a resume that is under way.
Pauses ==
    /\ task' = [paused |-> TRUE, pending |-> task.pending, stopped |-> task.stopped]
    /\ resume' = Superseded

SetIntent(i, status) == intents' = [intents EXCEPT ![i] = status]

-----------------------------------------------------------------------------
(* Operator and host. *)

\* set_task_policy: the first policy waits until no earlier work is open.
AssignPolicy ==
    /\ up /\ AdmissionFree
    /\ policy = None => ~IntentBusy /\ ~Active
    /\ \E p \in Policies :
         /\ SetPolicy(p)
         /\ granted' = IF granted < p.attempts THEN p.attempts ELSE granted
    /\ UNCHANGED <<daemonVars, nativeVars, strangers, backs>>

\* Host code that verified the result of an attempt (Store.finish_task_attempt).
HostReconciles(i) ==
    /\ receipts[i].outcome \in Unresolved
    /\ \E outcome \in Confirmed \cup {"complete"} : FinishAttempt(i, outcome)
    /\ UNCHANGED <<daemonVars, nativeVars, historyVars>>

-----------------------------------------------------------------------------
(* Service.submit. *)

\* The task accepts input; whether the thread is active was read before an await.
Submits(i) ==
    /\ up /\ AdmissionFree
    /\ intents[i] = "none" /\ ~task.paused

SubmitCharged(i) ==
    /\ Submits(i)
    /\ \E active \in BOOLEAN : AdmitAttempt(i, active \/ IntentBusy)

Submit(i) ==
    /\ SubmitCharged(i)
    /\ SetIntent(i, "sending")
    /\ asking' = i /\ wire' = wire \cup {i}
    /\ UNCHANGED <<up, task, resume, stopper, pausing, raced, turn, foreign, notes, sent, historyVars>>

SubmitDenied(i) ==
    /\ Submits(i)
    /\ \E active \in BOOLEAN : DenyAttempt(i, active \/ IntentBusy)
    /\ UNCHANGED <<daemonVars, nativeVars, historyVars>>

\* turn_start returned the turn.
Acknowledged(i) ==
    /\ asking = i /\ turn[i] # "none"
    /\ asking' = None
    /\ SetIntent(i, IF intents[i] \in {"completed", "failed"} THEN intents[i] ELSE "accepted")
    /\ UNCHANGED <<ledgerVars, up, task, resume, stopper, pausing, raced, nativeVars, historyVars>>

\* _finish_policy_intent: what is confirmed is not overwritten by a late native event.
FinishIntent(i, outcome) ==
    IF receipts[i].outcome \in Unresolved THEN FinishAttempt(i, outcome)
    ELSE UNCHANGED ledgerVars

\* Mutant of Unanswered: the request is sent again.
UnansweredResends(i) ==
    /\ asking = i
    /\ wire' = wire \cup {i}
    /\ UNCHANGED <<ledgerVars, daemonVars, turn, foreign, notes, sent, historyVars>>

\* turn_start failed or timed out: the turn may exist, or may still come to exist.
Unanswered(i) ==
    /\ asking = i
    /\ asking' = None
    /\ SetIntent(i, IF intents[i] = "failed" THEN "failed" ELSE "unknown")
    /\ FinishIntent(i, "unknown")
    /\ UNCHANGED <<up, task, resume, stopper, pausing, raced, nativeVars, historyVars>>

-----------------------------------------------------------------------------
(* Notifications and reconciliation. *)

\* find_turn_by_client_id, over every page of the history.
Found(i) == turn[i] # "none"

\* The user message of the intent was seen, or its turn was found by its client id.
TurnFound(i) ==
    /\ up /\ Found(i)
    /\ intents[i] \in Open
    /\ SetIntent(i, "accepted")
    /\ UNCHANGED <<ledgerVars, up, task, asking, resume, stopper, pausing, raced, nativeVars, historyVars>>

(***************************************************************************)
(* reconcile found no history of the thread: the intent stays unknown, the *)
(* task is paused, and nothing of this counts as a pause for a resume that *)
(* is under way.                                                           *)
(***************************************************************************)
HistoryMissing(i) ==
    /\ up /\ intents[i] \in Open /\ turn[i] = "none"
    /\ SetIntent(i, "unknown")
    /\ task' = [paused |-> TRUE, pending |-> task.pending, stopped |-> task.stopped]
    /\ FinishIntent(i, "unknown")
    /\ UNCHANGED <<up, asking, resume, stopper, pausing, raced, nativeVars, historyVars>>

\* A completed turn proves nothing about the task's goal; its outcome stays unknown.
Completes(i) ==
    /\ up /\ turn[i] \in Ended /\ intents[i] \notin {"none", "sending"}
    /\ FinishIntent(i, IF turn[i] = "completed" THEN "unknown" ELSE "failed")

(***************************************************************************)
(* _complete_turn, from a notification or from reconcile, any number of    *)
(* times.  An interruption also pauses the task (_mark_native_interrupt).  *)
(***************************************************************************)
Complete(i) ==
    /\ Completes(i)
    /\ SetIntent(i, IF turn[i] = "completed" THEN "completed" ELSE "failed")
    /\ IF turn[i] = "interrupted"
       THEN /\ Pauses
            /\ pausing' = (pausing \/ ~task.paused \/ resume # "no")
       ELSE UNCHANGED <<task, resume, pausing>>
    /\ UNCHANGED <<up, asking, stopper, raced, nativeVars, historyVars>>

\* Mutant of StartDelivered: an earlier stop stays proof for a turn that started after it.
StartDeliveredLate ==
    /\ up /\ notes > 0
    /\ notes' = notes - 1 /\ raced' = TRUE
    /\ UNCHANGED <<ledgerVars, up, intents, task, asking, resume, stopper, pausing,
                   turn, foreign, wire, sent, historyVars>>

\* turn/started in _on_notification: whoever started it, a stop before it proves nothing.
StartDelivered ==
    /\ up /\ notes > 0
    /\ notes' = notes - 1 /\ raced' = TRUE
    /\ task' = [paused |-> task.paused, pending |-> task.pending, stopped |-> FALSE]
    /\ UNCHANGED <<ledgerVars, up, intents, asking, resume, stopper, pausing,
                   turn, foreign, wire, sent, historyVars>>

-----------------------------------------------------------------------------
(* pause, and _enforce_task_deadlines. *)

\* _stop_native_root: an unloaded thread is resumed first, so that it can be stopped.
NativeStops ==
    /\ turn' = [i \in Intents |-> IF turn[i] = "running" THEN "interrupted" ELSE turn[i]]
    /\ foreign' = FALSE

\* The operator pauses the task; a second pause in a row adds nothing.
Pause ==
    /\ up /\ ~pausing
    /\ Pauses
    /\ pausing' = TRUE
    /\ UNCHANGED <<ledgerVars, up, intents, asking, stopper, raced, nativeVars, historyVars>>

\* stop_tree of a pause.
PauseStops ==
    /\ up /\ pausing /\ AdmissionFree
    /\ pausing' = FALSE
    /\ NativeStops
    /\ UNCHANGED <<ledgerVars, up, intents, task, asking, resume, stopper, raced,
                   wire, notes, sent, historyVars>>

WatchBusy == usage.outcome \in Unresolved \/ IntentBusy

MustStop ==
    \/ task.pending
    \/ TimeExhausted(policy, Facts, now, WatchBusy) /\ ~task.stopped

\* Pause and obligation are saved before anything native is awaited.
Enforce ==
    /\ up /\ stopper = "idle" /\ current # None
    /\ PolicyStatus
    /\ IF MustStop
       THEN /\ task' = [paused |-> TRUE, pending |-> TRUE, stopped |-> task.stopped]
            /\ stopper' = "waiting" /\ raced' = FALSE
            /\ resume' = Superseded
       ELSE UNCHANGED <<task, stopper, raced, resume>>
    /\ UNCHANGED <<up, intents, asking, pausing, nativeVars, historyVars>>

\* stop_tree of the deadline, under the input lock that a submit or a resume may hold.
StopNative ==
    /\ up /\ stopper = "waiting" /\ AdmissionFree
    /\ stopper' = "proved"
    /\ NativeStops
    /\ UNCHANGED <<ledgerVars, up, intents, task, asking, resume, pausing, raced,
                   wire, notes, sent, historyVars>>

\* Mutant of StopProved: a start that came in during the stop is overlooked.
StopProvedAnyway ==
    /\ up /\ stopper = "proved"
    /\ stopper' = "idle"
    /\ task' = [paused |-> task.paused, pending |-> FALSE, stopped |-> TRUE]
    /\ UNCHANGED <<ledgerVars, up, intents, asking, resume, pausing, raced, nativeVars, historyVars>>

\* The pause returned: the obligation is met, unless a start raced with the proof.
StopProved ==
    /\ up /\ stopper = "proved"
    /\ stopper' = "idle"
    /\ task' = IF raced THEN task
               ELSE [paused |-> task.paused, pending |-> FALSE, stopped |-> TRUE]
    /\ UNCHANGED <<ledgerVars, up, intents, asking, resume, pausing, raced, nativeVars, historyVars>>

-----------------------------------------------------------------------------
(* Service.resume of this task. *)

\* decide(..)["reasons"] = ["task_busy"] for an attempt that is running.
OnlyBusy ==
    /\ usage.outcome = "running" /\ IntentBusy
    /\ now >= Observed(Facts, now) /\ ~OutOfTime(policy, Facts, now)

ResumeBlocked == policy # None /\ ~Allowed(IntentBusy) /\ ~OnlyBusy

LookIfLimited ==
    IF policy = None THEN UNCHANGED ledgerVars ELSE PolicyStatus

ResumeBegins ==
    /\ up /\ AdmissionFree
    /\ LookIfLimited
    /\ resume' = IF ResumeBlocked THEN "no" ELSE "open"
    /\ UNCHANGED <<up, intents, task, asking, stopper, pausing, raced, nativeVars, historyVars>>

\* The last check follows the last await; a pause in between or the policy can refuse.
ResumeEnds ==
    /\ up /\ resume # "no"
    /\ IF resume = "open" THEN LookIfLimited ELSE UNCHANGED ledgerVars
    /\ resume' = "no"
    /\ task' = IF resume = "open" /\ ~ResumeBlocked
               THEN [paused |-> FALSE, pending |-> task.pending, stopped |-> FALSE]
               ELSE task
    /\ UNCHANGED <<up, intents, asking, stopper, pausing, raced, nativeVars, historyVars>>

-----------------------------------------------------------------------------
(* The process dies, and comes back. *)

\* Before, between or after the two writes of a step; the native server lives on.
Crash ==
    /\ up /\ up' = FALSE
    /\ \/ UNCHANGED ledgerVars
       \/ \E i \in Intents : SubmitCharged(i) \/ Completes(i)
    /\ asking' = None /\ resume' = "no" /\ stopper' = "idle" /\ pausing' = FALSE
    /\ raced' = FALSE
    /\ notes' = 0
    /\ UNCHANGED <<intents, task, turn, foreign, wire, sent, historyVars>>

\* Mutant of RestoredIntents: what was charged but not saved is not looked for.
RestoredKnown(i) ==
    [intents EXCEPT ![i] = IF intents[i] = "none" THEN "none" ELSE "unknown"]

\* A charged attempt whose intent was never saved gets one; none is ever sent again.
RestoredIntents(i) == [intents EXCEPT ![i] = "unknown"]

(***************************************************************************)
(* The start of Service.run: the orphan server is stopped first, then what *)
(* was running becomes unknown.  It can die again before runtime.json is   *)
(* saved.                                                                  *)
(***************************************************************************)
Restart ==
    /\ ~up
    /\ NativeStops /\ wire' = {}
    /\ IF usage.outcome \in Unresolved
       THEN /\ FinishAttempt(current, "unknown")
            /\ \/ up' = TRUE /\ intents' = RestoredIntents(current)
               \/ up' = FALSE /\ UNCHANGED intents
       ELSE up' = TRUE /\ UNCHANGED <<ledgerVars, intents>>
    /\ UNCHANGED <<task, asking, resume, stopper, pausing, raced, notes, sent, historyVars>>

-----------------------------------------------------------------------------
(* The native thread (external). *)

Told == IF up THEN notes + 1 ELSE notes

TurnStarts(i) ==
    /\ i \in wire /\ ~Active
    /\ wire' = wire \ {i}
    /\ turn' = [turn EXCEPT ![i] = "running"]
    /\ sent' = [sent EXCEPT ![i] = @ + 1]
    /\ notes' = Told
    /\ UNCHANGED <<ledgerVars, daemonVars, foreign, historyVars>>

RequestLost(i) ==
    /\ i \in wire
    /\ wire' = wire \ {i}
    /\ UNCHANGED <<ledgerVars, daemonVars, turn, foreign, notes, sent, historyVars>>

TurnEnds(i) ==
    /\ turn[i] = "running"
    /\ \E how \in Ended : turn' = [turn EXCEPT ![i] = how]
    /\ UNCHANGED <<ledgerVars, daemonVars, foreign, wire, notes, sent, historyVars>>

StrangerStarts ==
    /\ ~Active /\ strangers < MaxForeign
    /\ foreign' = TRUE /\ strangers' = strangers + 1
    /\ notes' = Told
    /\ UNCHANGED <<ledgerVars, daemonVars, turn, wire, sent, granted, backs>>

StrangerEnds ==
    /\ foreign /\ foreign' = FALSE
    /\ UNCHANGED <<ledgerVars, daemonVars, turn, wire, notes, sent, historyVars>>

Time == Tick /\ UNCHANGED <<daemonVars, nativeVars, historyVars>>

SetBack ==
    /\ ClockBack /\ backs < MaxBack /\ backs' = backs + 1
    /\ UNCHANGED <<daemonVars, nativeVars, granted, strangers>>

-----------------------------------------------------------------------------

Next ==
    \/ AssignPolicy
    \/ \E i \in Intents :
         \/ HostReconciles(i) \/ Submit(i) \/ SubmitDenied(i)
         \/ Acknowledged(i) \/ Unanswered(i) \/ TurnFound(i) \/ HistoryMissing(i) \/ Complete(i)
         \/ TurnStarts(i) \/ RequestLost(i) \/ TurnEnds(i)
    \/ StartDelivered
    \/ Pause \/ PauseStops
    \/ Enforce \/ StopNative \/ StopProved
    \/ ResumeBegins \/ ResumeEnds
    \/ Crash \/ Restart
    \/ StrangerStarts \/ StrangerEnds
    \/ Time \/ SetBack

Spec == Init /\ [][Next]_vars

(***************************************************************************)
(* A running service watches its policies in a loop of its own             *)
(* (_watch_task_policies); every native request it makes is answered or    *)
(* times out, and notifications arrive.  The input lock serves its waiters *)
(* in order, so that a stop gets its turn among submits and resumes.       *)
(***************************************************************************)
FairSpec ==
    /\ Spec
    /\ WF_vars(Enforce) /\ SF_vars(StopNative) /\ WF_vars(StopProved)
    /\ WF_vars(StartDelivered) /\ WF_vars(ResumeEnds)
    /\ \A i \in Intents : WF_vars(Unanswered(i))
=============================================================================
