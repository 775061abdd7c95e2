----------------------------- MODULE Scheduler -----------------------------
(***************************************************************************)
(* The leased dispatcher (scheduler.py, class Scheduler) over the durable  *)
(* ledger of DispatchStore.  Each owner is one process generation; its     *)
(* poll is cut where the code leaves a transaction or awaits, so another   *)
(* process, the control plane, a completion notice, a crash or the clock   *)
(* can come between any two steps.                                         *)
(***************************************************************************)
EXTENDS DispatchStore

CONSTANT MaxBack          \* bound: how often the wall clock is set back

ASSUME BackAssumption == MaxBack \in Nat

VARIABLES
    pc,          \* where each owner's poll is; "dead" once its process is gone
    cur,         \* the event it has in hand
    batch,       \* list_events(status="pending"), what is left of it
    published,   \* history: external effects started for each event
    backs        \* history: how often the clock was set back

pollVars == <<pc, cur, batch>>
vars == <<storeVars, pollVars, published, backs>>

NoEvent == <<>>
Points == {"idle", "materialize", "list", "next", "claim", "probe",
           "deliver", "sent", "release", "dead"}
Dispatching == {"deliver", "sent"}
Holding == {"claim", "probe"} \cup Dispatching

PollTypeOK ==
    /\ pc \in [Owners -> Points]
    /\ cur \in [Owners -> EventIds \cup {NoEvent}]
    /\ \A o \in Owners : pc[o] \in Holding => cur[o] \in EventIds
    /\ batch \in [Owners -> SUBSET EventIds]
    /\ published \in [EventIds -> Nat]
    /\ backs \in 0..MaxBack

TypeOK == StoreTypeOK /\ PollTypeOK

Init ==
    /\ StoreInit
    /\ pc = [o \in Owners |-> "idle"]
    /\ cur = [o \in Owners |-> NoEvent]
    /\ batch = [o \in Owners |-> {}]
    /\ published = [e \in EventIds |-> 0]
    /\ backs = 0

\* The loop variable of the poll is meaningful only while an event is in hand.
Goto(o, point) ==
    /\ pc' = [pc EXCEPT ![o] = point]
    /\ cur' = IF point \in Holding THEN cur ELSE [cur EXCEPT ![o] = NoEvent]

At(o, point) == pc[o] = point

-----------------------------------------------------------------------------
(* Scheduler.poll: one bounded timing pass. *)

PollAcquire(o) ==
    /\ At(o, "idle") /\ Goto(o, "materialize")
    /\ AcquireLease(o)
    /\ UNCHANGED <<batch, published, backs>>

PollMaterialize(o) ==
    /\ At(o, "materialize") /\ Goto(o, "list")
    /\ \/ MaterializeDue(o)
       \/ HoldsLease(o) /\ paused /\ UNCHANGED storeVars
    /\ UNCHANGED <<batch, published, backs>>

PollList(o) ==
    /\ At(o, "list") /\ Goto(o, "next")
    /\ batch' = [batch EXCEPT ![o] = {e \in EventIds : events[e].status = "pending"}]
    /\ UNCHANGED <<storeVars, published, backs>>

\* ORDER BY due_at, id: the identities are hashes, so ties fall either way.
PollNext(o) ==
    /\ At(o, "next") /\ pc' = [pc EXCEPT ![o] = "claim"]
    /\ RenewLease(o)
    /\ \E e \in batch[o] :
         /\ \A d \in batch[o] : First(e) <= First(d)
         /\ cur' = [cur EXCEPT ![o] = e]
         /\ batch' = [batch EXCEPT ![o] = @ \ {e}]
    /\ UNCHANGED <<published, backs>>

PollDone(o) ==
    /\ At(o, "next") /\ batch[o] = {} /\ Goto(o, "release")
    /\ UNCHANGED <<storeVars, batch, published, backs>>

PollClaim(o) ==
    /\ At(o, "claim")
    /\ \/ ClaimEvent(cur[o], o) /\ Goto(o, "probe")
       \/ ClaimRefused(cur[o], o) /\ Goto(o, "next")
    /\ UNCHANGED <<batch, published, backs>>

\* await dispatcher.is_busy: the target is busy, or the call failed.
ProbeRefused(o) ==
    /\ At(o, "probe")
    /\ ReleaseClaim(cur[o], o)
    /\ Goto(o, "next") \/ Goto(o, "release")
    /\ UNCHANGED <<batch, published, backs>>

\* The target is free; mark_sending follows at once.
PollMark(o) ==
    /\ At(o, "probe")
    /\ \/ MarkSending(cur[o], o) /\ Goto(o, "deliver")
       \/ MarkRefused(cur[o], o) /\ Goto(o, "next")
    /\ UNCHANGED <<batch, published, backs>>

-----------------------------------------------------------------------------
(* Scheduler._deliver: dispatcher.dispatch runs beside the lease renewal.  *)

\* Service.dispatch hands the input over to submit: from here on the effect may exist.
Publish(o) ==
    /\ At(o, "deliver") /\ Goto(o, "sent")
    /\ published' = [published EXCEPT ![cur[o]] = @ + 1]
    /\ UNCHANGED <<storeVars, batch, backs>>

Renew(o) ==
    /\ pc[o] \in Dispatching
    /\ RenewLease(o)
    /\ UNCHANGED <<pollVars, published, backs>>

\* RejectedDispatch, or a dispatch that had nothing to send: definite, and nothing was sent.
DispatchSettled(o) ==
    /\ At(o, "deliver")
    /\ \E status \in {"failed", "completed"} :
         IF ReceiptAllowed(cur[o], status)
         THEN RecordReceipt(cur[o], status) /\ Goto(o, "next")
         ELSE UNCHANGED storeVars /\ Goto(o, "release")
    /\ UNCHANGED <<batch, published, backs>>

\* DeferredDispatch: the same occurrence waits for a later poll.
DispatchDeferred(o) ==
    /\ At(o, "deliver")
    /\ IF HoldsLease(o) /\ Owned(cur[o], o, "sending")
       THEN DeferEvent(cur[o], o) /\ Goto(o, "next")
       ELSE UNCHANGED storeVars /\ Goto(o, "release")
    /\ UNCHANGED <<batch, published, backs>>

\* The acknowledgement; a completion that was recorded first is the stronger fact.
DispatchAccepted(o) ==
    /\ At(o, "sent")
    /\ Goto(o, "next")
    /\ IF events[cur[o]].status \in {"completed", "failed"}
       THEN UNCHANGED storeVars
       ELSE RecordReceipt(cur[o], "accepted")
    /\ UNCHANGED <<batch, published, backs>>

\* A timeout, a transport error, a lost lease or a cancelled poll: nothing can be concluded.
DispatchUnknown(o) ==
    /\ pc[o] \in Dispatching
    /\ IF ReceiptAllowed(cur[o], "unknown")
       THEN RecordReceipt(cur[o], "unknown") /\ (Goto(o, "next") \/ Goto(o, "release"))
       ELSE UNCHANGED storeVars /\ Goto(o, "release")
    /\ UNCHANGED <<batch, published, backs>>

-----------------------------------------------------------------------------

\* A transaction of the poll raises: LeaseLost, or a collision in materialize_due.
PollRaises(o) ==
    /\ \/ At(o, "materialize") /\ MaterializeRaises(o)
       \/ At(o, "next") /\ batch[o] # {} /\ ~HoldsLease(o)
       \/ pc[o] \in {"claim", "probe"} /\ ~HoldsLease(o)
    /\ Goto(o, "release")
    /\ UNCHANGED <<storeVars, batch, published, backs>>

\* The finally clause of every poll.
PollRelease(o) ==
    /\ At(o, "release") /\ Goto(o, "idle")
    /\ lease' = ReleasedLease(o)
    /\ batch' = [batch EXCEPT ![o] = {}]
    /\ UNCHANGED <<now, jobs, events, paused, made, published, backs>>

\* What a live poll does on its own, bar the renewals that keep the lease meanwhile.
Progress(o) ==
    \/ PollAcquire(o) \/ PollMaterialize(o) \/ PollList(o) \/ PollNext(o) \/ PollDone(o)
    \/ PollClaim(o) \/ ProbeRefused(o) \/ PollMark(o) \/ Publish(o)
    \/ DispatchSettled(o) \/ DispatchDeferred(o) \/ DispatchAccepted(o)
    \/ DispatchUnknown(o) \/ PollRaises(o) \/ PollRelease(o)

(***************************************************************************)
(* The process dies between two steps.  One owner stays; and since the     *)
(* clock stops at MaxTime, none dies with a lease it would not outlast.    *)
(***************************************************************************)
Crash(o) ==
    /\ pc[o] # "dead"
    /\ \E live \in Owners \ {o} : pc[live] # "dead"
    /\ lease.owner = o => lease.expires <= MaxTime
    /\ Goto(o, "dead")
    /\ batch' = [batch EXCEPT ![o] = {}]
    /\ UNCHANGED <<storeVars, published, backs>>

(***************************************************************************)
(* The service's completion notices (Service._complete_turn): Codex ended  *)
(* the turn, or the summary it was to commit is incomplete.                *)
(***************************************************************************)
Notice(e) ==
    /\ published[e] > 0
    /\ events[e].status \in {"sending", "accepted", "unknown"}
    /\ \E status \in {"completed", "failed", "unknown"} : RecordReceipt(e, status)
    /\ UNCHANGED <<pollVars, published, backs>>

\* The control plane: cron_create, cron_update, cron_delete, pause and resume.
Control ==
    /\ \/ \E j \in JobIds : CreateJob(j) \/ UpdateJob(j) \/ DeleteJob(j)
       \/ \E value \in BOOLEAN : SetAutonomyPaused(value)
    /\ UNCHANGED <<pollVars, published, backs>>

\* The wall clock goes on, or is set back.
Time ==
    /\ \/ Tick /\ UNCHANGED backs
       \/ ClockBack /\ backs < MaxBack /\ backs' = backs + 1
    /\ UNCHANGED <<pollVars, published>>

Next ==
    \/ \E o \in Owners : Progress(o) \/ Renew(o) \/ Crash(o)
    \/ \E e \in EventIds : Notice(e)
    \/ Control
    \/ Time

Spec == Init /\ [][Next]_vars

(***************************************************************************)
(* A live service polls again and again (Service._tick), every await of a  *)
(* poll is bounded by a timeout, and time passes.                          *)
(***************************************************************************)
FairSpec == Spec /\ WF_vars(Time /\ now' > now) /\ \A o \in Owners : WF_vars(Progress(o))
=============================================================================
