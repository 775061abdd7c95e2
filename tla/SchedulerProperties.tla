------------------------ MODULE SchedulerProperties ------------------------
(***************************************************************************)
(* What must hold of the dispatcher and its ledger.                        *)
(***************************************************************************)
EXTENDS Scheduler

(***************************************************************************)
(* AtMostOnce: however polls of several processes, crashes, lease losses,  *)
(* retries of deferred occurrences and clock changes interleave, the input *)
(* of one recorded occurrence is handed to Codex at most once              *)
(* (claim_event, mark_sending, defer_event, acquire_lease).                *)
(***************************************************************************)
AtMostOnce == \A e \in EventIds : published[e] <= 1

(***************************************************************************)
(* InHandOfHolder: when some process holds a live lease, every claimed or  *)
(* sending event is its own: taking a lease over leaves nothing in the     *)
(* hands of an earlier holder, and nothing takes a holder's events.        *)
(***************************************************************************)
InHandOfHolder ==
    \A o \in Owners, e \in EventIds :
        HoldsLease(o) /\ events[e].status \in {"claimed", "sending"} => events[e].owner = o

(***************************************************************************)
(* WindowsTile: the windows recorded for one definition of a job neither   *)
(* overlap nor touch the instants still ahead of its cursor: no due        *)
(* instant is dispatched in two occurrences (materialize_due, due_window). *)
(***************************************************************************)
SameDefinition(d, e) == JobOf(d) = JobOf(e) /\ RevOf(d) = RevOf(e)
                        /\ events[d].def = events[e].def
Recorded == {e \in EventIds : events[e].status # "absent"}

WindowsTile ==
    /\ \A d, e \in Recorded :
         SameDefinition(d, e) /\ First(d) < First(e) => events[d].through < First(e)
    /\ \A e \in Recorded :
         LET j == jobs[JobOf(e)]
         IN  (/\ j.live
              /\ j.rev = RevOf(e) /\ j.def = events[e].def
              /\ j.due # NoDue) => events[e].through < j.due

(***************************************************************************)
(* NothingSkipped: downtime, pauses, late polls and a clock set back lose  *)
(* no due instant: after each window of a repeating job's present          *)
(* definition comes another window, or its cursor (next_due, due_window).  *)
(***************************************************************************)
NothingSkipped ==
    \A e \in Recorded :
        LET j == jobs[JobOf(e)]
            next == events[e].through + j.sched.value
        IN  (/\ j.live
             /\ j.rev = RevOf(e) /\ j.def = events[e].def
             /\ j.sched.type # "at")
            => \/ j.due = next
               \/ \E d \in Recorded : SameDefinition(d, e) /\ First(d) = next

(***************************************************************************)
(* NoCollision: the identity a due job is recorded under was never used    *)
(* before, so that one job cannot make materialize_due fail for all.       *)
(***************************************************************************)
NoCollision == \A j \in JobIds : IsDue(j) => events[OccurrenceId(j)].status = "absent"

(***************************************************************************)
(* EachInstantOnce: the windows of a job tile its due instants: each one   *)
(* is in one occurrence, or ahead of the cursor, with an identity of its   *)
(* own to be recorded under.                                               *)
(***************************************************************************)
EachInstantOnce == WindowsTile /\ NothingSkipped /\ NoCollision

(***************************************************************************)
(* OnePendingHeartbeat: a heartbeat that cannot be delivered never piles   *)
(* up: all its missed instants wait in one occurrence (materialize_due,    *)
(* defer_event, acquire_lease).                                            *)
(***************************************************************************)
OnePendingHeartbeat ==
    \A j \in JobIds :
        jobs[j].live /\ jobs[j].kind = "heartbeat" => Cardinality(PendingOf(j)) <= 1

(***************************************************************************)
(* StaleNeverSent: what is unsent of a deleted, disabled or revised        *)
(* definition is cancelled for good: nothing pending or claimed belongs to *)
(* another definition than the job's present one (update_job, delete_job,  *)
(* defer_event).                                                           *)
(***************************************************************************)
StaleNeverSent ==
    \A e \in EventIds :
        events[e].status \in Unsent =>
            LET j == jobs[JobOf(e)]
            IN  j.live /\ j.rev = RevOf(e) /\ j.def = events[e].def

(***************************************************************************)
(* ImplementsLedger: the leased dispatcher implements the abstract ledger. *)
(***************************************************************************)
Phase(status) ==
    IF status = "absent" THEN "none"
    ELSE IF status \in Unsent THEN "planned"
    ELSE IF status = "sending" THEN "attempting"
    ELSE IF status = "unknown" THEN "uncertain"
    ELSE IF status = "accepted" THEN "acknowledged"
    ELSE IF status = "cancelled" THEN "dropped"
    ELSE "ended"

Ledger == INSTANCE OccurrenceLedger WITH
    Occurrences <- EventIds,
    phase <- [e \in EventIds |-> Phase(events[e].status)],
    effects <- published

ImplementsLedger == Ledger!LedgerSpec

(***************************************************************************)
(* NothingStuck: no occurrence is left claimed or sending forever,         *)
(* whichever process had it in hand and wherever that process died: again  *)
(* and again, all hands are empty.                                         *)
(***************************************************************************)
NothingStuck == []<>(\A e \in EventIds : events[e].status \notin {"claimed", "sending"})

(***************************************************************************)
(* DueIsRecorded: a due job is not left waiting by other jobs, by a lost   *)
(* lease or by a dead holder: it gets its occurrence, unless autonomy is   *)
(* paused or an outcome of its own is unknown.                             *)
(***************************************************************************)
DueIsRecorded ==
    \A j \in JobIds : IsDue(j) ~> ~IsDue(j) \/ paused \/ Blocked(j)

(***************************************************************************)
(* NothingWaits: neither half of the dispatcher can hang on a dead one.    *)
(***************************************************************************)
NothingWaits == NothingStuck /\ DueIsRecorded
=============================================================================
