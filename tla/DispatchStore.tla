--------------------------- MODULE DispatchStore ---------------------------
(***************************************************************************)
(* The durable schedule and dispatch ledger (store.py, class Store): jobs, *)
(* the occurrences they are due for ("events"), the single dispatcher      *)
(* lease and the persistent autonomy pause.  Every operation of the code   *)
(* runs in one SQLite BEGIN IMMEDIATE transaction, so each is one action.  *)
(*                                                                         *)
(* An event's identity is a UUID5 of job id, job revision and first        *)
(* instant: here the triple itself.  The definition an event was planned   *)
(* from is stored with it; def numbers the creation of the job it came     *)
(* from, which with the revision in the identity says which text that is.  *)
(***************************************************************************)
EXTENDS DueWindow, FiniteSets

CONSTANTS
    Owners,        \* process generations: Scheduler.owner is a fresh UUID for each
    None,          \* SQL NULL
    JobIds,        \* identifiers a job may have
    NamedIds,      \* those that callers name (job_id=..): they can be used again
    Schedules,     \* schedules a caller may ask for
    Kinds,         \* kinds of job a caller may ask for: "task", "heartbeat"
    LeaseSeconds,  \* lease_seconds
    MaxTime,       \* bound: the clock stops here
    MaxRev,        \* bound: updates of one job
    MaxMade        \* bound: creations of one named job

ASSUME OwnersAssumption == None \notin Owners
ASSUME ScheduleAssumption ==
    /\ Schedules \subseteq [type : {"at", "every", "cron"}, value : Nat \ {0}]
    /\ Kinds \subseteq {"task", "heartbeat"}
    /\ LeaseSeconds \in Nat \ {0}
ASSUME BoundsAssumption ==
    /\ NamedIds \subseteq JobIds
    /\ MaxTime \in Nat /\ MaxRev \in Nat \ {0} /\ MaxMade \in Nat \ {0}

VARIABLES
    now,      \* time.time(), in seconds
    jobs,     \* table jobs: id -> definition, or NoJob
    events,   \* table events: identity -> row; "absent" rows are not there
    lease,    \* table lease: its one row
    paused,   \* settings.autonomy_paused
    made      \* history: how often each id was created (uuid4 never repeats one)

storeVars == <<now, jobs, events, lease, paused, made>>

EventIds == JobIds \X (1..MaxRev) \X (0..MaxTime)
JobOf(e) == e[1]
RevOf(e) == e[2]
First(e) == e[3]           \* due_at

Unsent   == {"pending", "claimed"}
Terminal == {"completed", "failed", "cancelled"}
Statuses == {"absent", "sending", "accepted", "unknown"} \cup Unsent \cup Terminal

Event == [status : Statuses, owner : Owners \cup {None}, through : Nat, def : Nat]
Absent == [status |-> "absent", owner |-> None, through |-> 0, def |-> 0]

NoJob == [live |-> FALSE]
Job == [live : {TRUE}, sched : Schedules, kind : Kinds, enabled : BOOLEAN,
        due : Nat \cup {NoDue}, rev : 1..MaxRev, def : Nat]

StoreTypeOK ==
    /\ now \in 0..MaxTime
    /\ jobs \in [JobIds -> Job \cup {NoJob}]
    /\ events \in [EventIds -> Event]
    /\ lease \in [owner : Owners \cup {None}, expires : Nat]
    /\ paused \in BOOLEAN
    /\ made \in [JobIds -> 0..MaxMade]

StoreInit ==
    /\ now = 0
    /\ jobs = [j \in JobIds |-> NoJob]
    /\ events = [e \in EventIds |-> Absent]
    /\ lease = [owner |-> None, expires |-> 0]
    /\ paused = FALSE
    /\ made = [j \in JobIds |-> 0]

\* The row of an event whose status is written.
Row(e, status, owner) ==
    [status |-> status, owner |-> owner, through |-> events[e].through, def |-> events[e].def]

-----------------------------------------------------------------------------
(* Jobs. *)

\* Mutant of CancelUnsent: what a poll has claimed is overlooked.
CancelPending(j) ==
    events' = [e \in EventIds |->
                 IF JobOf(e) = j /\ events[e].status = "pending"
                 THEN Row(e, "cancelled", events[e].owner) ELSE events[e]]

\* update_job and delete_job: what was planned but not sent is cancelled.
CancelUnsent(j) ==
    events' = [e \in EventIds |->
                 IF JobOf(e) = j /\ events[e].status \in Unsent
                 THEN Row(e, "cancelled", None)
                 ELSE events[e]]

CreateJob(j) ==
    /\ ~jobs[j].live
    /\ made[j] < IF j \in NamedIds THEN MaxMade ELSE 1
    /\ \E sched \in Schedules, kind \in Kinds, enabled \in BOOLEAN :
         jobs' = [jobs EXCEPT ![j] =
                    [live |-> TRUE, sched |-> sched, kind |-> kind, enabled |-> enabled,
                     due |-> NextDue(sched, NoDue, now, TRUE), rev |-> 1,
                     def |-> made[j] + 1]]
    /\ made' = [made EXCEPT ![j] = @ + 1]
    /\ UNCHANGED <<now, events, lease, paused>>

\* Mutant of UpdateJob: the revision is not advanced.
UpdateJobSameRevision(j) ==
    /\ jobs[j].live
    /\ \E sched \in Schedules :
         jobs' = [jobs EXCEPT ![j].sched = sched,
                              ![j].due = NextDue(sched, NoDue, now, TRUE)]
    /\ CancelUnsent(j)
    /\ UNCHANGED <<now, lease, paused, made>>

\* A change of the schedule's own fields, or enabling a disabled job, sets the cursor anew.
UpdateJob(j) ==
    /\ jobs[j].live /\ jobs[j].rev < MaxRev
    /\ \E sched \in Schedules, kind \in Kinds, enabled \in BOOLEAN, reschedule \in BOOLEAN :
         /\ sched # jobs[j].sched => reschedule
         /\ jobs' = [jobs EXCEPT ![j] =
              [live |-> TRUE, sched |-> sched, kind |-> kind, enabled |-> enabled,
               due |-> IF reschedule \/ (enabled /\ ~jobs[j].enabled)
                       THEN NextDue(sched, NoDue, now, TRUE) ELSE jobs[j].due,
               rev |-> jobs[j].rev + 1, def |-> jobs[j].def]]
    /\ CancelUnsent(j)
    /\ UNCHANGED <<now, lease, paused, made>>

\* Deleting an id that is not there changes no job, and still cancels what is unsent under it.
DeleteJob(j) ==
    /\ jobs' = [jobs EXCEPT ![j] = NoJob]
    /\ CancelUnsent(j)
    /\ UNCHANGED <<now, lease, paused, made>>

SetAutonomyPaused(value) ==
    /\ paused' = value
    /\ UNCHANGED <<now, jobs, events, lease, made>>

-----------------------------------------------------------------------------
(* The lease. *)

HoldsLease(o) == lease.owner = o /\ lease.expires > now      \* _require_lease passes

LeaseFree(o) == lease.owner = o \/ lease.expires <= now

\* Mutant of RecoverEvents: an uncertain attempt is taken for an unsent one.
RecoverAsUnsent ==
    events' = [e \in EventIds |->
                 IF events[e].status \in {"claimed", "sending"}
                 THEN Row(e, "pending", None) ELSE events[e]]

\* Mutant of RecoverEvents: claims of the earlier term are left behind.
RecoverSendingOnly ==
    events' = [e \in EventIds |->
                 IF events[e].status = "sending"
                 THEN Row(e, "unknown", None) ELSE events[e]]

(***************************************************************************)
(* A new term returns what was claimed but not sent to pending, and what   *)
(* was being sent becomes unknown: its effect cannot be known here.  An    *)
(* owner that still holds its own lease only extends it.                   *)
(***************************************************************************)
RecoverEvents ==
    events' = [e \in EventIds |->
                 IF events[e].status = "claimed"
                 THEN Row(e, "pending", None)
                 ELSE IF events[e].status = "sending"
                 THEN Row(e, "unknown", None)
                 ELSE events[e]]

AcquireLease(o) ==
    /\ LeaseFree(o)
    /\ IF HoldsLease(o) THEN UNCHANGED events ELSE RecoverEvents
    /\ lease' = [owner |-> o, expires |-> now + LeaseSeconds]
    /\ UNCHANGED <<now, jobs, paused, made>>

RenewLease(o) ==
    /\ HoldsLease(o)
    /\ lease' = [lease EXCEPT !.expires = now + LeaseSeconds]
    /\ UNCHANGED <<now, jobs, events, paused, made>>

\* lease' of release_lease, which every poll ends with.
ReleasedLease(o) == IF lease.owner = o THEN [owner |-> None, expires |-> 0] ELSE lease

-----------------------------------------------------------------------------
(* Occurrences. *)

Blocked(j) == \E e \in EventIds : JobOf(e) = j /\ events[e].status = "unknown"

IsDue(j) ==
    /\ jobs[j].live
    /\ jobs[j].enabled
    /\ jobs[j].due # NoDue
    /\ jobs[j].due <= now

PendingOf(j) == {e \in EventIds : JobOf(e) = j /\ events[e].status = "pending"}

OccurrenceId(j) == <<j, jobs[j].rev, jobs[j].due>>

\* Mutant of Merges: a heartbeat is recorded like any other job.
NeverMerges(j) == FALSE

Merges(j) == jobs[j].kind = "heartbeat" /\ PendingOf(j) # {}

\* The event a due job is recorded under: a heartbeat merges into its earliest unsent one.
TargetEvent(j) ==
    IF Merges(j)
    THEN CHOOSE e \in PendingOf(j) : \A d \in PendingOf(j) : First(e) <= First(d)
    ELSE OccurrenceId(j)

Touched == {j \in JobIds : IsDue(j) /\ ~Blocked(j)}

\* INSERT INTO events fails on an identity that was recorded before.
Collides(j) == ~Merges(j) /\ events[OccurrenceId(j)].status # "absent"

(***************************************************************************)
(* materialize_due: one transaction records the window of every due job    *)
(* and moves its cursor.  Any collision rolls all of it back.              *)
(***************************************************************************)
MaterializeDue(o) ==
    /\ HoldsLease(o) /\ ~paused
    /\ \A j \in Touched : ~Collides(j)
    /\ events' = [e \in EventIds |->
         IF JobOf(e) \in Touched /\ e = TargetEvent(JobOf(e))
         THEN LET j == JobOf(e)
                  last == WindowLast(jobs[j].sched, jobs[j].due, now)
              IN  IF Merges(j) THEN [events[e] EXCEPT !.through = last]
                  ELSE [status |-> "pending", owner |-> None, through |-> last,
                        def |-> jobs[j].def]
         ELSE events[e]]
    /\ jobs' = [j \in JobIds |->
         IF j \in Touched
         THEN [jobs[j] EXCEPT !.due = WindowFollowing(jobs[j].sched, jobs[j].due, now)]
         ELSE jobs[j]]
    /\ UNCHANGED <<now, lease, paused, made>>

MaterializeRaises(o) == ~HoldsLease(o) \/ (~paused /\ \E j \in Touched : Collides(j))

SetEvent(e, status, owner) == events' = [events EXCEPT ![e] = Row(e, status, owner)]

Current(e) ==      \* the job still has the definition the event was planned from
    LET j == jobs[JobOf(e)] IN j.live /\ j.enabled /\ j.rev = RevOf(e)

ClaimEvent(e, o) ==
    /\ HoldsLease(o) /\ ~paused
    /\ events[e].status = "pending"
    /\ ~Blocked(JobOf(e)) /\ Current(e)
    /\ SetEvent(e, "claimed", o)
    /\ UNCHANGED <<now, jobs, lease, paused, made>>

ClaimRefused(e, o) ==
    /\ HoldsLease(o)
    /\ paused \/ events[e].status # "pending" \/ Blocked(JobOf(e)) \/ ~Current(e)
    /\ UNCHANGED storeVars

Owned(e, o, status) == events[e].status = status /\ events[e].owner = o

\* release_claim, and the paused branch of mark_sending.
ReleaseClaim(e, o) ==
    /\ IF Owned(e, o, "claimed") THEN SetEvent(e, "pending", None) ELSE UNCHANGED events
    /\ UNCHANGED <<now, jobs, lease, paused, made>>

MarkSending(e, o) ==
    /\ HoldsLease(o) /\ ~paused /\ Owned(e, o, "claimed")
    /\ SetEvent(e, "sending", o)
    /\ UNCHANGED <<now, jobs, lease, paused, made>>

MarkRefused(e, o) ==
    /\ HoldsLease(o)
    /\ paused \/ ~Owned(e, o, "claimed")
    /\ IF paused THEN ReleaseClaim(e, o) ELSE UNCHANGED storeVars

\* Mutant of DeferEvent: a status nothing else knows.
DeferEventRenamed(e, o) ==
    /\ HoldsLease(o) /\ Owned(e, o, "sending")
    /\ SetEvent(e, "deferred", None)
    /\ UNCHANGED <<now, jobs, lease, paused, made>>

DeferEvent(e, o) ==
    /\ HoldsLease(o) /\ Owned(e, o, "sending")
    /\ SetEvent(e, IF Current(e) THEN "pending" ELSE "cancelled", None)
    /\ UNCHANGED <<now, jobs, lease, paused, made>>

\* Mutant of ReceiptAllowed: a final receipt can be overwritten.
ReceiptOverwrites(e, status) == events[e].status \notin Unsent \cup {"absent", "cancelled"}

(***************************************************************************)
(* record_receipt takes no lease: an answer that arrives after the lease   *)
(* was lost still settles what it answers.  What is final stays as it is,  *)
(* and nothing unsent can have been answered.                              *)
(***************************************************************************)
ReceiptAllowed(e, status) ==
    /\ events[e].status \notin Unsent \cup {"absent", "cancelled"}
    /\ events[e].status \in Terminal => events[e].status = status

RecordReceipt(e, status) ==
    /\ ReceiptAllowed(e, status)
    /\ SetEvent(e, status, None)
    /\ UNCHANGED <<now, jobs, lease, paused, made>>

Tick ==
    /\ now < MaxTime
    /\ now' = now + 1
    /\ UNCHANGED <<jobs, events, lease, paused, made>>

\* time.time() follows the wall clock, which can be set back.
ClockBack ==
    /\ now > 0
    /\ now' = now - 1
    /\ UNCHANGED <<jobs, events, lease, paused, made>>
=============================================================================
