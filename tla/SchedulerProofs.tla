--------------------------- MODULE SchedulerProofs ---------------------------
(***************************************************************************)
(* The leased dispatcher keeps its types for any number of processes, jobs *)
(* and schedules.  It rests on what the timing arithmetic guarantees for   *)
(* every period and instant, and on the transactions of the dispatch store *)
(* keeping its tables well formed.                                         *)
(***************************************************************************)
EXTENDS SchedulerProperties, TLAPS

-----------------------------------------------------------------------------
(* The timing arithmetic. *)

\* A schedule validate_job accepts.
Repeating(sched) == sched.type \in {"every", "cron"} /\ sched.value \in Nat \ {0}

\* The floor of the grid: LastOnGrid is at most one period behind t.
LEMMA GridFloor ==
    ASSUME NEW anchor \in Nat, NEW period \in Nat \ {0}, NEW t \in Nat, anchor <= t
    PROVE  /\ LastOnGrid(anchor, period, t) \in Nat
           /\ anchor <= LastOnGrid(anchor, period, t)
           /\ LastOnGrid(anchor, period, t) <= t
           /\ t < LastOnGrid(anchor, period, t) + period
<1> DEFINE d == t - anchor
           q == d \div period
<1>1. d \in Nat
  OBVIOUS
<1>2. q \in Nat /\ q * period <= d /\ d < q * period + period
  BY <1>1
<1>3. q * period \in Nat
  BY <1>2
<1> QED
  BY <1>1, <1>2, <1>3 DEF LastOnGrid

(***************************************************************************)
(* WindowBounds: for a job due at due <= t, the window starts at due, ends *)
(* at or before t, and the next cursor lies strictly after t: one poll     *)
(* never leaves a job due again (due_window, next_due).                    *)
(***************************************************************************)
THEOREM WindowBounds ==
    ASSUME NEW sched, Repeating(sched), NEW due \in Nat, NEW t \in Nat, due <= t
    PROVE  /\ WindowLast(sched, due, t) \in due..t
           /\ WindowFollowing(sched, due, t) \in Nat
           /\ t < WindowFollowing(sched, due, t)
<1>1. CASE sched.type = "every"
  <2>1. due # NoDue
    BY DEF NoDue
  <2>2. WindowLast(sched, due, t) = LastOnGrid(due, sched.value, t)
    BY <1>1 DEF WindowLast
  <2>3. WindowFollowing(sched, due, t) = LastOnGrid(due, sched.value, t) + sched.value
    BY <1>1, <2>1 DEF WindowFollowing, NextDue
  <2>4. sched.value \in Nat \ {0}
    BY DEF Repeating
  <2>5. /\ LastOnGrid(due, sched.value, t) \in Nat
        /\ due <= LastOnGrid(due, sched.value, t)
        /\ LastOnGrid(due, sched.value, t) <= t
        /\ t < LastOnGrid(due, sched.value, t) + sched.value
    BY ONLY <2>4, GridFloor, due \in Nat, t \in Nat, due <= t
  <2> QED
    BY <2>2, <2>3, <2>4, <2>5
<1>2. CASE sched.type = "cron"
  <2> DEFINE prev == LastOnGrid(0, sched.value, t)
  <2>1. WindowLast(sched, due, t) = IF prev < due THEN due ELSE prev
    BY <1>2 DEF WindowLast
  <2>2. WindowFollowing(sched, due, t) = prev + sched.value
    BY <1>2 DEF WindowFollowing, NextDue
  <2>3. sched.value \in Nat \ {0}
    BY DEF Repeating
  <2>4. prev \in Nat /\ prev <= t /\ t < prev + sched.value
    <3> HIDE DEF prev
    <3>1. 0 \in Nat /\ 0 <= t
      OBVIOUS
    <3> QED
      BY <2>3, <3>1, GridFloor DEF prev
  <2> QED
    BY <2>1, <2>2, <2>3, <2>4
<1> QED
  BY <1>1, <1>2 DEF Repeating

(***************************************************************************)
(* WindowsMeet: the cursor moves exactly one period past the end of the    *)
(* window, so that no instant of the schedule falls between this window    *)
(* and the next one (due_window, next_due).                                *)
(***************************************************************************)
THEOREM WindowsMeet ==
    ASSUME NEW sched, Repeating(sched), NEW due \in Nat, NEW t \in Nat, due <= t,
           sched.type = "cron" => due % sched.value = 0
    PROVE  WindowFollowing(sched, due, t) = WindowLast(sched, due, t) + sched.value
<1>1. CASE sched.type = "every"
  BY <1>1 DEF WindowFollowing, WindowLast, NextDue, NoDue
<1>2. CASE sched.type = "cron"
  <2> DEFINE v == sched.value
             k == due \div v
             q == t \div v
             prev == LastOnGrid(0, v, t)
  <2>1. prev = q * v /\ q \in Nat
    BY DEF LastOnGrid, Repeating
  <2>2. due = k * v /\ k \in Nat
    BY <1>2 DEF Repeating
  <2>3. t < q * v + v
    <3>1. v \in Nat \ {0} /\ 0 \in Nat /\ 0 <= t
      BY DEF Repeating
    <3>2. t < prev + v
      BY ONLY <3>1, GridFloor, t \in Nat DEF prev, v
    <3> QED
      BY <2>1, <3>2
  <2>4. k * v < (q + 1) * v
    BY <2>1, <2>2, <2>3 DEF Repeating
  <2>5. k <= q
    BY <2>1, <2>2, <2>4 DEF Repeating
  <2>6. due <= prev
    BY <2>1, <2>2, <2>5 DEF Repeating
  <2>7. WindowLast(sched, due, t) = prev
    BY <1>2, <2>1, <2>6 DEF WindowLast, Repeating
  <2> QED
    BY <1>2, <2>7 DEF WindowFollowing, NextDue
<1> QED
  BY <1>1, <1>2 DEF Repeating

-----------------------------------------------------------------------------
(* The transactions of the dispatch store. *)

USE DEF NoDue

\* The cursor a schedule yields is an instant or NULL.
LEMMA NextDueType ==
    ASSUME NEW sched \in Schedules, NEW due \in Nat \cup {NoDue}, NEW t \in Nat,
           NEW initial \in BOOLEAN
    PROVE  NextDue(sched, due, t, initial) \in Nat \cup {NoDue}
<1>1. sched \in [type : {"at", "every", "cron"}, value : Nat \ {0}]
  BY ScheduleAssumption
<1> DEFINE v == sched.value
<1>2. v \in Nat \ {0} /\ sched.type \in {"at", "every", "cron"}
  BY <1>1
<1>3. CASE sched.type = "at"
  BY <1>2, <1>3 DEF NextDue
<1>4. CASE sched.type = "every"
  <2>1. CASE initial \/ due = NoDue
    <3>1. NextDue(sched, due, t, initial) = t + v
      BY <1>4, <2>1 DEF NextDue
    <3> QED
      BY <1>2, <3>1
  <2>2. CASE ~(initial \/ due = NoDue) /\ t < due
    <3>1. NextDue(sched, due, t, initial) = due
      BY <1>4, <2>2 DEF NextDue
    <3> QED
      BY <3>1
  <2>3. CASE ~(initial \/ due = NoDue) /\ ~(t < due)
    <3>1. NextDue(sched, due, t, initial) = LastOnGrid(due, v, t) + v
      BY <1>4, <2>3 DEF NextDue
    <3>2. due \in Nat /\ due <= t
      BY <2>3
    <3>3. LastOnGrid(due, v, t) \in Nat
      BY ONLY <1>2, <3>2, t \in Nat, GridFloor
    <3> QED
      BY <1>2, <3>1, <3>3
  <2> QED
    BY <2>1, <2>2, <2>3
<1>5. CASE sched.type = "cron"
  <2>1. NextDue(sched, due, t, initial) = LastOnGrid(0, v, t) + v
    BY <1>5 DEF NextDue
  <2>2. 0 \in Nat /\ 0 <= t
    OBVIOUS
  <2>3. LastOnGrid(0, v, t) \in Nat
    BY ONLY <1>2, <2>2, t \in Nat, GridFloor
  <2> QED
    BY <1>2, <2>1, <2>3
<1> QED
  BY <1>2, <1>3, <1>4, <1>5

\* The end of a due job's window is an instant.
LEMMA WindowLastType ==
    ASSUME NEW sched \in Schedules, NEW due \in Nat, NEW t \in Nat, due <= t
    PROVE  WindowLast(sched, due, t) \in Nat
<1>1. sched.type \in {"at", "every", "cron"} /\ sched.value \in Nat \ {0}
  BY ScheduleAssumption
<1>2. CASE sched.type = "at"
  BY <1>2 DEF WindowLast
<1>3. CASE sched.type \in {"every", "cron"}
  <2>1. Repeating(sched)
    BY <1>1, <1>3 DEF Repeating
  <2> QED
    BY <2>1, WindowBounds
<1> QED
  BY <1>1, <1>2, <1>3

-----------------------------------------------------------------------------

\* A row of the table jobs that is there.
LEMMA LiveJob ==
    ASSUME StoreTypeOK, NEW j \in JobIds, jobs[j].live
    PROVE  jobs[j] \in Job
<1>1. jobs[j] \in Job \/ jobs[j] = NoJob
  BY DEF StoreTypeOK
<1>2. ~NoJob.live
  BY DEF NoJob
<1> QED
  BY <1>1, <1>2

\* The cursor of a job that is created or rescheduled.
LEMMA FirstCursorType ==
    ASSUME StoreTypeOK, NEW sched \in Schedules
    PROVE  NextDue(sched, NoDue, now, TRUE) \in Nat \cup {NoDue}
<1>1. now \in Nat
  BY BoundsAssumption DEF StoreTypeOK
<1>2. NoDue \in Nat \cup {NoDue} /\ TRUE \in BOOLEAN
  OBVIOUS
<1> QED
  BY ONLY <1>1, <1>2, NextDueType, sched \in Schedules

LEMMA CreateJobType ==
    ASSUME StoreTypeOK, NEW j \in JobIds, CreateJob(j)
    PROVE  StoreTypeOK'
<1>1. PICK sched \in Schedules, kind \in Kinds, enabled \in BOOLEAN :
        jobs' = [jobs EXCEPT ![j] =
                   [live |-> TRUE, sched |-> sched, kind |-> kind, enabled |-> enabled,
                    due |-> NextDue(sched, NoDue, now, TRUE), rev |-> 1,
                    def |-> made[j] + 1]]
  BY DEF CreateJob
<1>2. NextDue(sched, NoDue, now, TRUE) \in Nat \cup {NoDue}
  BY FirstCursorType
<1>3. made[j] + 1 \in Nat /\ 1 \in 1..MaxRev
  BY BoundsAssumption DEF StoreTypeOK
<1>4. jobs'[j] \in Job
  BY <1>1, <1>2, <1>3 DEF StoreTypeOK, Job
<1>5. jobs' \in [JobIds -> Job \cup {NoJob}]
  BY <1>1, <1>4 DEF StoreTypeOK
<1>6. made' \in [JobIds -> 0..MaxMade]
  BY BoundsAssumption DEF CreateJob, StoreTypeOK
<1> QED
  BY <1>5, <1>6 DEF CreateJob, StoreTypeOK

LEMMA CancelUnsentType ==
    ASSUME StoreTypeOK, NEW j \in JobIds, CancelUnsent(j)
    PROVE  events' \in [EventIds -> Event]
BY DEF CancelUnsent, Row, StoreTypeOK, Event, Statuses, Unsent, Terminal

LEMMA UpdateJobType ==
    ASSUME StoreTypeOK, NEW j \in JobIds, UpdateJob(j)
    PROVE  StoreTypeOK'
<1>1. PICK sched \in Schedules, kind \in Kinds, enabled \in BOOLEAN, reschedule \in BOOLEAN :
        jobs' = [jobs EXCEPT ![j] =
          [live |-> TRUE, sched |-> sched, kind |-> kind, enabled |-> enabled,
           due |-> IF reschedule \/ (enabled /\ ~jobs[j].enabled)
                   THEN NextDue(sched, NoDue, now, TRUE) ELSE jobs[j].due,
           rev |-> jobs[j].rev + 1, def |-> jobs[j].def]]
  BY DEF UpdateJob
<1>2. NextDue(sched, NoDue, now, TRUE) \in Nat \cup {NoDue}
  BY FirstCursorType
<1>3. jobs[j] \in Job /\ jobs[j].rev + 1 \in 1..MaxRev
  <2>1. jobs[j] \in Job /\ jobs[j].rev < MaxRev
    BY LiveJob DEF UpdateJob
  <2>2. jobs[j].rev \in 1..MaxRev
    BY <2>1 DEF Job
  <2> QED
    BY <2>1, <2>2, BoundsAssumption
<1>4. jobs'[j] \in Job
  BY <1>1, <1>2, <1>3 DEF StoreTypeOK, Job
<1>5. jobs' \in [JobIds -> Job \cup {NoJob}]
  BY <1>1, <1>4 DEF StoreTypeOK
<1>6. events' \in [EventIds -> Event]
  BY CancelUnsentType DEF UpdateJob
<1> QED
  BY <1>5, <1>6 DEF UpdateJob, StoreTypeOK

LEMMA DeleteJobType ==
    ASSUME StoreTypeOK, NEW j \in JobIds, DeleteJob(j)
    PROVE  StoreTypeOK'
BY CancelUnsentType DEF DeleteJob, StoreTypeOK

LEMMA LeaseType ==
    ASSUME StoreTypeOK, NEW o \in Owners
    PROVE  /\ AcquireLease(o) => StoreTypeOK'
           /\ RenewLease(o) => StoreTypeOK'
           /\ ReleasedLease(o) \in [owner : Owners \cup {None}, expires : Nat]
<1>1. now + LeaseSeconds \in Nat
  BY ScheduleAssumption, BoundsAssumption DEF StoreTypeOK
<1>2. AcquireLease(o) => events' \in [EventIds -> Event]
  BY DEF AcquireLease, RecoverEvents, Row, StoreTypeOK, Event, Statuses, Unsent
<1>3. AcquireLease(o) => lease' \in [owner : Owners \cup {None}, expires : Nat]
  BY <1>1 DEF AcquireLease
<1>4. RenewLease(o) => lease' \in [owner : Owners \cup {None}, expires : Nat]
  BY <1>1 DEF RenewLease, StoreTypeOK
<1> QED
  BY <1>2, <1>3, <1>4 DEF AcquireLease, RenewLease, ReleasedLease, StoreTypeOK

LEMMA MaterializeDueType ==
    ASSUME StoreTypeOK, NEW o \in Owners, MaterializeDue(o)
    PROVE  StoreTypeOK'
<1>1. ASSUME NEW j \in Touched
      PROVE  /\ jobs[j] \in Job
             /\ WindowLast(jobs[j].sched, jobs[j].due, now) \in Nat
             /\ WindowFollowing(jobs[j].sched, jobs[j].due, now) \in Nat \cup {NoDue}
  <2>1. j \in JobIds /\ jobs[j] \in Job /\ jobs[j].due # NoDue /\ jobs[j].due <= now
    BY LiveJob DEF Touched, IsDue
  <2>2. jobs[j].sched \in Schedules /\ jobs[j].due \in Nat /\ now \in Nat
    BY <2>1, BoundsAssumption DEF StoreTypeOK, Job
  <2> QED
    BY <2>1, <2>2, WindowLastType, NextDueType DEF WindowFollowing
<1>2. jobs' \in [JobIds -> Job \cup {NoJob}]
  <2> SUFFICES ASSUME NEW j \in JobIds
               PROVE  jobs'[j] \in Job \cup {NoJob}
    BY DEF MaterializeDue
  <2>1. CASE j \in Touched
    BY <1>1, <2>1 DEF MaterializeDue, Job
  <2>2. CASE j \notin Touched
    BY <2>2 DEF MaterializeDue, StoreTypeOK
  <2> QED
    BY <2>1, <2>2
<1>3. events' \in [EventIds -> Event]
  <2> SUFFICES ASSUME NEW e \in EventIds
               PROVE  events'[e] \in Event
    BY DEF MaterializeDue
  <2>1. events[e] \in Event
    BY DEF StoreTypeOK
  <2>2. CASE JobOf(e) \in Touched /\ e = TargetEvent(JobOf(e))
    <3> DEFINE j == JobOf(e)
               last == WindowLast(jobs[j].sched, jobs[j].due, now)
    <3>1. last \in Nat /\ jobs[j].def \in Nat
      BY <1>1, <2>2 DEF Job
    <3>2. events'[e] = IF Merges(j) THEN [events[e] EXCEPT !.through = last]
                       ELSE [status |-> "pending", owner |-> None, through |-> last,
                             def |-> jobs[j].def]
      BY <2>2 DEF MaterializeDue
    <3> QED
      BY <2>1, <3>1, <3>2 DEF Event, Statuses, Unsent
  <2>3. CASE ~(JobOf(e) \in Touched /\ e = TargetEvent(JobOf(e)))
    BY <2>1, <2>3 DEF MaterializeDue
  <2> QED
    BY <2>2, <2>3
<1> QED
  BY <1>2, <1>3 DEF MaterializeDue, StoreTypeOK

LEMMA SetEventType ==
    ASSUME StoreTypeOK, NEW e \in EventIds, NEW status \in Statuses,
           NEW o \in Owners \cup {None}, SetEvent(e, status, o)
    PROVE  events' \in [EventIds -> Event]
BY DEF SetEvent, Row, StoreTypeOK, Event

\* The transactions that move one occurrence.
LEMMA OccurrenceType ==
    ASSUME StoreTypeOK, NEW e \in EventIds, NEW o \in Owners
    PROVE  /\ ClaimEvent(e, o) => StoreTypeOK'
           /\ ReleaseClaim(e, o) => StoreTypeOK'
           /\ MarkSending(e, o) => StoreTypeOK'
           /\ DeferEvent(e, o) => StoreTypeOK'
           /\ \A status \in Statuses : RecordReceipt(e, status) => StoreTypeOK'
<1>1. {"claimed", "pending", "sending", "cancelled"} \subseteq Statuses
  BY DEF Statuses, Unsent, Terminal
<1>2. ClaimEvent(e, o) => StoreTypeOK'
  BY <1>1, SetEventType DEF ClaimEvent, StoreTypeOK
<1>3. ReleaseClaim(e, o) => StoreTypeOK'
  BY <1>1, SetEventType DEF ReleaseClaim, StoreTypeOK
<1>4. MarkSending(e, o) => StoreTypeOK'
  BY <1>1, SetEventType DEF MarkSending, StoreTypeOK
<1>5. DeferEvent(e, o) => StoreTypeOK'
  BY <1>1, SetEventType DEF DeferEvent, StoreTypeOK
<1>6. ASSUME NEW status \in Statuses, RecordReceipt(e, status)
      PROVE  StoreTypeOK'
  BY <1>6, SetEventType DEF RecordReceipt, StoreTypeOK
<1> QED
  BY <1>2, <1>3, <1>4, <1>5, <1>6

LEMMA ClockType ==
    ASSUME StoreTypeOK, Tick \/ ClockBack
    PROVE  StoreTypeOK'
BY BoundsAssumption DEF StoreTypeOK, Tick, ClockBack

-----------------------------------------------------------------------------
(* Type correctness. *)

LEMMA GotoType ==
    ASSUME TypeOK, NEW o \in Owners, NEW point \in Points, Goto(o, point),
           point \in Holding => cur[o] \in EventIds
    PROVE  /\ pc' \in [Owners -> Points]
           /\ cur' \in [Owners -> EventIds \cup {NoEvent}]
           /\ \A p \in Owners : pc'[p] \in Holding => cur'[p] \in EventIds
BY DEF TypeOK, PollTypeOK, Goto

LEMMA HoldingPoints == {"deliver", "sent", "claim", "probe"} = Holding
BY DEF Holding, Dispatching

LEMMA HeldEvent ==
    ASSUME TypeOK, NEW o \in Owners, pc[o] \in Holding
    PROVE  cur[o] \in EventIds
BY DEF TypeOK, PollTypeOK

\* A step that goes somewhere and leaves the rest of the poll's state alone.
LEMMA StepType ==
    ASSUME TypeOK, StoreTypeOK', NEW o \in Owners, NEW point \in Points, Goto(o, point),
           point \in Holding => cur[o] \in EventIds, UNCHANGED <<batch, published, backs>>
    PROVE  TypeOK'
BY GotoType DEF TypeOK, PollTypeOK

LEMMA StoreStutter == TypeOK /\ UNCHANGED storeVars => StoreTypeOK'
BY DEF TypeOK, StoreTypeOK, storeVars

LEMMA PollStutter ==
    TypeOK /\ StoreTypeOK' /\ UNCHANGED <<pollVars, published, backs>> => TypeOK'
BY DEF TypeOK, PollTypeOK, pollVars

LEMMA ProgressType ==
    ASSUME TypeOK, NEW o \in Owners, Progress(o)
    PROVE  TypeOK'
<1> USE DEF At
<1>p. {"idle", "materialize", "list", "next", "claim", "probe", "deliver", "sent", "release"}
        \subseteq Points
  BY DEF Points
<1>h. StoreTypeOK /\ (pc[o] \in Holding => cur[o] \in EventIds)
  BY HeldEvent DEF TypeOK
<1>n. \A point \in {"idle", "materialize", "list", "next", "release"} : point \notin Holding
  BY DEF Holding, Dispatching
<1>s. {"failed", "completed", "accepted", "unknown"} \subseteq Statuses
  BY DEF Statuses, Terminal
<1>1. CASE PollAcquire(o)
  <2>1. StoreTypeOK'
    BY <1>1, <1>h, LeaseType DEF PollAcquire
  <2> QED
    BY <1>1, <1>p, <1>n, <2>1, StepType DEF PollAcquire
<1>2. CASE PollMaterialize(o)
  <2>1. StoreTypeOK'
    BY <1>2, <1>h, MaterializeDueType, StoreStutter DEF PollMaterialize
  <2> QED
    BY <1>2, <1>p, <1>n, <2>1, StepType DEF PollMaterialize
<1>3. CASE PollList(o)
  <2>1. StoreTypeOK'
    BY <1>3, StoreStutter DEF PollList
  <2>2. Goto(o, "next") /\ batch' \in [Owners -> SUBSET EventIds]
    BY <1>3 DEF PollList, TypeOK, PollTypeOK
  <2> QED
    BY <1>3, <1>p, <1>n, <2>1, <2>2, GotoType DEF PollList, TypeOK, PollTypeOK
<1>4. CASE PollNext(o)
  <2>1. StoreTypeOK'
    BY <1>4, <1>h, LeaseType DEF PollNext
  <2>2. PICK e \in batch[o] : /\ cur' = [cur EXCEPT ![o] = e]
                              /\ batch' = [batch EXCEPT ![o] = @ \ {e}]
    BY <1>4 DEF PollNext
  <2>3. e \in EventIds /\ batch' \in [Owners -> SUBSET EventIds]
    BY <2>2 DEF TypeOK, PollTypeOK
  <2>4. pc' = [pc EXCEPT ![o] = "claim"] /\ UNCHANGED <<published, backs>>
    BY <1>4 DEF PollNext
  <2> QED
    BY <1>p, <2>1, <2>2, <2>3, <2>4 DEF TypeOK, PollTypeOK
<1>5. CASE PollDone(o)
  <2>1. StoreTypeOK'
    BY <1>5, StoreStutter DEF PollDone
  <2> QED
    BY <1>5, <1>p, <1>n, <2>1, StepType DEF PollDone
<1>6. CASE PollClaim(o)
  <2>1. cur[o] \in EventIds
    BY <1>6, <1>h, HoldingPoints DEF PollClaim
  <2>2. StoreTypeOK'
    BY <1>6, <1>h, <2>1, OccurrenceType, StoreStutter DEF PollClaim, ClaimRefused
  <2> QED
    BY <1>6, <1>p, <1>n, <2>1, <2>2, StepType DEF PollClaim
<1>7. CASE ProbeRefused(o)
  <2>1. cur[o] \in EventIds
    BY <1>7, <1>h, HoldingPoints DEF ProbeRefused
  <2>2. StoreTypeOK'
    BY <1>7, <1>h, <2>1, OccurrenceType DEF ProbeRefused
  <2> QED
    BY <1>7, <1>p, <1>n, <2>1, <2>2, StepType DEF ProbeRefused
<1>8. CASE PollMark(o)
  <2>1. cur[o] \in EventIds
    BY <1>8, <1>h, HoldingPoints DEF PollMark
  <2>2. StoreTypeOK'
    BY <1>8, <1>h, <2>1, OccurrenceType, StoreStutter DEF PollMark, MarkRefused
  <2> QED
    BY <1>8, <1>p, <1>n, <2>1, <2>2, StepType DEF PollMark
<1>9. CASE Publish(o)
  <2>1. StoreTypeOK'
    BY <1>9, StoreStutter DEF Publish
  <2>2. cur[o] \in EventIds
    BY <1>9, <1>h, HoldingPoints DEF Publish
  <2>3. Goto(o, "sent") /\ published' \in [EventIds -> Nat] /\ UNCHANGED <<batch, backs>>
    BY <1>9, <2>2 DEF Publish, TypeOK, PollTypeOK
  <2> QED
    BY <1>p, <2>1, <2>2, <2>3, GotoType DEF TypeOK, PollTypeOK
<1>10. CASE DispatchSettled(o)
  <2>1. cur[o] \in EventIds
    BY <1>10, <1>h, HoldingPoints DEF DispatchSettled
  <2>2. StoreTypeOK'
    BY <1>10, <1>h, <1>s, <2>1, OccurrenceType, StoreStutter DEF DispatchSettled
  <2> QED
    BY <1>10, <1>p, <1>n, <2>1, <2>2, StepType DEF DispatchSettled
<1>11. CASE DispatchDeferred(o)
  <2>1. cur[o] \in EventIds
    BY <1>11, <1>h, HoldingPoints DEF DispatchDeferred
  <2>2. StoreTypeOK'
    BY <1>11, <1>h, <2>1, OccurrenceType, StoreStutter DEF DispatchDeferred
  <2> QED
    BY <1>11, <1>p, <1>n, <2>1, <2>2, StepType DEF DispatchDeferred
<1>12. CASE DispatchAccepted(o)
  <2>1. cur[o] \in EventIds
    BY <1>12, <1>h, HoldingPoints DEF DispatchAccepted
  <2>2. StoreTypeOK'
    BY <1>12, <1>h, <1>s, <2>1, OccurrenceType, StoreStutter DEF DispatchAccepted
  <2> QED
    BY <1>12, <1>p, <1>n, <2>1, <2>2, StepType DEF DispatchAccepted
<1>13. CASE DispatchUnknown(o)
  <2>1. cur[o] \in EventIds
    BY <1>13, <1>h, HoldingPoints DEF DispatchUnknown, Dispatching
  <2>2. StoreTypeOK'
    BY <1>13, <1>h, <1>s, <2>1, OccurrenceType, StoreStutter DEF DispatchUnknown
  <2> QED
    BY <1>13, <1>p, <1>n, <2>1, <2>2, StepType DEF DispatchUnknown
<1>14. CASE PollRaises(o)
  <2>1. StoreTypeOK'
    BY <1>14, StoreStutter DEF PollRaises
  <2> QED
    BY <1>14, <1>p, <1>n, <2>1, StepType DEF PollRaises
<1>15. CASE PollRelease(o)
  <2>1. StoreTypeOK'
    BY <1>15, <1>h, LeaseType DEF PollRelease, StoreTypeOK
  <2>2. Goto(o, "idle") /\ batch' \in [Owners -> SUBSET EventIds] /\ UNCHANGED <<published, backs>>
    BY <1>15 DEF PollRelease, TypeOK, PollTypeOK
  <2> QED
    BY <1>p, <1>n, <2>1, <2>2, GotoType DEF TypeOK, PollTypeOK
<1> QED
  BY <1>1, <1>2, <1>3, <1>4, <1>5, <1>6, <1>7, <1>8, <1>9, <1>10, <1>11, <1>12, <1>13,
     <1>14, <1>15 DEF Progress

LEMMA NextType ==
    ASSUME TypeOK, [Next]_vars
    PROVE  TypeOK'
<1>h. StoreTypeOK
  BY DEF TypeOK
<1>1. ASSUME NEW o \in Owners, Renew(o)
      PROVE  TypeOK'
  BY <1>1, <1>h, LeaseType, PollStutter DEF Renew
<1>2. ASSUME NEW o \in Owners, Crash(o)
      PROVE  TypeOK'
  <2>1. StoreTypeOK'
    BY <1>2, StoreStutter DEF Crash
  <2>2. Goto(o, "dead") /\ batch' \in [Owners -> SUBSET EventIds] /\ UNCHANGED <<published, backs>>
    BY <1>2 DEF Crash, TypeOK, PollTypeOK
  <2>3. "dead" \in Points /\ "dead" \notin Holding
    BY DEF Points, Holding, Dispatching
  <2> QED
    BY <2>1, <2>2, <2>3, GotoType DEF TypeOK, PollTypeOK
<1>3. ASSUME NEW e \in EventIds, Notice(e)
      PROVE  TypeOK'
  <2>1. PICK status \in {"completed", "failed", "unknown"} : RecordReceipt(e, status)
    BY <1>3 DEF Notice
  <2>2. status \in Statuses
    BY DEF Statuses, Terminal
  <2>3. CASE Owners = {}
    <3>1. events' \in [EventIds -> Event]
      BY <1>h, <2>1, <2>2, SetEventType DEF RecordReceipt
    <3> QED
      BY <1>3, <2>1, <3>1, <1>h, PollStutter DEF Notice, RecordReceipt, StoreTypeOK
  <2>4. CASE Owners # {}
    BY <1>3, <1>h, <2>1, <2>2, <2>4, OccurrenceType, PollStutter DEF Notice
  <2> QED
    BY <2>3, <2>4
<1>4. CASE Control
  <2>1. ASSUME NEW value \in BOOLEAN, SetAutonomyPaused(value)
        PROVE  StoreTypeOK'
    BY <2>1, <1>h DEF SetAutonomyPaused, StoreTypeOK
  <2>2. StoreTypeOK'
    BY <1>4, <1>h, <2>1, CreateJobType, UpdateJobType, DeleteJobType DEF Control
  <2> QED
    BY <1>4, <2>2, PollStutter DEF Control
<1>5. CASE Time
  <2>1. StoreTypeOK'
    BY <1>5, <1>h, ClockType DEF Time
  <2> QED
    BY <1>5, <2>1, BackAssumption DEF Time, TypeOK, PollTypeOK, pollVars
<1>6. CASE UNCHANGED vars
  BY <1>6, StoreStutter, PollStutter DEF vars
<1> QED
  BY <1>1, <1>2, <1>3, <1>4, <1>5, <1>6, ProgressType DEF Next

(***************************************************************************)
(* TypeCorrect: every table row and every position of a poll stays well    *)
(* formed; a poll past its claim always has an event in hand.              *)
(***************************************************************************)
THEOREM TypeCorrect == Spec => []TypeOK
<1>1. Init => StoreTypeOK
  <2>1. Absent \in Event
    BY DEF Absent, Event, Statuses
  <2>2. ASSUME Init
        PROVE  /\ now \in 0..MaxTime
               /\ made \in [JobIds -> 0..MaxMade]
    BY <2>2, BoundsAssumption DEF Init, StoreInit
  <2>3. ASSUME Init
        PROVE  jobs \in [JobIds -> Job \cup {NoJob}] /\ events \in [EventIds -> Event]
    BY <2>1, <2>3 DEF Init, StoreInit
  <2>4. ASSUME Init
        PROVE  lease \in [owner : Owners \cup {None}, expires : Nat] /\ paused \in BOOLEAN
    BY <2>4 DEF Init, StoreInit
  <2> QED
    BY <2>2, <2>3, <2>4 DEF StoreTypeOK
<1>2. Init => PollTypeOK
  BY BackAssumption DEF Init, PollTypeOK, Points, Holding, Dispatching
<1>3. Init => TypeOK
  BY <1>1, <1>2 DEF TypeOK
<1> QED
  BY <1>3, NextType, PTL DEF Spec
=============================================================================
