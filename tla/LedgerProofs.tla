---------------------------- MODULE LedgerProofs ----------------------------
(***************************************************************************)
(* The dispatcher starts the effect of an occurrence at most once and      *)
(* implements the abstract ledger, for any number of processes and jobs.   *)
(*                                                                         *)
(* AtMostOnce is not inductive: that a second hand-over cannot happen      *)
(* rests on where every poll stands.  EffectInv adds that what is unsent   *)
(* was never started, that a poll about to hand an event over is the only  *)
(* one to be so, and that the event is still marked as an attempt.         *)
(***************************************************************************)
EXTENDS SchedulerProofs, FiniteSetTheorems

Unstarted == Unsent \cup {"absent", "cancelled"}

UnsentNotStarted ==
    \A e \in EventIds : events[e].status \in Unstarted => published[e] = 0

DeliverNotStarted ==
    \A o \in Owners : pc[o] = "deliver" =>
        /\ published[cur[o]] = 0
        /\ events[cur[o]].status \in {"sending", "unknown"}
        /\ events[cur[o]].status = "sending" => events[cur[o]].owner = o

SentStarted == \A o \in Owners : pc[o] = "sent" => published[cur[o]] = 1

DeliverAlone ==
    \A o, p \in Owners : pc[o] = "deliver" /\ pc[p] = "deliver" /\ cur[o] = cur[p] => o = p

EffectInv ==
    /\ AtMostOnce
    /\ UnsentNotStarted
    /\ DeliverNotStarted
    /\ SentStarted
    /\ DeliverAlone

-----------------------------------------------------------------------------
(* How a step can move occurrences and polls. *)

\* What the ledger does to an occurrence other than sending or answering it.
Mild(old, new) ==
    \/ new.status = old.status /\ new.owner = old.owner
    \/ old.status = "absent" /\ new.status = "pending"
    \/ old.status \in Unsent /\ new.status \in Unsent \cup {"cancelled"}
    \/ old.status = "sending" /\ new.status = "unknown"

\* No poll comes to dispatch an event it was not dispatching before.
NoNewDispatch ==
    \A o \in Owners : pc'[o] \in Dispatching => pc'[o] = pc[o] /\ cur'[o] = cur[o]

Quiet ==
    /\ \A e \in EventIds : Mild(events[e], events'[e])
    /\ NoNewDispatch
    /\ UNCHANGED published

Leaves(o) ==
    /\ \E point \in {"next", "release"} : Goto(o, point)
    /\ UNCHANGED published

Marks(o) ==
    /\ pc[o] = "probe" /\ MarkSending(cur[o], o) /\ Goto(o, "deliver")
    /\ UNCHANGED published

Defers(o) == pc[o] = "deliver" /\ DeferEvent(cur[o], o) /\ Leaves(o)

Settles(o) ==
    /\ pc[o] \in Dispatching /\ Leaves(o)
    /\ \E status \in {"failed", "completed", "unknown"} : RecordReceipt(cur[o], status)

Acknowledges(o) == pc[o] = "sent" /\ RecordReceipt(cur[o], "accepted") /\ Leaves(o)

LEMMA GotoQuiet ==
    ASSUME TypeOK, NEW o \in Owners, NEW point \in Points \ Dispatching, Goto(o, point)
    PROVE  NoNewDispatch
BY DEF TypeOK, PollTypeOK, Goto, NoNewDispatch, Holding

LEMMA StayQuiet == TypeOK /\ UNCHANGED pollVars => NoNewDispatch
BY DEF NoNewDispatch, pollVars

LEMMA MildStutter ==
    ASSUME UNCHANGED events, NEW e \in EventIds
    PROVE  Mild(events[e], events'[e])
BY DEF Mild

LEMMA CancelMild ==
    ASSUME TypeOK, NEW j, CancelUnsent(j), NEW e \in EventIds
    PROVE  Mild(events[e], events'[e])
BY DEF CancelUnsent, Row, Mild

LEMMA RecoverMild ==
    ASSUME TypeOK, RecoverEvents, NEW e \in EventIds
    PROVE  Mild(events[e], events'[e])
BY DEF RecoverEvents, Row, Mild, Unsent

LEMMA AcquireMild ==
    ASSUME TypeOK, NEW o, AcquireLease(o), NEW e \in EventIds
    PROVE  Mild(events[e], events'[e])
BY RecoverMild, MildStutter DEF AcquireLease

\* A due job's window goes to a pending event of its own, or to an identity never used.
LEMMA MaterializeMild ==
    ASSUME TypeOK, NEW o \in Owners, MaterializeDue(o), NEW e \in EventIds
    PROVE  Mild(events[e], events'[e])
<1> DEFINE j == JobOf(e)
<1>1. CASE ~(j \in Touched /\ e = TargetEvent(j))
  BY <1>1 DEF MaterializeDue, Mild
<1>2. CASE j \in Touched /\ e = TargetEvent(j) /\ Merges(j)
  <2>1. events'[e] = [events[e] EXCEPT !.through = WindowLast(jobs[j].sched, jobs[j].due, now)]
    BY <1>2 DEF MaterializeDue
  <2>2. events[e] \in Event
    BY DEF TypeOK, StoreTypeOK
  <2> QED
    BY <2>1, <2>2 DEF Mild, Event
<1>3. CASE j \in Touched /\ e = TargetEvent(j) /\ ~Merges(j)
  <2>1. e = OccurrenceId(j) /\ ~Collides(j)
    BY <1>3 DEF TargetEvent, MaterializeDue
  <2>2. events[e].status = "absent"
    BY <1>3, <2>1 DEF Collides
  <2> QED
    BY <1>3, <2>2 DEF MaterializeDue, Mild
<1> QED
  BY <1>1, <1>2, <1>3

LEMMA HeldMild ==
    ASSUME TypeOK, NEW o \in Owners, NEW held \in EventIds, NEW e \in EventIds,
           ClaimEvent(held, o) \/ ReleaseClaim(held, o)
    PROVE  Mild(events[e], events'[e])
BY DEF ClaimEvent, ReleaseClaim, Owned, SetEvent, Row, Mild, Unsent, TypeOK, StoreTypeOK

(***************************************************************************)
(* Every step is quiet, or it starts an attempt, hands it over, takes it   *)
(* back as unsent, or answers it.                                          *)
(***************************************************************************)
LEMMA StepKinds ==
    ASSUME TypeOK, [Next]_vars
    PROVE  \/ Quiet
           \/ \E o \in Owners : Publish(o) \/ Marks(o) \/ Defers(o) \/ Settles(o) \/ Acknowledges(o)
           \/ \E e \in EventIds : Notice(e)
<1> USE DEF At
<1>p. {"idle", "materialize", "list", "next", "claim", "probe", "release", "dead"}
        \subseteq Points \ Dispatching
  BY DEF Points, Dispatching
<1>s. UNCHANGED storeVars => \A e \in EventIds : Mild(events[e], events'[e])
  BY MildStutter DEF storeVars
<1>c. \A o \in Owners : pc[o] \in Holding => cur[o] \in EventIds
  BY HeldEvent
<1>1. ASSUME NEW o \in Owners, Progress(o)
      PROVE  Quiet \/ Publish(o) \/ Marks(o) \/ Defers(o) \/ Settles(o) \/ Acknowledges(o)
  <2>1. CASE PollAcquire(o)
    BY <2>1, <1>p, AcquireMild, GotoQuiet DEF PollAcquire, Quiet
  <2>2. CASE PollMaterialize(o)
    BY <2>2, <1>p, <1>s, MaterializeMild, GotoQuiet DEF PollMaterialize, Quiet
  <2>3. CASE PollList(o)
    BY <2>3, <1>p, <1>s, GotoQuiet DEF PollList, Quiet
  <2>4. CASE PollNext(o)
    <3>1. NoNewDispatch
      BY <2>4 DEF PollNext, NoNewDispatch, Dispatching, TypeOK, PollTypeOK
    <3> QED
      BY <2>4, <3>1, MildStutter DEF PollNext, RenewLease, Quiet
  <2>5. CASE PollDone(o)
    BY <2>5, <1>p, <1>s, GotoQuiet DEF PollDone, Quiet
  <2>6. CASE PollClaim(o)
    <3>1. cur[o] \in EventIds
      BY <2>6, <1>c, HoldingPoints DEF PollClaim
    <3> QED
      BY <2>6, <3>1, <1>p, <1>s, HeldMild, GotoQuiet DEF PollClaim, ClaimRefused, Quiet
  <2>7. CASE ProbeRefused(o)
    <3>1. cur[o] \in EventIds
      BY <2>7, <1>c, HoldingPoints DEF ProbeRefused
    <3> QED
      BY <2>7, <3>1, <1>p, HeldMild, GotoQuiet DEF ProbeRefused, Quiet
  <2>8. CASE PollMark(o)
    <3>1. cur[o] \in EventIds
      BY <2>8, <1>c, HoldingPoints DEF PollMark
    <3>2. CASE MarkSending(cur[o], o) /\ Goto(o, "deliver")
      BY <2>8, <3>2 DEF PollMark, Marks
    <3>3. CASE MarkRefused(cur[o], o) /\ Goto(o, "next")
      BY <2>8, <3>1, <3>3, <1>p, <1>s, HeldMild, GotoQuiet DEF PollMark, MarkRefused, Quiet
    <3> QED
      BY <2>8, <3>2, <3>3 DEF PollMark
  <2>9. CASE Publish(o)
    BY <2>9
  <2>10. CASE DispatchSettled(o)
    BY <2>10, <1>p, <1>s, GotoQuiet DEF DispatchSettled, Settles, Leaves, Dispatching, Quiet
  <2>11. CASE DispatchDeferred(o)
    BY <2>11, <1>p, <1>s, GotoQuiet DEF DispatchDeferred, Defers, Leaves, Quiet
  <2>12. CASE DispatchAccepted(o)
    BY <2>12, <1>p, <1>s, GotoQuiet DEF DispatchAccepted, Acknowledges, Leaves, Quiet
  <2>13. CASE DispatchUnknown(o)
    BY <2>13, <1>p, <1>s, GotoQuiet DEF DispatchUnknown, Settles, Leaves, Quiet
  <2>14. CASE PollRaises(o)
    BY <2>14, <1>p, <1>s, GotoQuiet DEF PollRaises, Quiet
  <2>15. CASE PollRelease(o)
    BY <2>15, <1>p, MildStutter, GotoQuiet DEF PollRelease, Quiet
  <2> QED
    BY <1>1, <2>1, <2>2, <2>3, <2>4, <2>5, <2>6, <2>7, <2>8, <2>9, <2>10, <2>11, <2>12,
       <2>13, <2>14, <2>15 DEF Progress
<1>2. ASSUME NEW o \in Owners, Renew(o)
      PROVE  Quiet
  BY <1>2, StayQuiet, MildStutter DEF Renew, RenewLease, Quiet
<1>3. ASSUME NEW o \in Owners, Crash(o)
      PROVE  Quiet
  BY <1>3, <1>p, <1>s, GotoQuiet DEF Crash, Quiet
<1>4. CASE Control
  <2>1. NoNewDispatch /\ UNCHANGED published
    BY <1>4, StayQuiet DEF Control
  <2>2. \A e \in EventIds : Mild(events[e], events'[e])
    BY <1>4, CancelMild, MildStutter DEF Control, CreateJob, UpdateJob, DeleteJob, SetAutonomyPaused
  <2> QED
    BY <2>1, <2>2 DEF Quiet
<1>5. CASE Time
  BY <1>5, StayQuiet, MildStutter DEF Time, Tick, ClockBack, Quiet
<1>6. CASE UNCHANGED vars
  BY <1>6, <1>s, StayQuiet DEF vars, Quiet
<1> QED
  BY <1>1, <1>2, <1>3, <1>4, <1>5, <1>6 DEF Next

-----------------------------------------------------------------------------
(* At most one effect. *)

LEMMA Delivering ==
    ASSUME TypeOK, NEW o \in Owners, pc[o] \in Dispatching
    PROVE  cur[o] \in EventIds
BY HeldEvent DEF Holding

LEMMA QuietKeeps ==
    ASSUME TypeOK, EffectInv, Quiet
    PROVE  EffectInv'
<1>d. /\ \A o \in Owners : pc'[o] = "deliver" => pc[o] = "deliver" /\ cur'[o] = cur[o]
      /\ \A o \in Owners : pc'[o] = "sent" => pc[o] = "sent" /\ cur'[o] = cur[o]
  BY DEF Quiet, NoNewDispatch, Dispatching
<1>e. \A o \in Owners : pc[o] = "deliver" => cur[o] \in EventIds
  BY Delivering DEF Dispatching
<1>1. UnsentNotStarted'
  BY DEF EffectInv, Quiet, Mild, UnsentNotStarted, Unstarted, Unsent
<1>2. DeliverNotStarted'
  BY <1>d, <1>e DEF EffectInv, Quiet, Mild, DeliverNotStarted, Unsent
<1>3. SentStarted'
  BY <1>d DEF EffectInv, Quiet, SentStarted
<1>4. DeliverAlone'
  BY <1>d DEF EffectInv, DeliverAlone
<1> QED
  BY <1>1, <1>2, <1>3, <1>4 DEF EffectInv, Quiet, AtMostOnce

LEMMA PublishKeeps ==
    ASSUME TypeOK, EffectInv, NEW o \in Owners, Publish(o)
    PROVE  EffectInv'
<1> DEFINE e == cur[o]
<1>1. /\ pc[o] = "deliver" /\ e \in EventIds /\ published[e] = 0
      /\ events[e].status \in {"sending", "unknown"}
  BY Delivering DEF Publish, At, Dispatching, EffectInv, DeliverNotStarted
<1>2. /\ published' = [published EXCEPT ![e] = 1] /\ events' = events /\ cur' = cur
      /\ pc' = [pc EXCEPT ![o] = "sent"]
  BY <1>1 DEF Publish, Goto, Holding, Dispatching, storeVars
<1>3. AtMostOnce'
  BY <1>1, <1>2 DEF EffectInv, AtMostOnce, TypeOK, PollTypeOK
<1>4. UnsentNotStarted'
  BY <1>1, <1>2 DEF EffectInv, UnsentNotStarted, Unstarted, Unsent, TypeOK, PollTypeOK
<1>5. \A p \in Owners : pc'[p] = "deliver" => p # o /\ pc[p] = "deliver" /\ cur[p] # e
  BY <1>1, <1>2 DEF EffectInv, DeliverAlone, TypeOK, PollTypeOK
<1>6. DeliverNotStarted'
  BY <1>2, <1>5 DEF EffectInv, DeliverNotStarted, TypeOK, PollTypeOK
<1>7. SentStarted'
  <2> SUFFICES ASSUME NEW p \in Owners, pc'[p] = "sent"
               PROVE  published'[cur'[p]] = 1
    BY DEF SentStarted
  <2>1. CASE p = o
    BY <1>1, <1>2, <2>1 DEF TypeOK, PollTypeOK
  <2>2. CASE p # o
    <3>1. pc[p] = "sent" /\ cur[p] \in EventIds /\ published[cur[p]] = 1
      BY <1>2, <2>2, Delivering DEF Dispatching, EffectInv, SentStarted, TypeOK, PollTypeOK
    <3> QED
      BY <1>1, <1>2, <3>1 DEF TypeOK, PollTypeOK
  <2> QED
    BY <2>1, <2>2
<1>8. DeliverAlone'
  BY <1>2, <1>5 DEF EffectInv, DeliverAlone
<1> QED
  BY <1>3, <1>4, <1>6, <1>7, <1>8 DEF EffectInv

LEMMA MarksKeeps ==
    ASSUME TypeOK, EffectInv, NEW o \in Owners, Marks(o)
    PROVE  EffectInv'
<1> DEFINE e == cur[o]
<1>1. /\ pc[o] = "probe" /\ e \in EventIds
      /\ events[e].status = "claimed" /\ events[e].owner = o
  BY HeldEvent, HoldingPoints DEF Marks, MarkSending, Owned
<1>2. /\ published' = published /\ cur' = cur /\ pc' = [pc EXCEPT ![o] = "deliver"]
      /\ events' = [events EXCEPT ![e] = Row(e, "sending", o)]
  BY DEF Marks, MarkSending, SetEvent, Goto, Holding, Dispatching
<1>3. published[e] = 0
  BY <1>1 DEF EffectInv, UnsentNotStarted, Unstarted, Unsent
<1>4. /\ events'[e].status = "sending" /\ events'[e].owner = o
      /\ \A d \in EventIds \ {e} : events'[d] = events[d]
  BY <1>1, <1>2 DEF Row, TypeOK, StoreTypeOK
<1>5. \A p \in Owners \ {o} : pc'[p] = pc[p] /\ (pc[p] = "deliver" => cur[p] \in EventIds \ {e})
  BY <1>1, <1>2, Delivering DEF EffectInv, DeliverNotStarted, Dispatching, TypeOK, PollTypeOK
<1>6. pc'[o] = "deliver"
  BY <1>2 DEF TypeOK, PollTypeOK
<1>7. UnsentNotStarted'
  BY <1>2, <1>3, <1>4 DEF EffectInv, UnsentNotStarted, Unstarted, Unsent
<1>8. DeliverNotStarted'
  BY <1>1, <1>2, <1>3, <1>4, <1>5 DEF EffectInv, DeliverNotStarted
<1>9. SentStarted'
  BY <1>2, <1>5, <1>6 DEF EffectInv, SentStarted
<1>10. DeliverAlone'
  BY <1>2, <1>5, <1>6 DEF EffectInv, DeliverAlone
<1> QED
  BY <1>2, <1>7, <1>8, <1>9, <1>10 DEF EffectInv, AtMostOnce

LEMMA LeavesPolls ==
    ASSUME TypeOK, NEW o \in Owners, Leaves(o)
    PROVE  /\ \A p \in Owners \ {o} : pc'[p] = pc[p] /\ cur'[p] = cur[p]
           /\ pc'[o] \notin Dispatching
BY DEF Leaves, Goto, Holding, Dispatching, TypeOK, PollTypeOK

LEMMA DefersKeeps ==
    ASSUME TypeOK, EffectInv, NEW o \in Owners, Defers(o)
    PROVE  EffectInv'
<1> DEFINE e == cur[o]
<1>1. /\ pc[o] = "deliver" /\ e \in EventIds /\ published[e] = 0
      /\ published' = published
  BY Delivering DEF Defers, Leaves, Dispatching, EffectInv, DeliverNotStarted
<1>2. \A d \in EventIds \ {e} : events'[d] = events[d]
  BY DEF Defers, DeferEvent, SetEvent, TypeOK, StoreTypeOK
<1>3. \A p \in Owners : pc'[p] \in Dispatching => p # o /\ pc[p] = pc'[p] /\ cur'[p] = cur[p]
  BY LeavesPolls DEF Defers
<1>4. \A p \in Owners : pc'[p] = "deliver" => cur[p] \in EventIds \ {e}
  BY <1>1, <1>3, Delivering DEF EffectInv, DeliverAlone, Dispatching
<1>5. UnsentNotStarted'
  BY <1>1, <1>2 DEF EffectInv, UnsentNotStarted
<1>6. DeliverNotStarted'
  BY <1>1, <1>2, <1>3, <1>4 DEF EffectInv, DeliverNotStarted, Dispatching
<1>7. SentStarted'
  BY <1>1, <1>3 DEF EffectInv, SentStarted, Dispatching
<1>8. DeliverAlone'
  BY <1>3 DEF EffectInv, DeliverAlone, Dispatching
<1> QED
  BY <1>1, <1>5, <1>6, <1>7, <1>8 DEF EffectInv, AtMostOnce

\* An answer leaves alone every poll that is still to hand its event over.
LEMMA AnswerKeeps ==
    ASSUME TypeOK, EffectInv, NEW e \in EventIds,
           NEW status \in {"failed", "completed", "unknown", "accepted"},
           RecordReceipt(e, status), UNCHANGED published,
           \A p \in Owners : pc'[p] \in Dispatching => pc[p] = pc'[p] /\ cur'[p] = cur[p],
           \A p \in Owners : pc'[p] = "deliver" => cur[p] # e
    PROVE  EffectInv'
<1>1. /\ events'[e].status = status
      /\ \A d \in EventIds \ {e} : events'[d] = events[d]
  BY DEF RecordReceipt, SetEvent, Row, TypeOK, StoreTypeOK
<1>2. \A p \in Owners : pc'[p] = "deliver" => cur[p] \in EventIds \ {e}
  BY Delivering DEF Dispatching
<1>3. UnsentNotStarted'
  BY <1>1 DEF EffectInv, UnsentNotStarted, Unstarted, Unsent
<1>4. DeliverNotStarted'
  BY <1>1, <1>2 DEF EffectInv, DeliverNotStarted, Dispatching
<1>5. SentStarted'
  BY DEF EffectInv, SentStarted, Dispatching
<1>6. DeliverAlone'
  BY DEF EffectInv, DeliverAlone, Dispatching
<1> QED
  BY <1>3, <1>4, <1>5, <1>6 DEF EffectInv, AtMostOnce

LEMMA OwnAnswerKeeps ==
    ASSUME TypeOK, EffectInv, NEW o \in Owners, Settles(o) \/ Acknowledges(o)
    PROVE  EffectInv'
<1> DEFINE e == cur[o]
<1>1. pc[o] \in Dispatching /\ e \in EventIds /\ Leaves(o)
  BY Delivering DEF Settles, Acknowledges, Dispatching
<1>2. PICK status \in {"failed", "completed", "unknown", "accepted"} : RecordReceipt(e, status)
  BY DEF Settles, Acknowledges
<1>3. \A p \in Owners : pc'[p] \in Dispatching => p # o /\ pc[p] = pc'[p] /\ cur'[p] = cur[p]
  BY <1>1, LeavesPolls
<1>4. \A p \in Owners : pc'[p] = "deliver" => cur[p] # e
  BY <1>1, <1>3 DEF EffectInv, DeliverAlone, DeliverNotStarted, SentStarted, Dispatching
<1> QED
  BY <1>1, <1>2, <1>3, <1>4, AnswerKeeps DEF Leaves

LEMMA NoticeKeeps ==
    ASSUME TypeOK, EffectInv, NEW e \in EventIds, Notice(e)
    PROVE  EffectInv'
<1>1. PICK status \in {"failed", "completed", "unknown"} : RecordReceipt(e, status)
  BY DEF Notice
<1>2. published[e] > 0 /\ UNCHANGED <<pc, cur, published>>
  BY DEF Notice, pollVars
<1>3. \A p \in Owners : pc'[p] = "deliver" => cur[p] # e
  BY <1>2 DEF EffectInv, DeliverNotStarted
<1> QED
  BY <1>1, <1>2, <1>3, AnswerKeeps

LEMMA EffectInvHolds == Spec => []EffectInv
<1>1. Init => EffectInv
  BY DEF Init, EffectInv, AtMostOnce, UnsentNotStarted, DeliverNotStarted, SentStarted,
         DeliverAlone
<1>2. TypeOK /\ EffectInv /\ [Next]_vars => EffectInv'
  BY StepKinds, QuietKeeps, PublishKeeps, MarksKeeps, DefersKeeps, OwnAnswerKeeps, NoticeKeeps
<1> QED
  BY <1>1, <1>2, TypeCorrect, PTL DEF Spec

(***************************************************************************)
(* EffectOnce: of each occurrence at most one external effect is ever      *)
(* started, whatever processes poll, lose leases, defer, crash or are      *)
(* answered late, and however the clock moves.                             *)
(***************************************************************************)
THEOREM EffectOnce == Spec => []AtMostOnce
BY EffectInvHolds, PTL DEF EffectInv

-----------------------------------------------------------------------------
(* The abstract ledger is implemented. *)

LEMMA PhaseTyped == \A status \in Statuses :
    Phase(status) \in {"none", "planned", "attempting", "uncertain", "acknowledged",
                      "ended", "dropped"}
BY DEF Phase

\* A transaction refines a move of the ledger when each occurrence moves legally.
LEMMA MoveRefines ==
    ASSUME TypeOK', UNCHANGED published,
           \A e \in EventIds :
              LET old == Phase(events[e].status)
                  new == Phase(events'[e].status)
              IN  new # old => Ledger!MayBecome(old, new, published[e] = 1)
    PROVE  Ledger!LedgerMove
<1>1. \A e \in EventIds : events'[e].status \in Statuses
  BY DEF TypeOK, StoreTypeOK, Event
<1> QED
  BY <1>1, PhaseTyped DEF Ledger!LedgerMove

LEMMA QuietRefines ==
    ASSUME TypeOK, TypeOK', Quiet
    PROVE  Ledger!LedgerMove
<1> SUFFICES ASSUME NEW e \in EventIds
             PROVE  LET old == Phase(events[e].status)
                        new == Phase(events'[e].status)
                    IN  new # old => Ledger!MayBecome(old, new, published[e] = 1)
  BY MoveRefines DEF Quiet
<1>1. Mild(events[e], events'[e])
  BY DEF Quiet
<1> QED
  BY <1>1 DEF Mild, Phase, Unsent, Ledger!MayBecome

LEMMA AnswerRefines ==
    ASSUME TypeOK, TypeOK', NEW e \in EventIds,
           NEW status \in {"failed", "completed", "unknown", "accepted"},
           RecordReceipt(e, status), UNCHANGED published,
           status = "accepted" => published[e] = 1
    PROVE  Ledger!LedgerMove
<1>1. /\ events'[e].status = status
      /\ \A d \in EventIds \ {e} : events'[d] = events[d]
  BY DEF RecordReceipt, SetEvent, Row, TypeOK, StoreTypeOK
<1>2. /\ events[e].status \in {"sending", "accepted", "unknown", "completed", "failed"}
      /\ events[e].status \in {"completed", "failed"} => status = events[e].status
  BY DEF RecordReceipt, ReceiptAllowed, TypeOK, StoreTypeOK, Event, Statuses, Terminal, Unsent
<1>3. Phase(status) # Phase(events[e].status)
        => Ledger!MayBecome(Phase(events[e].status), Phase(status), published[e] = 1)
  BY <1>2 DEF Phase, Unsent, Ledger!MayBecome
<1> SUFFICES ASSUME NEW d \in EventIds
             PROVE  LET old == Phase(events[d].status)
                        new == Phase(events'[d].status)
                    IN  new # old => Ledger!MayBecome(old, new, published[d] = 1)
  BY MoveRefines
<1> QED
  BY <1>1, <1>3

LEMMA StepRefines ==
    ASSUME TypeOK, TypeOK', EffectInv, [Next]_vars
    PROVE  Ledger!LedgerNext
<1>1. CASE Quiet
  BY <1>1, QuietRefines DEF Ledger!LedgerNext
<1>2. ASSUME NEW o \in Owners, Publish(o)
      PROVE  Ledger!LedgerEffect
  <2>1. /\ cur[o] \in EventIds /\ published[cur[o]] = 0
        /\ events[cur[o]].status \in {"sending", "unknown"}
    BY <1>2, Delivering DEF Publish, At, Dispatching, EffectInv, DeliverNotStarted
  <2>2. published' = [published EXCEPT ![cur[o]] = 1] /\ events' = events
    BY <1>2, <2>1 DEF Publish, storeVars
  <2>3. Phase(events[cur[o]].status) \in {"attempting", "uncertain"}
    BY <2>1 DEF Phase, Unsent
  <2> QED
    BY <2>1, <2>2, <2>3 DEF Ledger!LedgerEffect
<1>3. ASSUME NEW o \in Owners, Marks(o) \/ Defers(o)
      PROVE  Ledger!LedgerMove
  <2> DEFINE e == cur[o]
  <2>1. e \in EventIds /\ UNCHANGED published
    BY <1>3, HeldEvent, HoldingPoints DEF Marks, Defers, Leaves
  <2>2. \A d \in EventIds \ {e} : events'[d] = events[d]
    BY <1>3 DEF Marks, MarkSending, Defers, DeferEvent, SetEvent, TypeOK, StoreTypeOK
  <2>3. CASE Marks(o)
    <3>1. events[e].status = "claimed" /\ events'[e].status = "sending"
      BY <2>1, <2>3 DEF Marks, MarkSending, Owned, SetEvent, Row, TypeOK, StoreTypeOK
    <3> QED
      BY <2>1, <2>2, <3>1, MoveRefines DEF Phase, Unsent, Ledger!MayBecome
  <2>4. CASE Defers(o)
    <3>1. /\ events[e].status = "sending" /\ events'[e].status \in {"pending", "cancelled"}
          /\ published[e] = 0
      BY <2>1, <2>4 DEF Defers, DeferEvent, Owned, SetEvent, Row, TypeOK, StoreTypeOK,
                        EffectInv, DeliverNotStarted
    <3> QED
      BY <2>1, <2>2, <3>1, MoveRefines DEF Phase, Unsent, Ledger!MayBecome
  <2> QED
    BY <1>3, <2>3, <2>4
<1>4. ASSUME NEW o \in Owners, Settles(o) \/ Acknowledges(o)
      PROVE  Ledger!LedgerMove
  <2>1. cur[o] \in EventIds /\ UNCHANGED published
    BY <1>4, Delivering DEF Settles, Acknowledges, Leaves, Dispatching
  <2>2. PICK status \in {"failed", "completed", "unknown", "accepted"} :
          /\ RecordReceipt(cur[o], status)
          /\ status = "accepted" => published[cur[o]] = 1
    BY <1>4 DEF Settles, Acknowledges, EffectInv, SentStarted
  <2> QED
    BY <2>1, <2>2, AnswerRefines
<1>5. ASSUME NEW e \in EventIds, Notice(e)
      PROVE  Ledger!LedgerMove
  BY <1>5, AnswerRefines DEF Notice
<1> QED
  BY <1>1, <1>2, <1>3, <1>4, <1>5, StepKinds DEF Ledger!LedgerNext

(***************************************************************************)
(* LedgerImplemented: the polls of any number of processes over any jobs,  *)
(* with crashes, lost leases and late answers, only ever do what the       *)
(* abstract ledger of occurrences allows.                                  *)
(***************************************************************************)
THEOREM LedgerImplemented == Spec => ImplementsLedger
<1>1. Init => Ledger!LedgerInit
  BY DEF Init, StoreInit, Absent, Phase, Ledger!LedgerInit
<1>2. TypeOK /\ TypeOK' /\ EffectInv /\ [Next]_vars => [Ledger!LedgerNext]_(Ledger!ledgerVars)
  BY StepRefines
<1> QED
  BY <1>1, <1>2, TypeCorrect, EffectInvHolds, PTL DEF Spec, ImplementsLedger, Ledger!LedgerSpec

-----------------------------------------------------------------------------
(* What is in hand is the holder's. *)

InHand(row) == row.status \in {"claimed", "sending"}

\* The lease may have run out: it still says whose the events in hand are.
Hands ==
    lease.owner # None =>
        \A e \in EventIds : InHand(events[e]) => events[e].owner = lease.owner

HandsStay ==
    /\ \A e \in EventIds :
         InHand(events'[e]) => InHand(events[e]) /\ events'[e].owner = events[e].owner
    /\ lease'.owner \in {lease.owner, None}

LEMMA StayKeepsHands == Hands /\ HandsStay => Hands'
BY DEF Hands, HandsStay

LEMMA StoreHands ==
    ASSUME TypeOK, UNCHANGED storeVars
    PROVE  HandsStay
BY DEF HandsStay, storeVars

LEMMA HeldHands ==
    ASSUME TypeOK, NEW o \in Owners, NEW e \in EventIds,
           \/ ReleaseClaim(e, o)
           \/ DeferEvent(e, o)
           \/ \E status \in {"failed", "completed", "unknown", "accepted"} : RecordReceipt(e, status)
    PROVE  HandsStay
BY DEF ReleaseClaim, DeferEvent, RecordReceipt, SetEvent, Row, HandsStay, InHand, TypeOK,
       StoreTypeOK

LEMMA MaterializeHands ==
    ASSUME TypeOK, NEW o \in Owners, MaterializeDue(o)
    PROVE  HandsStay
<1>1. lease' = lease
  BY DEF MaterializeDue
<1>2. ASSUME NEW e \in EventIds, InHand(events'[e])
      PROVE  InHand(events[e]) /\ events'[e].owner = events[e].owner
  BY <1>2, MaterializeMild DEF Mild, InHand, Unsent, MaterializeDue
<1> QED
  BY <1>1, <1>2 DEF HandsStay

LEMMA TakesHands ==
    ASSUME TypeOK, Hands, NEW o \in Owners, NEW e \in EventIds,
           ClaimEvent(e, o) \/ MarkSending(e, o)
    PROVE  Hands'
<1>1. lease.owner = o /\ lease.owner # None /\ lease' = lease
  BY OwnersAssumption DEF ClaimEvent, MarkSending, HoldsLease
<1>2. events'[e].owner = o /\ \A d \in EventIds \ {e} : events'[d] = events[d]
  BY DEF ClaimEvent, MarkSending, SetEvent, Row, TypeOK, StoreTypeOK
<1> QED
  BY <1>1, <1>2 DEF Hands

LEMMA AcquireHands ==
    ASSUME TypeOK, Hands, NEW o \in Owners, AcquireLease(o)
    PROVE  Hands'
<1>1. CASE HoldsLease(o)
  BY <1>1 DEF AcquireLease, HoldsLease, Hands
<1>2. CASE ~HoldsLease(o)
  <2>1. \A e \in EventIds : ~InHand(events'[e])
    BY <1>2 DEF AcquireLease, RecoverEvents, Row, InHand
  <2> QED
    BY <2>1 DEF Hands
<1> QED
  BY <1>1, <1>2

LEMMA NextHands ==
    ASSUME TypeOK, Hands, [Next]_vars
    PROVE  Hands'
<1> USE DEF At
<1>s. UNCHANGED storeVars => Hands'
  BY StoreHands, StayKeepsHands
<1>l. UNCHANGED <<events, lease>> => Hands'
  BY DEF Hands
<1>c. \A o \in Owners : pc[o] \in Holding => cur[o] \in EventIds
  BY HeldEvent
<1>1. ASSUME NEW o \in Owners, Progress(o)
      PROVE  Hands'
  <2>1. CASE PollAcquire(o)
    BY <2>1, AcquireHands DEF PollAcquire
  <2>2. CASE PollMaterialize(o)
    BY <2>2, <1>s, MaterializeHands, StayKeepsHands DEF PollMaterialize
  <2>3. CASE PollList(o) \/ PollDone(o) \/ PollRaises(o) \/ Publish(o)
    BY <2>3, <1>s DEF PollList, PollDone, PollRaises, Publish
  <2>4. CASE PollNext(o)
    BY <2>4 DEF PollNext, RenewLease, Hands, TypeOK, StoreTypeOK
  <2>5. CASE PollClaim(o)
    BY <2>5, <1>s, <1>c, HoldingPoints, TakesHands DEF PollClaim, ClaimRefused
  <2>6. CASE ProbeRefused(o)
    BY <2>6, <1>c, HoldingPoints, HeldHands, StayKeepsHands DEF ProbeRefused
  <2>7. CASE PollMark(o)
    BY <2>7, <1>s, <1>c, HoldingPoints, TakesHands, HeldHands, StayKeepsHands
       DEF PollMark, MarkRefused
  <2>8. CASE DispatchSettled(o) \/ DispatchDeferred(o) \/ DispatchAccepted(o) \/ DispatchUnknown(o)
    <3>1. cur[o] \in EventIds
      BY <2>8, Delivering DEF DispatchSettled, DispatchDeferred, DispatchAccepted,
                              DispatchUnknown, Dispatching
    <3> QED
      BY <2>8, <3>1, <1>s, HeldHands, StayKeepsHands
         DEF DispatchSettled, DispatchDeferred, DispatchAccepted, DispatchUnknown
  <2>9. CASE PollRelease(o)
    BY <2>9 DEF PollRelease, ReleasedLease, Hands
  <2> QED
    BY <1>1, <2>1, <2>2, <2>3, <2>4, <2>5, <2>6, <2>7, <2>8, <2>9 DEF Progress
<1>2. ASSUME NEW o \in Owners, Renew(o)
      PROVE  Hands'
  BY <1>2 DEF Renew, RenewLease, Hands, TypeOK, StoreTypeOK
<1>3. ASSUME NEW o \in Owners, Crash(o)
      PROVE  Hands'
  BY <1>3, <1>s DEF Crash
<1>4. ASSUME NEW e \in EventIds, Notice(e)
      PROVE  Hands'
  <2>1. PICK status \in {"failed", "completed", "unknown"} : RecordReceipt(e, status)
    BY <1>4 DEF Notice
  <2>2. CASE Owners = {}
    BY <2>1, <2>2 DEF Hands, RecordReceipt, SetEvent, Row, InHand, TypeOK, StoreTypeOK
  <2>3. ASSUME NEW o \in Owners
        PROVE  Hands'
    BY <2>1, HeldHands, StayKeepsHands
  <2> QED
    BY <2>2, <2>3
<1>5. CASE Control
  <2>1. lease' = lease
    BY <1>5 DEF Control, CreateJob, UpdateJob, DeleteJob, SetAutonomyPaused
  <2>2. events' = events \/ \E j \in JobIds : CancelUnsent(j)
    BY <1>5 DEF Control, CreateJob, UpdateJob, DeleteJob, SetAutonomyPaused
  <2>3. ASSUME NEW j \in JobIds, CancelUnsent(j)
        PROVE  HandsStay
    BY <2>1, <2>3 DEF CancelUnsent, Row, HandsStay, InHand
  <2> QED
    BY <1>l, <2>1, <2>2, <2>3, StayKeepsHands
<1>6. CASE Time
  BY <1>6, <1>l DEF Time, Tick, ClockBack
<1>7. CASE UNCHANGED vars
  BY <1>7, <1>s DEF vars
<1> QED
  BY <1>1, <1>2, <1>3, <1>4, <1>5, <1>6, <1>7 DEF Next

(***************************************************************************)
(* HandsOfHolder: while a lease is live, everything claimed or being sent  *)
(* is its holder's.                                                        *)
(***************************************************************************)
THEOREM HandsOfHolder == Spec => []InHandOfHolder
<1>1. Init => Hands
  BY DEF Init, StoreInit, Hands
<1>2. TypeOK /\ Hands => InHandOfHolder
  BY OwnersAssumption DEF Hands, InHand, InHandOfHolder, HoldsLease
<1> QED
  BY <1>1, <1>2, NextHands, TypeCorrect, PTL DEF Spec

-----------------------------------------------------------------------------
(***************************************************************************)
(* Which instants of a schedule the dispatcher plans and sends, for any    *)
(* number of processes, jobs, schedules and clock values: every instant of *)
(* a heartbeat or cron job at most once, no heartbeat beside a pending     *)
(* one, and nothing planned from a definition that is gone.                *)
(*                                                                         *)
(* None of these is inductive.  HandInv says that what is claimed or sent  *)
(* is in the one poll that holds the lease.  OccurrenceInv says of each    *)
(* job how its occurrences lie on the grid of its schedule: windows follow *)
(* one another without a gap or an overlap up to the cursor, only the last *)
(* may be open, and what is unsent was planned from the present            *)
(* definition.  It is claimed of jobs that were created once: an id that   *)
(* is named again starts a second history from revision 1 (NeverReused).   *)
(***************************************************************************)
(* What is in hand is in the hands of the one poll that is at it. *)

\* The poll of o is at event e, or is over and its lease about to go.
HasInHand(o, e) ==
    \/ pc[o] \in {"release", "dead"}
    \/ cur[o] = e /\ pc[o] \in Dispatching
    \/ cur[o] = e /\ pc[o] = "probe" /\ events[e].status = "claimed"

AtHand ==
    \A o \in Owners, e \in EventIds :
        lease.owner = o /\ InHand(events[e]) => HasInHand(o, e)

OneInHand == \A d, e \in EventIds : InHand(events[d]) /\ InHand(events[e]) => d = e

IdleIsFree == \A o \in Owners : pc[o] = "idle" => lease.owner # o

HandInv == AtHand /\ OneInHand /\ IdleIsFree

\* Nothing comes into anybody's hands.
NothingTaken ==
    \A e \in EventIds :
        InHand(events'[e]) => InHand(events[e]) /\ events'[e].status = events[e].status

NothingInHand == \A e \in EventIds : ~InHand(events[e])

LEMMA NothingTakenStutter == UNCHANGED events => NothingTaken
BY DEF NothingTaken

\* Steps in which no poll moves, and no lease changes hands.
LEMMA StillHands ==
    ASSUME TypeOK, HandInv, NothingTaken, UNCHANGED <<pc, cur>>,
           lease'.owner \in {lease.owner, None}
    PROVE  HandInv'
<1>1. lease'.owner # None => lease'.owner = lease.owner
  OBVIOUS
<1>2. \A o \in Owners : o # None
  BY OwnersAssumption
<1>3. AtHand'
  BY <1>1, <1>2 DEF HandInv, AtHand, NothingTaken, HasInHand
<1>4. OneInHand'
  BY DEF HandInv, OneInHand, NothingTaken
<1>5. IdleIsFree'
  BY <1>1, <1>2 DEF HandInv, IdleIsFree
<1> QED
  BY <1>3, <1>4, <1>5 DEF HandInv

(***************************************************************************)
(* A step of one poll.  The others' positions and what they hold stay; and *)
(* if the lease is this one's, nothing is left in hand, or it is on its    *)
(* way to release it.                                                      *)
(***************************************************************************)
LEMMA PollHands ==
    ASSUME TypeOK, HandInv, NEW o \in Owners, NEW point \in Points, Goto(o, point),
           NothingTaken, lease' = lease, point # "idle",
           \/ point \in {"release", "dead"}
           \/ lease.owner = o => NothingInHand'
    PROVE  HandInv'
<1>1. \A p \in Owners \ {o} : pc'[p] = pc[p] /\ cur'[p] = cur[p]
  BY DEF Goto, TypeOK, PollTypeOK
<1>2. pc'[o] = point
  BY DEF Goto, TypeOK, PollTypeOK
<1>3. AtHand'
  <2> SUFFICES ASSUME NEW p \in Owners, NEW e \in EventIds,
                      lease'.owner = p, InHand(events'[e])
               PROVE  HasInHand(p, e)'
    BY DEF AtHand
  <2>1. CASE p = o
    BY <1>2, <2>1 DEF NothingInHand, HasInHand
  <2>2. CASE p # o
    BY <1>1, <2>2 DEF HandInv, AtHand, NothingTaken, HasInHand
  <2> QED
    BY <2>1, <2>2
<1>4. OneInHand'
  BY DEF HandInv, OneInHand, NothingTaken
<1>5. IdleIsFree'
  BY <1>1, <1>2 DEF HandInv, IdleIsFree
<1> QED
  BY <1>3, <1>4, <1>5 DEF HandInv

\* Whoever holds the lease at a point where no poll has anything finds nothing in hand.
LEMMA EmptyHands ==
    ASSUME TypeOK, HandInv, NEW o \in Owners, lease.owner = o,
           pc[o] \in {"idle", "materialize", "list", "next", "claim"}
    PROVE  NothingInHand
BY DEF HandInv, AtHand, HasInHand, NothingInHand, Dispatching

\* At the probe the holder has at most what it claimed.
LEMMA ProbeHands ==
    ASSUME TypeOK, HandInv, Hands, NEW o \in Owners, lease.owner = o, pc[o] = "probe",
           NEW e \in EventIds, InHand(events[e])
    PROVE  e = cur[o] /\ Owned(e, o, "claimed")
<1>1. o # None
  BY OwnersAssumption
<1>2. events[e].owner = o
  BY <1>1 DEF Hands
<1> QED
  BY <1>2 DEF HandInv, AtHand, HasInHand, Dispatching, Owned

LEMMA ReleasedHands ==
    ASSUME TypeOK, HandInv, Hands, NEW o \in Owners, pc[o] = "probe", ReleaseClaim(cur[o], o)
    PROVE  NothingTaken /\ (lease.owner = o => NothingInHand')
<1>1. cur[o] \in EventIds
  BY HeldEvent DEF Holding
<1>2. /\ \A d \in EventIds \ {cur[o]} : events'[d] = events[d]
      /\ \/ events'[cur[o]].status = "pending"
         \/ events' = events /\ ~Owned(cur[o], o, "claimed")
  BY <1>1 DEF ReleaseClaim, SetEvent, Row, TypeOK, StoreTypeOK
<1>3. NothingTaken
  BY <1>1, <1>2 DEF NothingTaken, InHand
<1>4. ASSUME lease.owner = o
      PROVE  NothingInHand'
  BY <1>1, <1>2, <1>4, ProbeHands DEF NothingInHand, InHand
<1> QED
  BY <1>3, <1>4

\* An answer, or a deferral, takes what the poll is at out of its hands.
LEMMA AnsweredHands ==
    ASSUME TypeOK, HandInv, NEW o \in Owners, pc[o] \in Dispatching,
           \/ DeferEvent(cur[o], o)
           \/ \E status \in {"failed", "completed", "unknown", "accepted"} :
                RecordReceipt(cur[o], status)
    PROVE  NothingTaken /\ (lease.owner = o => NothingInHand')
<1>1. cur[o] \in EventIds
  BY Delivering
<1>2. /\ \A d \in EventIds \ {cur[o]} : events'[d] = events[d]
      /\ ~InHand(events'[cur[o]])
  BY <1>1 DEF DeferEvent, RecordReceipt, SetEvent, Row, InHand, TypeOK, StoreTypeOK
<1>3. NothingTaken
  BY <1>1, <1>2 DEF NothingTaken
<1>4. ASSUME lease.owner = o
      PROVE  NothingInHand'
  BY <1>1, <1>2, <1>4 DEF HandInv, AtHand, HasInHand, NothingInHand, Dispatching
<1> QED
  BY <1>3, <1>4

LEMMA ProgressHands ==
    ASSUME TypeOK, HandInv, Hands, NEW o \in Owners, Progress(o)
    PROVE  HandInv'
<1> USE DEF At
<1>p. {"idle", "materialize", "list", "next", "claim", "probe", "deliver", "sent", "release"}
        \subseteq Points
  BY DEF Points
<1>s. UNCHANGED storeVars => NothingTaken /\ lease' = lease
  BY NothingTakenStutter DEF storeVars
<1>e. /\ pc[o] \in {"idle", "materialize", "list", "next", "claim"} /\ lease.owner = o
           => NothingInHand
      /\ NothingInHand /\ UNCHANGED events => NothingInHand'
  BY EmptyHands DEF NothingInHand
<1>t. NothingInHand /\ NothingTaken => NothingInHand'
  BY DEF NothingInHand, NothingTaken
<1>1. CASE PollAcquire(o)
  <2>1. pc[o] = "idle" /\ lease.owner # o /\ lease'.owner = o
    BY <1>1 DEF PollAcquire, AcquireLease, HandInv, IdleIsFree
  <2>2. NothingInHand'
    BY <1>1, <2>1 DEF PollAcquire, AcquireLease, HoldsLease, RecoverEvents, Row, InHand,
                      NothingInHand
  <2>3. pc'[o] = "materialize" /\ \A p \in Owners \ {o} : pc'[p] = pc[p]
    BY <1>1 DEF PollAcquire, Goto, TypeOK, PollTypeOK
  <2> QED
    BY <2>1, <2>2, <2>3 DEF NothingInHand, HandInv, AtHand, OneInHand, IdleIsFree
<1>2. CASE PollMaterialize(o)
  <2>1. CASE MaterializeDue(o)
    <3>1. lease' = lease
      BY <2>1 DEF MaterializeDue
    <3>2. NothingTaken
      <4> SUFFICES ASSUME NEW e \in EventIds, InHand(events'[e])
                   PROVE  InHand(events[e]) /\ events'[e].status = events[e].status
        BY DEF NothingTaken
      <4>1. InHand(events[e]) /\ Mild(events[e], events'[e])
        BY <2>1, MaterializeHands, MaterializeMild DEF HandsStay
      <4> QED
        BY <4>1 DEF Mild, InHand, Unsent
    <3> QED
      BY <1>2, <1>p, <1>e, <1>t, <2>1, <3>1, <3>2, PollHands DEF PollMaterialize
  <2>2. CASE UNCHANGED storeVars
    BY <1>2, <1>p, <1>s, <1>e, <1>t, <2>2, PollHands DEF PollMaterialize
  <2> QED
    BY <1>2, <2>1, <2>2 DEF PollMaterialize
<1>3. CASE PollList(o) \/ PollDone(o)
  BY <1>3, <1>p, <1>s, <1>e, <1>t, PollHands DEF PollList, PollDone
<1>4. CASE PollNext(o)
  <2>1. /\ pc[o] = "next" /\ pc'[o] = "claim" /\ lease.owner = o /\ lease'.owner = o
        /\ events' = events /\ \A p \in Owners \ {o} : pc'[p] = pc[p]
    BY <1>4 DEF PollNext, RenewLease, HoldsLease, TypeOK, PollTypeOK, StoreTypeOK
  <2> QED
    BY <2>1, <1>e DEF NothingInHand, HandInv, AtHand, OneInHand, IdleIsFree
<1>5. CASE PollClaim(o)
  <2>1. pc[o] = "claim" /\ lease.owner = o /\ NothingInHand /\ cur[o] \in EventIds
    BY <1>5, <1>e, HeldEvent, HoldingPoints DEF PollClaim, ClaimEvent, ClaimRefused, HoldsLease
  <2>2. CASE ClaimEvent(cur[o], o) /\ Goto(o, "probe")
    <3>1. /\ lease' = lease /\ events'[cur[o]].status = "claimed"
          /\ \A d \in EventIds \ {cur[o]} : events'[d] = events[d]
      BY <2>1, <2>2 DEF ClaimEvent, SetEvent, Row, TypeOK, StoreTypeOK
    <3>2. /\ pc'[o] = "probe" /\ cur'[o] = cur[o]
          /\ \A p \in Owners \ {o} : pc'[p] = pc[p]
      BY <2>2 DEF Goto, Holding, Dispatching, TypeOK, PollTypeOK
    <3> QED
      BY <2>1, <3>1, <3>2 DEF NothingInHand, HandInv, AtHand, OneInHand, IdleIsFree, HasInHand
  <2>3. CASE ClaimRefused(cur[o], o) /\ Goto(o, "next")
    BY <2>1, <2>3, <1>p, <1>s, <1>t, PollHands DEF ClaimRefused
  <2> QED
    BY <1>5, <2>2, <2>3 DEF PollClaim
<1>6. CASE ProbeRefused(o)
  <2>1. ReleaseClaim(cur[o], o) /\ pc[o] = "probe" /\ lease' = lease
    BY <1>6 DEF ProbeRefused, ReleaseClaim
  <2> QED
    BY <1>6, <1>p, <2>1, ReleasedHands, PollHands DEF ProbeRefused
<1>7. CASE PollMark(o)
  <2>1. pc[o] = "probe" /\ lease.owner = o /\ lease' = lease /\ cur[o] \in EventIds
    BY <1>7, HeldEvent, HoldingPoints
       DEF PollMark, MarkSending, MarkRefused, ReleaseClaim, HoldsLease, storeVars
  <2>2. CASE MarkSending(cur[o], o) /\ Goto(o, "deliver")
    <3>1. /\ events[cur[o]].status = "claimed" /\ events'[cur[o]].status = "sending"
          /\ \A d \in EventIds \ {cur[o]} : events'[d] = events[d]
      BY <2>1, <2>2 DEF MarkSending, Owned, SetEvent, Row, TypeOK, StoreTypeOK
    <3>2. /\ pc'[o] = "deliver" /\ cur'[o] = cur[o]
          /\ \A p \in Owners \ {o} : pc'[p] = pc[p]
      BY <2>2 DEF Goto, Holding, Dispatching, TypeOK, PollTypeOK
    <3>3. \A d \in EventIds : InHand(events'[d]) => InHand(events[d])
      BY <3>1 DEF InHand
    <3>4. OneInHand'
      BY <3>3 DEF HandInv, OneInHand
    <3>5. \A d \in EventIds : InHand(events'[d]) => d = cur[o]
      BY <2>1, <3>1, <3>3 DEF HandInv, OneInHand, InHand
    <3> QED
      BY <2>1, <3>2, <3>4, <3>5 DEF HandInv, AtHand, IdleIsFree, HasInHand, Dispatching
  <2>3. CASE MarkRefused(cur[o], o) /\ Goto(o, "next")
    <3>1. CASE paused
      BY <2>1, <2>3, <3>1, <1>p, ReleasedHands, PollHands DEF MarkRefused
    <3>2. CASE ~paused
      <4>1. ~Owned(cur[o], o, "claimed") /\ UNCHANGED storeVars
        BY <2>3, <3>2 DEF MarkRefused
      <4>2. NothingInHand
        BY <2>1, <4>1, ProbeHands DEF NothingInHand
      <4> QED
        BY <2>3, <4>1, <4>2, <1>p, <1>s, <1>t, PollHands
    <3> QED
      BY <3>1, <3>2
  <2> QED
    BY <1>7, <2>2, <2>3 DEF PollMark
<1>8. CASE Publish(o)
  <2>1. /\ pc[o] = "deliver" /\ pc'[o] = "sent" /\ cur' = cur /\ events' = events /\ lease' = lease
        /\ \A p \in Owners \ {o} : pc'[p] = pc[p]
    BY <1>8 DEF Publish, Goto, Holding, Dispatching, TypeOK, PollTypeOK, storeVars
  <2> QED
    BY <2>1 DEF HandInv, AtHand, OneInHand, IdleIsFree, HasInHand, Dispatching
<1>9. CASE DispatchSettled(o) \/ DispatchDeferred(o) \/ DispatchUnknown(o)
  <2>1. pc[o] \in Dispatching
    BY <1>9 DEF DispatchSettled, DispatchDeferred, DispatchUnknown, Dispatching
  <2>2. \/ /\ \/ DeferEvent(cur[o], o)
              \/ \E status \in {"failed", "completed", "unknown"} : RecordReceipt(cur[o], status)
           /\ Goto(o, "next") \/ Goto(o, "release")
        \/ UNCHANGED storeVars /\ Goto(o, "release")
    BY <1>9 DEF DispatchSettled, DispatchDeferred, DispatchUnknown
  <2>3. CASE UNCHANGED storeVars /\ Goto(o, "release")
    BY <2>3, <1>p, <1>s, PollHands
  <2>4. CASE /\ \/ DeferEvent(cur[o], o)
                \/ \E status \in {"failed", "completed", "unknown"} : RecordReceipt(cur[o], status)
             /\ Goto(o, "next") \/ Goto(o, "release")
    <3>1. lease' = lease
      BY <2>4 DEF DeferEvent, RecordReceipt
    <3> QED
      BY <2>1, <2>4, <3>1, <1>p, AnsweredHands, PollHands
  <2> QED
    BY <2>2, <2>3, <2>4
<1>10. CASE DispatchAccepted(o)
  <2>1. pc[o] = "sent" /\ pc[o] \in Dispatching /\ cur[o] \in EventIds /\ Goto(o, "next")
    BY <1>10, Delivering DEF DispatchAccepted, Dispatching
  <2>2. CASE events[cur[o]].status \in {"completed", "failed"}
    <3>1. UNCHANGED storeVars
      BY <1>10, <2>2 DEF DispatchAccepted
    <3>2. lease.owner = o => NothingInHand
      BY <2>1, <2>2 DEF HandInv, AtHand, HasInHand, NothingInHand, InHand
    <3> QED
      BY <2>1, <3>1, <3>2, <1>p, <1>s, <1>t, PollHands
  <2>3. CASE ~(events[cur[o]].status \in {"completed", "failed"})
    <3>1. RecordReceipt(cur[o], "accepted") /\ lease' = lease
      BY <1>10, <2>3 DEF DispatchAccepted, RecordReceipt
    <3> QED
      BY <2>1, <3>1, <1>p, AnsweredHands, PollHands
  <2> QED
    BY <2>2, <2>3
<1>11. CASE PollRaises(o)
  BY <1>11, <1>p, <1>s, PollHands DEF PollRaises
<1>12. CASE PollRelease(o)
  <2>1. /\ lease'.owner \in {lease.owner, None} /\ lease'.owner # o /\ events' = events
        /\ \A p \in Owners \ {o} : pc'[p] = pc[p] /\ cur'[p] = cur[p]
    BY <1>12, OwnersAssumption DEF PollRelease, ReleasedLease, Goto, TypeOK, PollTypeOK
  <2>2. \A p \in Owners : lease'.owner = p => lease.owner = p /\ p # o
    BY <2>1, OwnersAssumption
  <2> QED
    BY <2>1, <2>2 DEF HandInv, AtHand, OneInHand, IdleIsFree, HasInHand
<1> QED
  BY <1>1, <1>2, <1>3, <1>4, <1>5, <1>6, <1>7, <1>8, <1>9, <1>10, <1>11, <1>12 DEF Progress

LEMMA NextHandInv ==
    ASSUME TypeOK, HandInv, Hands, [Next]_vars
    PROVE  HandInv'
<1>1. ASSUME NEW o \in Owners, Renew(o)
      PROVE  HandInv'
  <2>1. UNCHANGED <<pc, cur, events>> /\ lease'.owner = lease.owner
    BY <1>1 DEF Renew, RenewLease, pollVars, TypeOK, StoreTypeOK
  <2> QED
    BY <2>1, NothingTakenStutter, StillHands
<1>2. ASSUME NEW o \in Owners, Crash(o)
      PROVE  HandInv'
  <2>1. Goto(o, "dead") /\ events' = events /\ lease' = lease /\ "dead" \in Points
    BY <1>2 DEF Crash, storeVars, Points
  <2> QED
    BY <2>1, NothingTakenStutter, PollHands
<1>3. ASSUME NEW e \in EventIds, Notice(e)
      PROVE  HandInv'
  <2>1. UNCHANGED <<pc, cur, lease>>
    BY <1>3 DEF Notice, RecordReceipt, pollVars
  <2>2. NothingTaken
    BY <1>3 DEF Notice, RecordReceipt, SetEvent, Row, NothingTaken, InHand, TypeOK, StoreTypeOK
  <2> QED
    BY <2>1, <2>2, StillHands
<1>4. CASE Control
  <2>1. UNCHANGED <<pc, cur, lease>>
    BY <1>4 DEF Control, CreateJob, UpdateJob, DeleteJob, SetAutonomyPaused, pollVars
  <2>2. events' = events \/ \E j \in JobIds : CancelUnsent(j)
    BY <1>4 DEF Control, CreateJob, UpdateJob, DeleteJob, SetAutonomyPaused
  <2>3. NothingTaken
    BY <2>2 DEF CancelUnsent, Row, NothingTaken, InHand
  <2> QED
    BY <2>1, <2>3, StillHands
<1>5. CASE Time
  <2>1. UNCHANGED <<pc, cur, lease, events>>
    BY <1>5 DEF Time, Tick, ClockBack, pollVars
  <2> QED
    BY <2>1, NothingTakenStutter, StillHands
<1>6. CASE UNCHANGED vars
  BY <1>6, NothingTakenStutter, StillHands DEF vars, storeVars, pollVars
<1> QED
  BY <1>1, <1>2, <1>3, <1>4, <1>5, <1>6, ProgressHands DEF Next

LEMMA InitHandInv == Init => HandInv
<1> SUFFICES ASSUME Init PROVE HandInv
  OBVIOUS
<1>1. lease.owner = None /\ \A e \in EventIds : ~InHand(events[e])
  BY DEF Init, StoreInit, Absent, InHand
<1> QED
  BY <1>1, OwnersAssumption DEF HandInv, AtHand, OneInHand, IdleIsFree

-----------------------------------------------------------------------------
(* The occurrences of one job, and its cursor. *)

(***************************************************************************)
(* Only callers that name their jobs can create one id twice (NamedIds);   *)
(* what follows is about the ids that were not.                            *)
(***************************************************************************)
Once(j) == made[j] <= 1

Open == Unsent \cup {"sending"}
RecordedOf(j) == {e \in EventIds : JobOf(e) = j /\ events[e].status # "absent"}
Beats(j) == jobs[j].live /\ jobs[j].kind = "heartbeat"
Follows(j, e) == jobs[j].live /\ RevOf(e) = jobs[j].rev

Born(j) ==
    /\ jobs[j].live => made[j] = 1 /\ jobs[j].def = 1
    /\ \A e \in RecordedOf(j) : made[j] = 1 /\ events[e].def = 1

RevisionsGrow(j) == jobs[j].live => \A e \in RecordedOf(j) : RevOf(e) <= jobs[j].rev

UnsentFollows(j) == \A e \in RecordedOf(j) : events[e].status \in Unsent => Follows(j, e)

CursorOnGrid(j) ==
    jobs[j].live =>
        /\ jobs[j].sched.type # "at" => jobs[j].due # NoDue
        /\ jobs[j].sched.type = "cron" => jobs[j].due % jobs[j].sched.value = 0

OneOpen(j) ==
    Beats(j) => \A d, e \in RecordedOf(j) :
        events[d].status \in Open /\ events[e].status \in Open => d = e

OpenIsLast(j) ==
    Beats(j) => \A d, e \in RecordedOf(j) :
        Follows(j, d) /\ Follows(j, e) /\ events[e].status \in Open => First(d) <= First(e)

WindowsApart(j) ==
    /\ \A e \in RecordedOf(j) : First(e) <= events[e].through
    /\ \A d, e \in RecordedOf(j) :
         RevOf(d) = RevOf(e) /\ First(d) < First(e) => events[d].through < First(e)

CursorAhead(j) ==
    jobs[j].live /\ jobs[j].due # NoDue =>
        \A e \in RecordedOf(j) : Follows(j, e) => events[e].through < jobs[j].due

NextIs(j, t) ==
    \/ jobs[j].due = t
    \/ \E d \in RecordedOf(j) : Follows(j, d) /\ First(d) = t

Unbroken(j) ==
    jobs[j].live /\ jobs[j].sched.type # "at" =>
        \A e \in RecordedOf(j) :
            Follows(j, e) => NextIs(j, events[e].through + jobs[j].sched.value)

DefinitionInv(j) ==
    /\ Born(j) /\ RevisionsGrow(j) /\ UnsentFollows(j) /\ CursorOnGrid(j)
    /\ OneOpen(j) /\ OpenIsLast(j) /\ WindowsApart(j) /\ CursorAhead(j) /\ Unbroken(j)

OccurrenceInv == \A j \in JobIds : Once(j) => DefinitionInv(j)

-----------------------------------------------------------------------------
(* What a step can do to the occurrences of one job. *)

\* The occurrence stays what it is; it comes back from being sent only if it is current.
KeepsEvent(e) ==
    /\ events'[e].through = events[e].through /\ events'[e].def = events[e].def
    /\ events'[e].status = "absent" <=> events[e].status = "absent"
    /\ events'[e].status \in Open => events[e].status \in Open
    /\ events'[e].status \in Unsent => events[e].status \in Unsent \/ Current(e)

KeepsEvents(j) == \A e \in EventIds : JobOf(e) = j => KeepsEvent(e)

KeepsJob(j) == jobs'[j] = jobs[j] /\ made'[j] = made[j] /\ KeepsEvents(j)

LEMMA KeepsStutter ==
    ASSUME UNCHANGED events, NEW j
    PROVE  KeepsEvents(j)
BY DEF KeepsEvents, KeepsEvent

LEMMA SetKeeps ==
    ASSUME TypeOK, NEW j, NEW e \in EventIds, NEW status, NEW o, SetEvent(e, status, o),
           events[e].status # "absent", status # "absent",
           status \in Open => events[e].status \in Open,
           status \in Unsent => events[e].status \in Unsent \/ Current(e)
    PROVE  KeepsEvents(j)
<1>1. /\ events'[e] = Row(e, status, o)
      /\ \A d \in EventIds \ {e} : events'[d] = events[d]
  BY DEF SetEvent, TypeOK, StoreTypeOK
<1> QED
  BY <1>1 DEF KeepsEvents, KeepsEvent, Row

LEMMA HeldKeeps ==
    ASSUME TypeOK, NEW j, NEW e \in EventIds, NEW o,
           ClaimEvent(e, o) \/ ReleaseClaim(e, o) \/ MarkSending(e, o) \/ DeferEvent(e, o)
    PROVE  KeepsEvents(j)
<1> USE DEF Open, Unsent
<1>1. CASE ClaimEvent(e, o)
  BY <1>1, SetKeeps DEF ClaimEvent
<1>2. CASE ReleaseClaim(e, o)
  BY <1>2, SetKeeps, KeepsStutter DEF ReleaseClaim, Owned
<1>3. CASE MarkSending(e, o)
  BY <1>3, SetKeeps DEF MarkSending, Owned
<1>4. CASE DeferEvent(e, o)
  BY <1>4, SetKeeps DEF DeferEvent, Owned
<1> QED
  BY <1>1, <1>2, <1>3, <1>4

LEMMA ReceiptKeeps ==
    ASSUME TypeOK, NEW j, NEW e \in EventIds,
           NEW status \in {"failed", "completed", "unknown", "accepted"}, RecordReceipt(e, status)
    PROVE  KeepsEvents(j)
BY SetKeeps DEF RecordReceipt, ReceiptAllowed, Open, Unsent

LEMMA AcquireKeeps ==
    ASSUME TypeOK, NEW j, NEW o, AcquireLease(o)
    PROVE  KeepsEvents(j)
<1>1. CASE RecoverEvents
  BY <1>1 DEF RecoverEvents, Row, KeepsEvents, KeepsEvent, Open, Unsent
<1> QED
  BY <1>1, KeepsStutter DEF AcquireLease

\* The control plane does nothing to the occurrences of other jobs.
LEMMA CancelKeeps ==
    ASSUME TypeOK, NEW i, CancelUnsent(i), NEW j
    PROVE  KeepsEvents(j)
BY DEF CancelUnsent, Row, KeepsEvents, KeepsEvent, Open, Unsent

\* A job that is not due, or blocked, is left alone.
LEMMA MaterializeKeeps ==
    ASSUME TypeOK, NEW o, MaterializeDue(o), NEW j \in JobIds, j \notin Touched
    PROVE  KeepsJob(j)
BY DEF MaterializeDue, KeepsJob, KeepsEvents, KeepsEvent

Materializes(j) ==
    j \in Touched /\ \E o \in Owners : lease.owner = o /\ pc[o] = "materialize" /\ MaterializeDue(o)

LEMMA ProgressOnJob ==
    ASSUME TypeOK, NEW o \in Owners, Progress(o), NEW j \in JobIds
    PROVE  KeepsJob(j) \/ Materializes(j)
<1> USE DEF At
<1>s. UNCHANGED storeVars => KeepsJob(j)
  BY KeepsStutter DEF storeVars, KeepsJob
<1>k. KeepsEvents(j) /\ UNCHANGED <<jobs, made>> => KeepsJob(j)
  BY DEF KeepsJob
<1>1. CASE PollAcquire(o)
  BY <1>1, <1>k, AcquireKeeps DEF PollAcquire, AcquireLease
<1>2. CASE PollMaterialize(o)
  <2>1. CASE MaterializeDue(o)
    BY <1>2, <2>1, MaterializeKeeps DEF PollMaterialize, Materializes, MaterializeDue, HoldsLease
  <2> QED
    BY <1>2, <1>s, <2>1 DEF PollMaterialize
<1>3. CASE PollList(o) \/ PollDone(o) \/ PollRaises(o) \/ Publish(o)
  BY <1>3, <1>s DEF PollList, PollDone, PollRaises, Publish
<1>4. CASE PollNext(o)
  BY <1>4, <1>k, KeepsStutter DEF PollNext, RenewLease
<1>5. CASE PollClaim(o)
  <2>1. cur[o] \in EventIds
    BY <1>5, HeldEvent, HoldingPoints DEF PollClaim
  <2> QED
    BY <1>5, <2>1, <1>k, <1>s, HeldKeeps DEF PollClaim, ClaimEvent, ClaimRefused
<1>6. CASE ProbeRefused(o)
  <2>1. cur[o] \in EventIds
    BY <1>6, HeldEvent, HoldingPoints DEF ProbeRefused
  <2> QED
    BY <1>6, <2>1, <1>k, HeldKeeps DEF ProbeRefused, ReleaseClaim
<1>7. CASE PollMark(o)
  <2>1. cur[o] \in EventIds
    BY <1>7, HeldEvent, HoldingPoints DEF PollMark
  <2> QED
    BY <1>7, <2>1, <1>k, <1>s, HeldKeeps DEF PollMark, MarkSending, MarkRefused, ReleaseClaim
<1>8. CASE DispatchSettled(o) \/ DispatchDeferred(o) \/ DispatchAccepted(o) \/ DispatchUnknown(o)
  <2>1. cur[o] \in EventIds
    BY <1>8, Delivering DEF DispatchSettled, DispatchDeferred, DispatchAccepted,
                            DispatchUnknown, Dispatching
  <2>2. \/ UNCHANGED storeVars
        \/ DeferEvent(cur[o], o)
        \/ \E status \in {"failed", "completed", "unknown", "accepted"} :
             RecordReceipt(cur[o], status)
    BY <1>8 DEF DispatchSettled, DispatchDeferred, DispatchAccepted, DispatchUnknown
  <2> QED
    BY <2>1, <2>2, <1>k, <1>s, HeldKeeps, ReceiptKeeps DEF DeferEvent, RecordReceipt
<1>9. CASE PollRelease(o)
  BY <1>9, <1>k, KeepsStutter DEF PollRelease
<1> QED
  BY <1>1, <1>2, <1>3, <1>4, <1>5, <1>6, <1>7, <1>8, <1>9 DEF Progress

(***************************************************************************)
(* Every step leaves a job and its occurrences what they are, or creates,  *)
(* updates or deletes the job, or records its due instants.                *)
(***************************************************************************)
LEMMA StepOnJob ==
    ASSUME TypeOK, [Next]_vars, NEW j \in JobIds
    PROVE  KeepsJob(j) \/ CreateJob(j) \/ UpdateJob(j) \/ DeleteJob(j) \/ Materializes(j)
<1>k. KeepsEvents(j) /\ UNCHANGED <<jobs, made>> => KeepsJob(j)
  BY DEF KeepsJob
<1>u. UNCHANGED <<events, jobs, made>> => KeepsJob(j)
  BY <1>k, KeepsStutter
<1>1. ASSUME NEW o \in Owners, Renew(o) \/ Crash(o)
      PROVE  KeepsJob(j)
  BY <1>1, <1>u DEF Renew, RenewLease, Crash, storeVars
<1>2. ASSUME NEW e \in EventIds, Notice(e)
      PROVE  KeepsJob(j)
  BY <1>2, <1>k, ReceiptKeeps DEF Notice, RecordReceipt
<1>3. CASE Control
  <2>1. ASSUME NEW i \in JobIds, i # j, CreateJob(i) \/ UpdateJob(i) \/ DeleteJob(i)
        PROVE  KeepsJob(j)
    <3>1. jobs'[j] = jobs[j] /\ made'[j] = made[j]
      BY <2>1 DEF CreateJob, UpdateJob, DeleteJob, TypeOK, StoreTypeOK
    <3>2. KeepsEvents(j)
      BY <2>1, CancelKeeps, KeepsStutter DEF CreateJob, UpdateJob, DeleteJob
    <3> QED
      BY <3>1, <3>2 DEF KeepsJob
  <2> QED
    BY <1>3, <2>1, <1>u DEF Control, SetAutonomyPaused
<1>4. CASE Time \/ UNCHANGED vars
  BY <1>4, <1>u DEF Time, Tick, ClockBack, vars, storeVars
<1> QED
  BY <1>1, <1>2, <1>3, <1>4, ProgressOnJob DEF Next

-----------------------------------------------------------------------------
(* Each of these steps keeps the invariant of the job. *)

LEMMA JobTypes ==
    ASSUME TypeOK, NEW j \in JobIds, jobs[j].live
    PROVE  /\ jobs[j].sched \in Schedules
           /\ jobs[j].sched.type \in {"at", "every", "cron"} /\ jobs[j].sched.value \in Nat \ {0}
           /\ jobs[j].due \in Nat \cup {NoDue} /\ jobs[j].rev \in 1..MaxRev /\ jobs[j].rev \in Nat
<1>1. jobs[j] \in Job
  BY LiveJob DEF TypeOK
<1>2. jobs[j].sched \in Schedules /\ jobs[j].due \in Nat \cup {NoDue} /\ jobs[j].rev \in 1..MaxRev
  BY <1>1 DEF Job
<1>3. jobs[j].sched \in [type : {"at", "every", "cron"}, value : Nat \ {0}]
  BY <1>2, ScheduleAssumption
<1>4. jobs[j].rev \in Nat
  BY <1>2, BoundsAssumption
<1> QED
  BY <1>2, <1>3, <1>4

LEMMA EventTypes ==
    ASSUME TypeOK, NEW e \in EventIds
    PROVE  /\ RevOf(e) \in 1..MaxRev /\ RevOf(e) \in Nat /\ First(e) \in Nat
           /\ JobOf(e) \in JobIds /\ events[e] \in Event /\ events[e].through \in Nat
BY BoundsAssumption DEF TypeOK, StoreTypeOK, EventIds, RevOf, First, JobOf, Event

LEMMA SameEvent ==
    ASSUME NEW d \in EventIds, NEW e \in EventIds,
           JobOf(d) = JobOf(e), RevOf(d) = RevOf(e), First(d) = First(e)
    PROVE  d = e
BY DEF EventIds, JobOf, RevOf, First

LEMMA UnsentIsOpen == Unsent \subseteq Open /\ "sending" \in Open /\ "absent" \notin Open
BY DEF Open, Unsent

LEMMA KeepsKeeps ==
    ASSUME TypeOK, NEW j \in JobIds, DefinitionInv(j), KeepsJob(j)
    PROVE  DefinitionInv(j)'
<1>1. /\ jobs'[j] = jobs[j] /\ made'[j] = made[j] /\ RecordedOf(j)' = RecordedOf(j)
      /\ \A e \in RecordedOf(j) :
           /\ events'[e].through = events[e].through /\ events'[e].def = events[e].def
           /\ events'[e].status \in Open => events[e].status \in Open
           /\ events'[e].status \in Unsent => events[e].status \in Unsent \/ Follows(j, e)
  BY DEF KeepsJob, KeepsEvents, KeepsEvent, RecordedOf, Current, Follows
<1>2. \A e : Follows(j, e)' <=> Follows(j, e)
  BY <1>1 DEF Follows
<1>3. Born(j)' /\ RevisionsGrow(j)' /\ CursorOnGrid(j)'
  BY <1>1 DEF DefinitionInv, Born, RevisionsGrow, CursorOnGrid
<1>4. UnsentFollows(j)'
  BY <1>1, <1>2 DEF DefinitionInv, UnsentFollows
<1>5. OneOpen(j)'
  BY <1>1 DEF DefinitionInv, OneOpen, Beats
<1>6. OpenIsLast(j)'
  BY <1>1, <1>2 DEF DefinitionInv, OpenIsLast, Beats
<1>7. WindowsApart(j)'
  BY <1>1 DEF DefinitionInv, WindowsApart
<1>8. CursorAhead(j)'
  BY <1>1, <1>2 DEF DefinitionInv, CursorAhead
<1>9. Unbroken(j)'
  BY <1>1, <1>2 DEF DefinitionInv, Unbroken, NextIs
<1> QED
  BY <1>3, <1>4, <1>5, <1>6, <1>7, <1>8, <1>9 DEF DefinitionInv

LEMMA GridMultiple ==
    ASSUME NEW v \in Nat \ {0}, NEW t \in Nat
    PROVE  (LastOnGrid(0, v, t) + v) % v = 0
<1>1. PICK q \in Int : t \div v = q
  OBVIOUS
<1>2. LastOnGrid(0, v, t) + v = (q + 1) * v
  BY <1>1 DEF LastOnGrid
<1>3. ((q + 1) * v) % v = 0
  OBVIOUS
<1> QED
  BY <1>2, <1>3

\* Every cursor that next_due yields is on the grid of its schedule.
LEMMA CursorYields ==
    ASSUME NEW sched \in Schedules, NEW due \in Nat \cup {NoDue}, NEW t \in Nat,
           NEW initial \in BOOLEAN
    PROVE  /\ sched.type # "at" => NextDue(sched, due, t, initial) # NoDue
           /\ sched.type = "cron" => NextDue(sched, due, t, initial) % sched.value = 0
<1>1. sched.type \in {"at", "every", "cron"} /\ sched.value \in Nat \ {0}
  BY ScheduleAssumption
<1>2. CASE sched.type = "cron"
  <2>1. NextDue(sched, due, t, initial) = LastOnGrid(0, sched.value, t) + sched.value
    BY <1>2 DEF NextDue
  <2>2. (LastOnGrid(0, sched.value, t) + sched.value) % sched.value = 0
    BY <1>1, GridMultiple
  <2>3. LastOnGrid(0, sched.value, t) \in Nat
    <3>1. 0 \in Nat /\ 0 <= t
      OBVIOUS
    <3> QED
      BY ONLY <1>1, <3>1, t \in Nat, GridFloor
  <2> QED
    BY <1>1, <1>2, <2>1, <2>2, <2>3 DEF NoDue
<1>3. CASE sched.type = "every"
  <2>1. CASE initial \/ due = NoDue
    <3>1. NextDue(sched, due, t, initial) = t + sched.value
      BY <1>3, <2>1 DEF NextDue
    <3> QED
      BY <1>1, <1>3, <3>1 DEF NoDue
  <2>2. CASE ~(initial \/ due = NoDue) /\ t < due
    BY <1>3, <2>2 DEF NextDue
  <2>3. CASE ~(initial \/ due = NoDue) /\ ~(t < due)
    <3>1. NextDue(sched, due, t, initial) = LastOnGrid(due, sched.value, t) + sched.value
      BY <1>3, <2>3 DEF NextDue
    <3>2. due \in Nat /\ due <= t
      BY <2>3
    <3>3. LastOnGrid(due, sched.value, t) \in Nat
      BY ONLY <1>1, <3>2, t \in Nat, GridFloor
    <3> QED
      BY <1>1, <1>3, <3>1, <3>3 DEF NoDue
  <2> QED
    BY <2>1, <2>2, <2>3
<1> QED
  BY <1>1, <1>2, <1>3

LEMMA CreateKeeps ==
    ASSUME TypeOK, NEW j \in JobIds, DefinitionInv(j), CreateJob(j), Once(j)'
    PROVE  DefinitionInv(j)'
<1>1. PICK sched \in Schedules, kind \in Kinds, enabled \in BOOLEAN :
        jobs' = [jobs EXCEPT ![j] =
                   [live |-> TRUE, sched |-> sched, kind |-> kind, enabled |-> enabled,
                    due |-> NextDue(sched, NoDue, now, TRUE), rev |-> 1,
                    def |-> made[j] + 1]]
  BY DEF CreateJob
<1>2. made[j] = 0 /\ made'[j] = 1 /\ events' = events
  BY DEF CreateJob, Once, TypeOK, StoreTypeOK
<1>3. RecordedOf(j)' = {}
  BY <1>2 DEF DefinitionInv, Born, RecordedOf
<1>4. /\ jobs'[j].live /\ jobs'[j].def = 1 /\ jobs'[j].sched = sched
      /\ jobs'[j].due = NextDue(sched, NoDue, now, TRUE)
  BY <1>1, <1>2 DEF TypeOK, StoreTypeOK
<1>5. CursorOnGrid(j)'
  <2>1. now \in Nat /\ NoDue \in Nat \cup {NoDue} /\ TRUE \in BOOLEAN
    BY BoundsAssumption DEF TypeOK, StoreTypeOK
  <2>2. /\ sched.type # "at" => NextDue(sched, NoDue, now, TRUE) # NoDue
        /\ sched.type = "cron" => NextDue(sched, NoDue, now, TRUE) % sched.value = 0
    BY <2>1, CursorYields
  <2> QED
    BY <1>4, <2>2 DEF CursorOnGrid
<1>6. Born(j)'
  BY <1>2, <1>3, <1>4 DEF Born
<1> QED
  BY <1>3, <1>5, <1>6 DEF DefinitionInv, RevisionsGrow, UnsentFollows, OneOpen, OpenIsLast,
                          WindowsApart, CursorAhead, Unbroken

\* What was planned or claimed of this job is cancelled; nothing else of it changes.
LEMMA CancelRows ==
    ASSUME TypeOK, NEW j \in JobIds, CancelUnsent(j)
    PROVE  /\ RecordedOf(j)' = RecordedOf(j)
           /\ \A e \in RecordedOf(j) :
                /\ events'[e].through = events[e].through /\ events'[e].def = events[e].def
                /\ events'[e].status \notin Unsent
                /\ events'[e].status \in Open => events[e].status = "sending"
BY DEF CancelUnsent, Row, RecordedOf, Open, Unsent

LEMMA UpdateKeeps ==
    ASSUME TypeOK, NEW j \in JobIds, DefinitionInv(j), OneInHand, UpdateJob(j)
    PROVE  DefinitionInv(j)'
<1>1. PICK sched \in Schedules, kind \in Kinds, enabled \in BOOLEAN, reschedule \in BOOLEAN :
        /\ sched # jobs[j].sched => reschedule
        /\ jobs' = [jobs EXCEPT ![j] =
             [live |-> TRUE, sched |-> sched, kind |-> kind, enabled |-> enabled,
              due |-> IF reschedule \/ (enabled /\ ~jobs[j].enabled)
                      THEN NextDue(sched, NoDue, now, TRUE) ELSE jobs[j].due,
              rev |-> jobs[j].rev + 1, def |-> jobs[j].def]]
  BY DEF UpdateJob
<1>2. /\ RecordedOf(j)' = RecordedOf(j)
      /\ \A e \in RecordedOf(j) :
           /\ events'[e].through = events[e].through /\ events'[e].def = events[e].def
           /\ events'[e].status \notin Unsent
           /\ events'[e].status \in Open => events[e].status = "sending"
  BY CancelRows DEF UpdateJob
<1>3. /\ jobs[j].live /\ jobs'[j].live /\ jobs'[j].rev = jobs[j].rev + 1 /\ made' = made
      /\ jobs'[j].def = jobs[j].def /\ jobs'[j].sched = sched
      /\ \/ jobs'[j].due = NextDue(sched, NoDue, now, TRUE)
         \/ jobs'[j].due = jobs[j].due /\ sched = jobs[j].sched
  BY <1>1 DEF UpdateJob, TypeOK, StoreTypeOK
<1>4. \A e \in RecordedOf(j) : e \in EventIds /\ RevOf(e) <= jobs[j].rev /\ ~Follows(j, e)'
  <2> SUFFICES ASSUME NEW e \in RecordedOf(j)
               PROVE  e \in EventIds /\ RevOf(e) <= jobs[j].rev /\ ~Follows(j, e)'
    OBVIOUS
  <2>1. e \in EventIds /\ RevOf(e) <= jobs[j].rev
    BY <1>3 DEF RecordedOf, DefinitionInv, RevisionsGrow
  <2>2. RevOf(e) \in Nat /\ jobs[j].rev \in Nat
    BY <2>1, <1>3, EventTypes, JobTypes
  <2> QED
    BY <1>3, <2>1, <2>2 DEF Follows
<1>5. Born(j)'
  BY <1>2, <1>3 DEF DefinitionInv, Born
<1>6. RevisionsGrow(j)'
  <2> SUFFICES ASSUME NEW e \in RecordedOf(j)
               PROVE  RevOf(e) <= jobs'[j].rev
    BY <1>2 DEF RevisionsGrow
  <2>1. RevOf(e) \in Nat /\ jobs[j].rev \in Nat /\ RevOf(e) <= jobs[j].rev
    BY <1>3, <1>4, EventTypes, JobTypes
  <2> QED
    BY <1>3, <2>1
<1>7. UnsentFollows(j)'
  BY <1>2 DEF UnsentFollows
<1>8. CursorOnGrid(j)'
  <2>1. now \in Nat /\ NoDue \in Nat \cup {NoDue} /\ TRUE \in BOOLEAN
    BY BoundsAssumption DEF TypeOK, StoreTypeOK
  <2> QED
    BY <1>3, <2>1, CursorYields DEF DefinitionInv, CursorOnGrid
<1>9. OneOpen(j)'
  BY <1>2, <1>4 DEF OneOpen, OneInHand, InHand
<1>10. OpenIsLast(j)'
  BY <1>2, <1>4 DEF OpenIsLast
<1>11. WindowsApart(j)'
  BY <1>2 DEF DefinitionInv, WindowsApart
<1>12. CursorAhead(j)'
  BY <1>2, <1>4 DEF CursorAhead
<1>13. Unbroken(j)'
  BY <1>2, <1>4 DEF Unbroken
<1> QED
  BY <1>5, <1>6, <1>7, <1>8, <1>9, <1>10, <1>11, <1>12, <1>13 DEF DefinitionInv

LEMMA DeleteKeeps ==
    ASSUME TypeOK, NEW j \in JobIds, DefinitionInv(j), DeleteJob(j)
    PROVE  DefinitionInv(j)'
<1>1. ~jobs'[j].live /\ made' = made
  BY DEF DeleteJob, NoJob, TypeOK, StoreTypeOK
<1>2. /\ RecordedOf(j)' = RecordedOf(j)
      /\ \A e \in RecordedOf(j) :
           /\ events'[e].through = events[e].through /\ events'[e].def = events[e].def
           /\ events'[e].status \notin Unsent
  BY CancelRows DEF DeleteJob
<1>3. Born(j)'
  BY <1>1, <1>2 DEF DefinitionInv, Born
<1>4. UnsentFollows(j)' /\ WindowsApart(j)'
  BY <1>2 DEF DefinitionInv, UnsentFollows, WindowsApart
<1> QED
  BY <1>1, <1>3, <1>4 DEF DefinitionInv, RevisionsGrow, CursorOnGrid, OneOpen, OpenIsLast, Beats,
                          CursorAhead, Unbroken

-----------------------------------------------------------------------------
(* Recording the due instants of a job. *)

\* The window of a due job, and where its cursor goes.
LEMMA WindowOf ==
    ASSUME TypeOK, NEW j \in JobIds, IsDue(j), CursorOnGrid(j),
           NEW last, last = WindowLast(jobs[j].sched, jobs[j].due, now),
           NEW following, following = WindowFollowing(jobs[j].sched, jobs[j].due, now)
    PROVE  /\ jobs[j].due \in 0..MaxTime /\ last \in Nat /\ jobs[j].due <= last
           /\ following # NoDue => following \in Nat /\ last < following
           /\ jobs[j].sched.type # "at" =>
                /\ following = last + jobs[j].sched.value /\ following # NoDue
           /\ jobs[j].sched.type = "cron" => following % jobs[j].sched.value = 0
<1> DEFINE s == jobs[j].sched
           due == jobs[j].due
<1>1. /\ jobs[j].live /\ due \in Nat /\ due <= now /\ now \in 0..MaxTime /\ now \in Nat
      /\ MaxTime \in Nat
  BY JobTypes, BoundsAssumption DEF IsDue, TypeOK, StoreTypeOK
<1>2. s \in Schedules /\ s.type \in {"at", "every", "cron"} /\ s.value \in Nat \ {0}
  BY <1>1, JobTypes
<1>3. due \in 0..MaxTime
  BY <1>1
<1>4. CASE s.type = "at"
  BY <1>1, <1>3, <1>4 DEF WindowLast, WindowFollowing, NextDue
<1>5. CASE s.type # "at"
  <2>1. Repeating(s)
    BY <1>2, <1>5 DEF Repeating
  <2>2. s.type = "cron" => due % s.value = 0
    BY <1>1 DEF CursorOnGrid
  <2>3. /\ last \in due..now /\ following \in Nat /\ following = last + s.value
    <3> HIDE DEF s, due
    <3>1. WindowLast(s, due, now) \in due..now /\ WindowFollowing(s, due, now) \in Nat
      BY <1>1, <2>1, WindowBounds
    <3>2. WindowFollowing(s, due, now) = WindowLast(s, due, now) + s.value
      BY <1>1, <2>1, <2>2, WindowsMeet
    <3> QED
      BY <3>1, <3>2 DEF s, due
  <2>4. s.type = "cron" => following % s.value = 0
    <3>1. NextDue(s, due, now, FALSE) % s.value = 0 \/ s.type # "cron"
      BY <1>1, <1>2, CursorYields
    <3> QED
      BY <3>1 DEF WindowFollowing
  <2> QED
    BY <1>1, <1>2, <1>3, <1>5, <2>3, <2>4 DEF NoDue
<1> QED
  BY <1>4, <1>5

(***************************************************************************)
(* A window recorded as an occurrence of its own.  Its identity is new     *)
(* because the cursor is past everything recorded, and a heartbeat then    *)
(* has nothing else that is open: what waits would have been merged with,  *)
(* and a poll that starts has nothing in hand.                             *)
(***************************************************************************)
LEMMA RecordKeeps ==
    ASSUME TypeOK, NEW j \in JobIds, DefinitionInv(j), NothingInHand, NEW o,
           MaterializeDue(o), j \in Touched, ~Merges(j)
    PROVE  DefinitionInv(j)'
<1> DEFINE due == jobs[j].due
           rev == jobs[j].rev
           last == WindowLast(jobs[j].sched, due, now)
           following == WindowFollowing(jobs[j].sched, due, now)
           n == OccurrenceId(j)
<1>1. IsDue(j) /\ jobs[j].live /\ CursorOnGrid(j) /\ due # NoDue
  BY DEF Touched, IsDue, DefinitionInv
<1>2. /\ due \in 0..MaxTime /\ last \in Nat /\ due <= last
      /\ following # NoDue => following \in Nat /\ last < following
      /\ jobs[j].sched.type # "at" =>
           /\ following = last + jobs[j].sched.value /\ following # NoDue
      /\ jobs[j].sched.type = "cron" => following % jobs[j].sched.value = 0
  BY <1>1, WindowOf
<1>3. due \in Nat /\ rev \in Nat /\ jobs[j].sched.value \in Nat \ {0} /\ rev \in 1..MaxRev
  BY <1>1, <1>2, JobTypes, BoundsAssumption
<1>4. n \in EventIds /\ JobOf(n) = j /\ RevOf(n) = rev /\ First(n) = due
  BY <1>2, <1>3 DEF OccurrenceId, EventIds, JobOf, RevOf, First
<1>5. events[n].status = "absent" /\ TargetEvent(j) = n
  BY DEF MaterializeDue, Collides, TargetEvent
<1>6. /\ events'[n] = [status |-> "pending", owner |-> None, through |-> last, def |-> jobs[j].def]
      /\ \A e \in EventIds \ {n} : JobOf(e) = j => events'[e] = events[e]
  BY <1>4, <1>5 DEF MaterializeDue
<1>7. /\ made' = made /\ jobs'[j].live /\ jobs'[j].sched = jobs[j].sched
      /\ jobs'[j].kind = jobs[j].kind /\ jobs'[j].rev = rev /\ jobs'[j].def = jobs[j].def
      /\ jobs'[j].due = following
  BY <1>1, LiveJob DEF MaterializeDue, TypeOK, Job
<1>8. n \notin RecordedOf(j) /\ RecordedOf(j)' = RecordedOf(j) \cup {n}
  <2>1. "pending" # "absent"
    OBVIOUS
  <2> QED
    BY <1>4, <1>5, <1>6, <2>1 DEF RecordedOf
<1>9. \A e \in RecordedOf(j) : e \in EventIds /\ JobOf(e) = j /\ e # n /\ events'[e] = events[e]
  BY <1>6, <1>8 DEF RecordedOf
<1>10. \A e : Follows(j, e)' <=> Follows(j, e)
  BY <1>1, <1>7 DEF Follows
<1>11. events'[n].status = "pending" /\ events'[n].through = last /\ events'[n].def = jobs[j].def
  BY <1>6
<1>12. Follows(j, n)
  BY <1>1, <1>4 DEF Follows
<1>13. \A e \in RecordedOf(j) : Follows(j, e) =>
          events[e].through < due /\ First(e) <= events[e].through
  BY <1>1 DEF DefinitionInv, CursorAhead, WindowsApart
<1>14. \A e \in RecordedOf(j) : First(e) \in Nat /\ events[e].through \in Nat /\ RevOf(e) \in Nat
  BY <1>9, EventTypes
<1>15. Beats(j) => \A e \in RecordedOf(j) : events[e].status \notin Open
  <2> SUFFICES ASSUME Beats(j), NEW e \in RecordedOf(j)
               PROVE  events[e].status \notin Open
    OBVIOUS
  <2>1. PendingOf(j) = {}
    BY DEF Merges, Beats
  <2>2. events[e].status # "pending"
    BY <1>9, <2>1 DEF PendingOf
  <2> QED
    BY <1>9, <2>2 DEF NothingInHand, InHand, Open, Unsent
<1>16. Beats(j)' <=> Beats(j)
  BY <1>1, <1>7 DEF Beats
<1> HIDE DEF due, rev, last, following, n
<1>21. Born(j)'
  BY <1>1, <1>7, <1>8, <1>9, <1>11 DEF DefinitionInv, Born
<1>22. RevisionsGrow(j)'
  BY <1>1, <1>3, <1>4, <1>7, <1>8 DEF DefinitionInv, RevisionsGrow, rev
<1>23. UnsentFollows(j)'
  BY <1>8, <1>9, <1>10, <1>12 DEF DefinitionInv, UnsentFollows
<1>24. CursorOnGrid(j)'
  BY <1>2, <1>7 DEF CursorOnGrid
<1>25. OneOpen(j)'
  BY <1>8, <1>9, <1>15, <1>16 DEF OneOpen
<1>26. OpenIsLast(j)'
  <2> SUFFICES ASSUME Beats(j), NEW d \in RecordedOf(j) \cup {n}, NEW e \in RecordedOf(j) \cup {n},
                      Follows(j, d), Follows(j, e), events'[e].status \in Open
               PROVE  First(d) <= First(e)
    BY <1>8, <1>10, <1>16 DEF OpenIsLast
  <2>1. e = n
    BY <1>9, <1>15
  <2>2. CASE d = n
    BY <1>2, <1>4, <2>1, <2>2
  <2>3. CASE d \in RecordedOf(j)
    BY <1>3, <1>4, <1>13, <1>14, <2>1, <2>3
  <2> QED
    BY <2>2, <2>3
<1>27. WindowsApart(j)'
  <2>1. \A e \in RecordedOf(j) \cup {n} : First(e) <= events'[e].through
    BY <1>2, <1>4, <1>9, <1>11 DEF DefinitionInv, WindowsApart
  <2>2. ASSUME NEW d \in RecordedOf(j) \cup {n}, NEW e \in RecordedOf(j) \cup {n},
               RevOf(d) = RevOf(e), First(d) < First(e)
        PROVE  events'[d].through < First(e)
    <3>1. CASE d \in RecordedOf(j) /\ e \in RecordedOf(j)
      BY <1>9, <2>2, <3>1 DEF DefinitionInv, WindowsApart
    <3>2. CASE d \in RecordedOf(j) /\ e = n
      <4>1. Follows(j, d)
        BY <1>1, <1>4, <2>2, <3>2 DEF Follows, rev
      <4> QED
        BY <1>4, <1>9, <1>13, <3>2, <4>1
    <3>3. CASE d = n /\ e \in RecordedOf(j)
      <4>1. Follows(j, e)
        BY <1>1, <1>4, <2>2, <3>3 DEF Follows, rev
      <4>2. First(e) < due
        BY <1>3, <1>13, <1>14, <3>3, <4>1
      <4> QED
        BY <1>3, <1>4, <1>14, <2>2, <3>3, <4>2
    <3>4. CASE d = n /\ e = n
      BY <1>3, <1>4, <2>2, <3>4
    <3> QED
      BY <3>1, <3>2, <3>3, <3>4
  <2> QED
    BY <1>8, <2>1, <2>2 DEF WindowsApart
<1>28. CursorAhead(j)'
  <2> SUFFICES ASSUME following # NoDue, NEW e \in RecordedOf(j) \cup {n}, Follows(j, e)
               PROVE  events'[e].through < following
    BY <1>7, <1>8, <1>10 DEF CursorAhead
  <2>1. CASE e = n
    BY <1>2, <1>11, <2>1
  <2>2. CASE e \in RecordedOf(j)
    BY <1>2, <1>3, <1>9, <1>13, <1>14, <2>2
  <2> QED
    BY <2>1, <2>2
<1>29. Unbroken(j)'
  <2> DEFINE v == jobs[j].sched.value
  <2> SUFFICES ASSUME jobs[j].sched.type # "at", NEW e \in RecordedOf(j) \cup {n}, Follows(j, e)
               PROVE  \/ following = events'[e].through + v
                      \/ \E d \in RecordedOf(j) \cup {n} :
                           Follows(j, d) /\ First(d) = events'[e].through + v
    BY <1>1, <1>7, <1>8, <1>10 DEF Unbroken, NextIs
  <2>1. CASE e = n
    BY <1>2, <1>11, <2>1
  <2>2. CASE e \in RecordedOf(j)
    <3>1. NextIs(j, events[e].through + v)
      BY <1>1, <2>2 DEF DefinitionInv, Unbroken
    <3>2. \/ First(n) = events[e].through + v
          \/ \E d \in RecordedOf(j) : Follows(j, d) /\ First(d) = events[e].through + v
      BY <1>4, <3>1 DEF NextIs, due
    <3> QED
      BY <1>9, <1>12, <2>2, <3>2
  <2> QED
    BY <2>1, <2>2
<1> QED
  BY <1>21, <1>22, <1>23, <1>24, <1>25, <1>26, <1>27, <1>28, <1>29 DEF DefinitionInv

(***************************************************************************)
(* A window merged into the heartbeat that waits: the one that waits is    *)
(* the last of its definition, so its window can be extended.              *)
(***************************************************************************)
LEMMA MergeKeeps ==
    ASSUME TypeOK, NEW j \in JobIds, DefinitionInv(j), NEW o,
           MaterializeDue(o), j \in Touched, Merges(j)
    PROVE  DefinitionInv(j)'
<1> DEFINE due == jobs[j].due
           rev == jobs[j].rev
           last == WindowLast(jobs[j].sched, due, now)
           following == WindowFollowing(jobs[j].sched, due, now)
           t == TargetEvent(j)
<1>1. IsDue(j) /\ jobs[j].live /\ CursorOnGrid(j) /\ due # NoDue /\ Beats(j)
  BY DEF Touched, IsDue, DefinitionInv, Merges, Beats
<1>2. /\ due \in 0..MaxTime /\ last \in Nat /\ due <= last
      /\ following # NoDue => following \in Nat /\ last < following
      /\ jobs[j].sched.type # "at" =>
           /\ following = last + jobs[j].sched.value /\ following # NoDue
      /\ jobs[j].sched.type = "cron" => following % jobs[j].sched.value = 0
  BY <1>1, WindowOf
<1>3. due \in Nat /\ rev \in Nat /\ jobs[j].sched.value \in Nat \ {0}
  BY <1>1, <1>2, JobTypes, BoundsAssumption
<1>4. PendingOf(j) \subseteq RecordedOf(j) /\ PendingOf(j) # {}
  BY DEF PendingOf, RecordedOf, Merges
<1>5. t \in PendingOf(j)
  <2>1. PICK w \in PendingOf(j) : TRUE
    BY <1>4
  <2>2. \A d \in PendingOf(j) : d = w
    BY <1>1, <1>4, <2>1 DEF DefinitionInv, OneOpen, PendingOf, Open, Unsent
  <2>3. First(w) <= First(w)
    BY <1>4, <2>1, EventTypes DEF RecordedOf
  <2>4. \E e \in PendingOf(j) : \A d \in PendingOf(j) : First(e) <= First(d)
    BY <2>1, <2>2, <2>3
  <2> QED
    BY <2>4 DEF TargetEvent
<1>6. /\ t \in EventIds /\ JobOf(t) = j /\ t \in RecordedOf(j) /\ events[t].status = "pending"
      /\ events[t] \in Event
  BY <1>4, <1>5, EventTypes DEF PendingOf
<1>7. /\ events'[t] = [events[t] EXCEPT !.through = last]
      /\ \A e \in EventIds \ {t} : JobOf(e) = j => events'[e] = events[e]
  BY <1>6 DEF MaterializeDue
<1>8. /\ events'[t].status = "pending" /\ events'[t].through = last
      /\ events'[t].def = events[t].def
  BY <1>6, <1>7 DEF Event
<1>9. /\ made' = made /\ jobs'[j].live /\ jobs'[j].sched = jobs[j].sched
      /\ jobs'[j].kind = jobs[j].kind /\ jobs'[j].rev = rev /\ jobs'[j].def = jobs[j].def
      /\ jobs'[j].due = following
  BY <1>1, LiveJob DEF MaterializeDue, TypeOK, Job
<1>10. /\ RecordedOf(j)' = RecordedOf(j)
       /\ \A e \in RecordedOf(j) \ {t} : events'[e] = events[e]
       /\ \A e \in RecordedOf(j) : events'[e].status = events[e].status
                                   /\ events'[e].def = events[e].def
  BY <1>6, <1>7, <1>8 DEF RecordedOf
<1>11. \A e : Follows(j, e)' <=> Follows(j, e)
  BY <1>1, <1>9 DEF Follows
<1>12. \A e \in RecordedOf(j) : /\ First(e) \in Nat /\ events[e].through \in Nat
                                /\ e \in EventIds /\ JobOf(e) = j
  BY EventTypes DEF RecordedOf
<1>13. Follows(j, t)
  BY <1>6 DEF DefinitionInv, UnsentFollows, Unsent
<1>14. \A e \in RecordedOf(j) : First(e) <= events[e].through
  BY DEF DefinitionInv, WindowsApart
<1>15. \A e \in RecordedOf(j) : Follows(j, e) => events[e].through < due /\ First(e) <= First(t)
  BY <1>1, <1>6, <1>13 DEF DefinitionInv, CursorAhead, OpenIsLast, Open, Unsent
<1>16. Beats(j)' <=> Beats(j)
  BY <1>1, <1>9 DEF Beats
<1> HIDE DEF due, rev, last, following, t
<1>21. Born(j)' /\ RevisionsGrow(j)' /\ UnsentFollows(j)'
  <2>1. Born(j)'
    BY <1>1, <1>9, <1>10 DEF DefinitionInv, Born
  <2>2. RevisionsGrow(j)'
    BY <1>1, <1>9, <1>10 DEF DefinitionInv, RevisionsGrow, rev
  <2>3. UnsentFollows(j)'
    BY <1>10, <1>11 DEF DefinitionInv, UnsentFollows
  <2> QED
    BY <2>1, <2>2, <2>3
<1>22. CursorOnGrid(j)'
  BY <1>2, <1>9 DEF CursorOnGrid
<1>23. OneOpen(j)' /\ OpenIsLast(j)'
  <2>1. OneOpen(j)'
    BY <1>10, <1>16 DEF DefinitionInv, OneOpen
  <2>2. OpenIsLast(j)'
    BY <1>10, <1>11, <1>16 DEF DefinitionInv, OpenIsLast
  <2> QED
    BY <2>1, <2>2
<1>24. WindowsApart(j)'
  <2>1. ASSUME NEW e \in RecordedOf(j)
        PROVE  First(e) <= events'[e].through
    <3>1. CASE e = t
      <4>1. First(t) \in Nat /\ events[t].through \in Nat
        BY <1>6, <1>12
      <4>2. First(t) <= events[t].through /\ events[t].through < due
        BY <1>6, <1>13, <1>14, <1>15
      <4> QED
        BY <1>2, <1>3, <1>8, <3>1, <4>1, <4>2
    <3>2. CASE e # t
      BY <1>10, <1>14, <3>2
    <3> QED
      BY <3>1, <3>2
  <2>2. ASSUME NEW d \in RecordedOf(j), NEW e \in RecordedOf(j),
               RevOf(d) = RevOf(e), First(d) < First(e)
        PROVE  events'[d].through < First(e)
    <3>1. d # t
      <4> SUFFICES ASSUME d = t PROVE FALSE
        OBVIOUS
      <4>1. Follows(j, e)
        BY <1>13, <2>2 DEF Follows
      <4>2. First(e) <= First(t) /\ First(t) < First(e)
        BY <1>15, <2>2, <4>1
      <4> QED
        BY <1>6, <1>12, <4>2
    <3> QED
      BY <1>10, <2>2, <3>1 DEF DefinitionInv, WindowsApart
  <2> QED
    BY <1>10, <2>1, <2>2 DEF WindowsApart
<1>25. CursorAhead(j)'
  <2> SUFFICES ASSUME following # NoDue, NEW e \in RecordedOf(j), Follows(j, e)
               PROVE  events'[e].through < following
    BY <1>9, <1>10, <1>11 DEF CursorAhead
  <2>1. CASE e = t
    BY <1>2, <1>8, <2>1
  <2>2. CASE e # t
    BY <1>2, <1>3, <1>10, <1>12, <1>15, <2>2
  <2> QED
    BY <2>1, <2>2
<1>26. Unbroken(j)'
  <2> DEFINE v == jobs[j].sched.value
  <2> SUFFICES ASSUME jobs[j].sched.type # "at", NEW e \in RecordedOf(j), Follows(j, e)
               PROVE  \/ following = events'[e].through + v
                      \/ \E d \in RecordedOf(j) :
                           Follows(j, d) /\ First(d) = events'[e].through + v
    BY <1>1, <1>9, <1>10, <1>11 DEF Unbroken, NextIs
  <2>1. \A d \in RecordedOf(j) : Follows(j, d) => NextIs(j, events[d].through + v)
    BY <1>1 DEF DefinitionInv, Unbroken
  <2>2. CASE e = t
    BY <1>2, <1>8, <2>2
  <2>3. CASE e # t
    <3>1. NextIs(j, events[e].through + v) /\ NextIs(j, events[t].through + v)
      BY <1>6, <1>13, <2>1
    <3>2. First(e) < First(t)
      <4>1. First(e) # First(t)
        <5>1. RevOf(e) = RevOf(t) /\ JobOf(e) = JobOf(t)
          BY <1>6, <1>12, <1>13 DEF Follows
        <5> QED
          BY <1>6, <1>12, <2>3, <5>1, SameEvent
      <4> QED
        BY <1>6, <1>12, <1>15, <4>1
    <3>3. events[e].through < First(t) /\ First(t) <= events[t].through
      <4>1. RevOf(e) = RevOf(t)
        BY <1>13 DEF Follows
      <4> QED
        BY <1>6, <1>14, <3>2, <4>1 DEF DefinitionInv, WindowsApart
    <3>4. due = events[t].through + v
      <4>1. \A d \in RecordedOf(j) : Follows(j, d) => First(d) # events[t].through + v
        BY <1>3, <1>6, <1>12, <1>14, <1>15
      <4> QED
        BY <3>1, <4>1 DEF NextIs, due
    <3>5. due # events[e].through + v
      BY <1>3, <1>6, <1>12, <3>3, <3>4
    <3>6. \E d \in RecordedOf(j) : Follows(j, d) /\ First(d) = events[e].through + v
      BY <3>1, <3>5 DEF NextIs, due
    <3> QED
      BY <1>10, <2>3, <3>6
  <2> QED
    BY <2>2, <2>3
<1> QED
  BY <1>21, <1>22, <1>23, <1>24, <1>25, <1>26 DEF DefinitionInv

LEMMA NextDefinition ==
    ASSUME TypeOK, HandInv, OccurrenceInv, [Next]_vars
    PROVE  OccurrenceInv'
<1> SUFFICES ASSUME NEW j \in JobIds, Once(j)'
             PROVE  DefinitionInv(j)'
  BY DEF OccurrenceInv
<1>1. KeepsJob(j) \/ CreateJob(j) \/ UpdateJob(j) \/ DeleteJob(j) \/ Materializes(j)
  BY StepOnJob
<1>2. Once(j)
  <2>1. made[j] \in Nat
    BY BoundsAssumption DEF TypeOK, StoreTypeOK
  <2>2. made'[j] = made[j] \/ made'[j] = made[j] + 1
    <3>1. CASE CreateJob(j)
      BY <3>1 DEF CreateJob, TypeOK, StoreTypeOK
    <3>2. CASE ~CreateJob(j)
      BY <1>1, <3>2 DEF KeepsJob, UpdateJob, DeleteJob, Materializes, MaterializeDue
    <3> QED
      BY <3>1, <3>2
  <2> QED
    BY <2>1, <2>2 DEF Once
<1>3. DefinitionInv(j) /\ OneInHand
  BY <1>2 DEF OccurrenceInv, HandInv
<1>4. CASE Materializes(j)
  <2>1. PICK o \in Owners : lease.owner = o /\ pc[o] = "materialize" /\ MaterializeDue(o)
    BY <1>4 DEF Materializes
  <2>2. NothingInHand
    BY <2>1, EmptyHands
  <2> QED
    BY <1>3, <1>4, <2>1, <2>2, RecordKeeps, MergeKeeps DEF Materializes
<1> QED
  BY <1>1, <1>3, <1>4, KeepsKeeps, CreateKeeps, UpdateKeeps, DeleteKeeps

LEMMA InitDefinition == Init => OccurrenceInv
<1> SUFFICES ASSUME Init, NEW j \in JobIds
             PROVE  DefinitionInv(j)
  BY DEF OccurrenceInv
<1>1. ~jobs[j].live /\ RecordedOf(j) = {}
  BY DEF Init, StoreInit, NoJob, Absent, RecordedOf
<1> QED
  BY <1>1 DEF DefinitionInv, Born, RevisionsGrow, UnsentFollows, CursorOnGrid, OneOpen, OpenIsLast,
              Beats, WindowsApart, CursorAhead, Unbroken

(***************************************************************************)
(* OccurrencesOnGrid: an id that was created once keeps one history: its   *)
(* occurrences tile the grid of each of its definitions up to the cursor,  *)
(* and what is unsent was planned from the present one, whatever polls,    *)
(* deferrals, takeovers, updates and clock changes do (materialize_due,    *)
(* defer_event, update_job, delete_job).                                   *)
(***************************************************************************)
THEOREM OccurrencesOnGrid == Spec => [](TypeOK /\ OccurrenceInv)
<1>1. Init => Hands /\ HandInv /\ OccurrenceInv
  BY InitHandInv, InitDefinition DEF Init, StoreInit, Hands
<1>2. TypeOK /\ Hands /\ HandInv /\ OccurrenceInv /\ [Next]_vars
        => Hands' /\ HandInv' /\ OccurrenceInv'
  BY NextHands, NextHandInv, NextDefinition
<1> QED
  BY <1>1, <1>2, TypeCorrect, PTL DEF Spec

-----------------------------------------------------------------------------
(* What follows when no caller gives an id twice. *)

MadeOnce == \A j \in JobIds \ NamedIds : Once(j)

LEMMA NextMadeOnce ==
    ASSUME TypeOK, MadeOnce, [Next]_vars
    PROVE  MadeOnce'
<1> SUFFICES ASSUME NEW j \in JobIds, j \notin NamedIds
             PROVE  Once(j)'
  BY DEF MadeOnce
<1>1. Once(j)
  BY DEF MadeOnce
<1>2. CASE CreateJob(j)
  <2>1. made[j] \in 0..MaxMade /\ made[j] < 1 /\ made'[j] = made[j] + 1
    BY <1>2 DEF CreateJob, TypeOK, StoreTypeOK
  <2> QED
    BY <2>1, BoundsAssumption DEF Once
<1>3. CASE ~CreateJob(j)
  <2>1. made'[j] = made[j]
    BY <1>3, StepOnJob DEF KeepsJob, UpdateJob, DeleteJob, Materializes, MaterializeDue
  <2> QED
    BY <1>1, <2>1 DEF Once
<1> QED
  BY <1>2, <1>3

LEMMA MadeOnceHolds == Spec => []MadeOnce
<1>1. Init => MadeOnce
  BY DEF Init, StoreInit, MadeOnce, Once
<1> QED
  BY <1>1, NextMadeOnce, TypeCorrect, PTL DEF Spec

\* No id is created twice: callers name none, or none again.
NeverReused == NamedIds = {} \/ MaxMade = 1

\* Then the invariant is about every job.
LEMMA AllDefinitions ==
    ASSUME NeverReused, TypeOK, MadeOnce, OccurrenceInv, NEW j \in JobIds
    PROVE  DefinitionInv(j)
<1>1. Once(j)
  BY DEF NeverReused, MadeOnce, Once, TypeOK, StoreTypeOK
<1> QED
  BY <1>1 DEF OccurrenceInv

(***************************************************************************)
(* StaleStaysUnsent: as long as no caller gives an id twice, nothing that  *)
(* was planned from a deleted, disabled or revised definition waits to be  *)
(* sent, whatever polls, deferrals and takeovers do to it (update_job,     *)
(* delete_job, defer_event).                                               *)
(***************************************************************************)
THEOREM StaleStaysUnsent ==
    ASSUME NeverReused
    PROVE  Spec => []StaleNeverSent
<1>1. TypeOK /\ MadeOnce /\ OccurrenceInv => StaleNeverSent
  <2> SUFFICES ASSUME TypeOK, MadeOnce, OccurrenceInv, NEW e \in EventIds,
                      events[e].status \in Unsent
               PROVE  LET j == jobs[JobOf(e)]
                      IN  j.live /\ j.rev = RevOf(e) /\ j.def = events[e].def
    BY DEF StaleNeverSent
  <2>1. JobOf(e) \in JobIds /\ e \in RecordedOf(JobOf(e))
    BY EventTypes DEF RecordedOf, Unsent
  <2>2. DefinitionInv(JobOf(e))
    BY <2>1, AllDefinitions
  <2> QED
    BY <2>1, <2>2 DEF DefinitionInv, UnsentFollows, Follows, Born
<1> QED
  BY <1>1, MadeOnceHolds, OccurrencesOnGrid, PTL

(***************************************************************************)
(* HeartbeatsMerge: as long as no caller gives an id twice, all missed     *)
(* instants of a heartbeat wait in one occurrence, also when one that was  *)
(* being sent is put back (materialize_due, defer_event, acquire_lease).   *)
(***************************************************************************)
THEOREM HeartbeatsMerge ==
    ASSUME NeverReused
    PROVE  Spec => []OnePendingHeartbeat
<1>1. TypeOK /\ MadeOnce /\ OccurrenceInv => OnePendingHeartbeat
  <2> SUFFICES ASSUME TypeOK, MadeOnce, OccurrenceInv, NEW j \in JobIds, Beats(j)
               PROVE  Cardinality(PendingOf(j)) <= 1
    BY DEF OnePendingHeartbeat, Beats
  <2>1. \A d, e \in PendingOf(j) : d = e
    BY AllDefinitions DEF DefinitionInv, OneOpen, PendingOf, RecordedOf, Open, Unsent
  <2>2. CASE PendingOf(j) = {}
    BY <2>2, FS_EmptySet
  <2>3. ASSUME NEW e \in PendingOf(j)
        PROVE  Cardinality(PendingOf(j)) <= 1
    <3>1. PendingOf(j) = {e}
      BY <2>1
    <3>2. Cardinality({e}) = 1
      BY FS_Singleton
    <3> QED
      BY <3>1, <3>2
  <2> QED
    BY <2>2, <2>3
<1> QED
  BY <1>1, MadeOnceHolds, OccurrencesOnGrid, PTL

LEMMA InvTiles ==
    ASSUME NeverReused, TypeOK, MadeOnce, OccurrenceInv
    PROVE  WindowsTile
<1>1. \A e \in Recorded : JobOf(e) \in JobIds /\ e \in RecordedOf(JobOf(e))
  BY EventTypes DEF Recorded, RecordedOf
<1>2. ASSUME NEW d \in Recorded, NEW e \in Recorded, SameDefinition(d, e), First(d) < First(e)
      PROVE  events[d].through < First(e)
  BY <1>1, <1>2, AllDefinitions DEF SameDefinition, DefinitionInv, WindowsApart
<1>3. ASSUME NEW e \in Recorded,
             jobs[JobOf(e)].live, jobs[JobOf(e)].rev = RevOf(e), jobs[JobOf(e)].due # NoDue
      PROVE  events[e].through < jobs[JobOf(e)].due
  BY <1>1, <1>3, AllDefinitions DEF DefinitionInv, CursorAhead, Follows
<1> QED
  BY <1>2, <1>3 DEF WindowsTile

LEMMA InvSkipsNothing ==
    ASSUME NeverReused, TypeOK, MadeOnce, OccurrenceInv
    PROVE  NothingSkipped
<1> SUFFICES ASSUME NEW e \in Recorded, jobs[JobOf(e)].live, jobs[JobOf(e)].rev = RevOf(e),
                    jobs[JobOf(e)].sched.type # "at"
             PROVE  \/ jobs[JobOf(e)].due = events[e].through + jobs[JobOf(e)].sched.value
                    \/ \E d \in Recorded :
                         /\ SameDefinition(d, e)
                         /\ First(d) = events[e].through + jobs[JobOf(e)].sched.value
  BY DEF NothingSkipped
<1> DEFINE j == JobOf(e)
           t == events[e].through + jobs[j].sched.value
<1>1. j \in JobIds /\ e \in RecordedOf(j) /\ DefinitionInv(j) /\ Follows(j, e)
  BY EventTypes, AllDefinitions DEF Recorded, RecordedOf, Follows
<1>2. NextIs(j, t)
  BY <1>1 DEF DefinitionInv, Unbroken
<1>3. ASSUME NEW d \in RecordedOf(j), Follows(j, d)
      PROVE  d \in Recorded /\ SameDefinition(d, e)
  <2>1. events[d].def = 1 /\ events[e].def = 1
    BY <1>1 DEF DefinitionInv, Born
  <2> QED
    BY <1>1, <1>3, <2>1 DEF Recorded, RecordedOf, SameDefinition, Follows
<1> QED
  BY <1>2, <1>3 DEF NextIs

LEMMA InvNeverCollides ==
    ASSUME NeverReused, TypeOK, MadeOnce, OccurrenceInv
    PROVE  NoCollision
<1> SUFFICES ASSUME NEW j \in JobIds, IsDue(j), events[OccurrenceId(j)].status # "absent"
             PROVE  FALSE
  BY DEF NoCollision
<1> DEFINE n == OccurrenceId(j)
<1>1. DefinitionInv(j) /\ jobs[j].live /\ jobs[j].due # NoDue
  BY AllDefinitions DEF IsDue
<1>2. jobs[j].due \in 0..MaxTime /\ jobs[j].due \in Nat /\ jobs[j].rev \in 1..MaxRev
  BY <1>1, JobTypes, WindowOf, BoundsAssumption DEF DefinitionInv
<1>3. n \in EventIds /\ JobOf(n) = j /\ RevOf(n) = jobs[j].rev /\ First(n) = jobs[j].due
  BY <1>2 DEF OccurrenceId, EventIds, JobOf, RevOf, First
<1>4. n \in RecordedOf(j) /\ Follows(j, n) /\ events[n].through \in Nat
  BY <1>1, <1>3, EventTypes DEF RecordedOf, Follows
<1>5. First(n) <= events[n].through /\ events[n].through < jobs[j].due
  BY <1>1, <1>4 DEF DefinitionInv, WindowsApart, CursorAhead
<1> QED
  BY <1>2, <1>3, <1>4, <1>5

(***************************************************************************)
(* InstantsOnce: as long as no caller gives an id twice, the windows of a  *)
(* definition tile its due instants for every schedule, however late the   *)
(* polls are and however often the clock is set back: none is sent in two  *)
(* occurrences, none is skipped, and the identity that the next one is     *)
(* recorded under is free (materialize_due, next_due, due_window).         *)
(***************************************************************************)
THEOREM InstantsOnce ==
    ASSUME NeverReused
    PROVE  Spec => []EachInstantOnce
<1>1. TypeOK /\ MadeOnce /\ OccurrenceInv => EachInstantOnce
  BY InvTiles, InvSkipsNothing, InvNeverCollides DEF EachInstantOnce
<1> QED
  BY <1>1, MadeOnceHolds, OccurrencesOnGrid, PTL
=============================================================================
