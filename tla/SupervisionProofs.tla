-------------------------- MODULE SupervisionProofs --------------------------
(***************************************************************************)
(* Supervision keeps its promises for any number of processes, candidates  *)
(* and formats, and wherever a process is lost.                            *)
(***************************************************************************)
EXTENDS SupervisionProperties, FiniteSetTheorems, TLAPS

-----------------------------------------------------------------------------
(* What the three locks, launchd's label and the files on record say of    *)
(* each other: the inductive part.                                         *)

\* A supervisor runs only under a loaded label of an installed definition, a process is
\* started directly only without one, and a switch holds all locks.
Exclusion ==
    /\ sup # "off" => job # "unloaded"
    /\ job # "unloaded" => installed
    /\ operator = "start" => ~installed
    /\ operator = "switch" => sup = "off" /\ service = "operator" /\ job = "unloaded"

\* service.lock is held by the process that is past it, or by the supervisor that cleans up.
Held == Guarded \cup {"locked"}
LockHeld ==
    /\ \A p \in Pids : phase[p] \in Held => service = p
    /\ sup = "cleaning" => service = "supervisor"

\* The child in memory is the one on record as long as one may be alive; later it is over.
Gaps == {"clean", "cleaning", "after", "loop", "fallback", "attempt", "record", "delay"}
RecordedOver == book.child # None => ~Alive(book.child)
ChildOnRecord ==
    /\ sup \in Watching \cup {"terminate"} => child = book.child
    /\ sup \in Gaps => child = None /\ RecordedOver
    /\ operator = "switch" => RecordedOver

\* Somebody waits for every process that has not come to service.lock yet.
Awaited(p) ==
    \/ operator = "start" /\ waiting = p
    \/ sup = "record" /\ process = p
    \/ book.child = p
StartsAwaited == ~lost => \A p \in Pids : phase[p] \in Unlocked => Awaited(p)

\* Once it has cleaned up, the supervisor is alone until it starts a process again.
Alone == sup \in {"after", "loop", "fallback", "attempt", "delay"}
AloneAfterCleanup == ~lost /\ Alone => \A p \in Pids : phase[p] \notin Held

OwnershipInv == Exclusion /\ LockHeld /\ ChildOnRecord /\ StartsAwaited /\ AloneAfterCleanup

\* Every start is covered by a recorded attempt, and the next one by a further attempt.
AttemptsCover ==
    /\ \A c \in Candidates : starts[c] <= book.attempts[c]
    /\ sup = "attempt" => starts[pointer.current] < book.attempts[pointer.current]

\* What was abandoned in this epoch is written off in this epoch's book.
AbandonedWrittenOff ==
    /\ abandoned # {} => book.epoch = pointer.epoch /\ abandoned \subseteq book.failed
    /\ sup = "fallback" => pointer.current \in book.failed

-----------------------------------------------------------------------------
(* Type correctness: one lemma for each thing that a step does. *)

LEMMA RecordsOfServer ==
    /\ Blank \in Runtimes
    /\ [server |-> None, prepared |-> TRUE] \in Runtimes
    /\ \A p \in Pids : [server |-> p, prepared |-> FALSE] \in Runtimes
BY DEF Blank, Runtimes

LEMMA ExecType ==
    ASSUME DaemonTypeOK, NEW p \in Pids, NEW c \in Candidates, Exec(p, c)
    PROVE  DaemonTypeOK'
BY ReleaseAssumption DEF Exec, DaemonTypeOK, Alive, Phases, Dead, Unlocked

LEMMA GoneType ==
    ASSUME DaemonTypeOK, NEW p \in Pids, NEW status \in Dead, Gone(p, status)
    PROVE  /\ phase' \in [Pids -> Phases]
           /\ code' \in [Pids -> Candidates \cup {None}]
           /\ \A q \in Pids : phase'[q] \notin Dead => code'[q] # None
           /\ view' \in [Pids -> Runtimes]
           /\ asked' \in SUBSET Pids
           /\ service' \in Pids \cup {None, "supervisor", "operator"}
BY RecordsOfServer DEF Gone, DaemonTypeOK, Alive, Phases, Dead

LEMMA AskToStopType ==
    ASSUME DaemonTypeOK, NEW p \in Pids, Alive(p), AskToStop(p),
           UNCHANGED <<runtime, natives, sockets>>
    PROVE  DaemonTypeOK'
<1>1. CASE phase[p] \in {"new", "checked"}
  <2>1. Gone(p, "none") /\ "none" \in Dead
    BY <1>1 DEF AskToStop, Dead
  <2> QED
    BY <2>1, GoneType DEF DaemonTypeOK, Alive
<1>2. CASE phase[p] \notin {"new", "checked"}
  BY <1>2 DEF AskToStop, DaemonTypeOK, Alive, Phases, Dead, Guarded
<1> QED
  BY <1>1, <1>2

LEMMA VanishType ==
    ASSUME DaemonTypeOK, NEW p \in Pids, Vanish(p)
    PROVE  DaemonTypeOK'
<1>1. Gone(p, "none") /\ "none" \in Dead
  BY DEF Vanish, Dead
<1> QED
  BY <1>1, GoneType DEF Vanish, DaemonTypeOK, Alive

LEMMA AdvanceType ==
    ASSUME DaemonTypeOK, NEW p \in Pids, NEW from \in Phases \ Dead, NEW to \in Phases,
           Advance(p, from, to), UNCHANGED code
    PROVE  /\ phase' \in [Pids -> Phases]
           /\ code' \in [Pids -> Candidates \cup {None}]
           /\ \A q \in Pids : phase'[q] \notin Dead => code'[q] # None
BY DEF Advance, DaemonTypeOK, Alive

LEMMA ShutdownType ==
    ASSUME DaemonTypeOK, NEW p \in Pids, NEW status \in Dead, Shutdown(p, status)
    PROVE  DaemonTypeOK' /\ UNCHANGED releaseVars
BY GoneType, RecordsOfServer DEF Shutdown, DaemonTypeOK, Alive, Blank

LEMMA ReleaseStutter == ReleaseTypeOK /\ UNCHANGED releaseVars => ReleaseTypeOK'
BY DEF ReleaseTypeOK, releaseVars

LEMMA DaemonStepType ==
    ASSUME ReleaseTypeOK, DaemonTypeOK, NEW p \in Pids, DaemonStep(p)
    PROVE  DaemonTypeOK' /\ UNCHANGED releaseVars
<1>p. Unlocked \cup Guarded \cup {"locked"} \subseteq Phases \ Dead
  BY DEF Phases, Unlocked, Guarded, Dead
<1>q. {"new", "checked", "loaded"} = Unlocked
      /\ {"prepared", "spawned", "bound", "ready", "leaving"} = Guarded
  BY DEF Unlocked, Guarded
<1>1. CASE CheckCurrent(p)
  <2>1. CASE code[p] = pointer.current
    BY <1>1, <1>p, <1>q, <2>1, AdvanceType DEF CheckCurrent, DaemonTypeOK, Alive
  <2>2. CASE code[p] # pointer.current
    BY <1>1, <2>2, ReleaseAssumption DEF CheckCurrent, DaemonTypeOK, ReleaseTypeOK, Alive
  <2> QED
    BY <2>1, <2>2
<1>2. CASE Construct(p)
  BY <1>2, <1>p, <1>q, AdvanceType DEF Construct, DaemonTypeOK, Alive
<1>3. CASE TakeService(p)
  BY <1>3, <1>p, <1>q, AdvanceType DEF TakeService, DaemonTypeOK, Alive
<1>4. CASE Prepare(p)
  BY <1>4, <1>p, <1>q, AdvanceType, RecordsOfServer DEF Prepare, Save, DaemonTypeOK, Alive
<1>5. CASE Spawn(p)
  BY <1>5, <1>p, <1>q, AdvanceType DEF Spawn, DaemonTypeOK, Alive
<1>6. CASE Bind(p)
  BY <1>6, <1>p, <1>q, AdvanceType, RecordsOfServer DEF Bind, Save, DaemonTypeOK, Alive
<1>7. CASE BecomeReady(p)
  BY <1>7, <1>p, <1>q, AdvanceType DEF BecomeReady, DaemonTypeOK, Alive
<1>8. CASE Leave(p)
  BY <1>8, ShutdownType DEF Leave, Dead
<1>9. CASE Fail(p)
  <2>1. "none" \in Dead
    BY DEF Dead
  <2>2. CASE Shutdown(p, "none")
    BY <2>1, <2>2, ShutdownType
  <2>3. CASE ~Shutdown(p, "none")
    BY <1>9, <2>1, <2>3, GoneType DEF Fail, DaemonTypeOK, Alive
  <2> QED
    BY <2>2, <2>3
<1> QED
  BY <1>1, <1>2, <1>3, <1>4, <1>5, <1>6, <1>7, <1>8, <1>9 DEF DaemonStep

LEMMA DaemonStutter == DaemonTypeOK /\ UNCHANGED daemonVars => DaemonTypeOK'
BY DEF DaemonTypeOK, daemonVars, Alive

LEMMA SupStutter == SupTypeOK /\ UNCHANGED supVars => SupTypeOK'
BY DEF SupTypeOK, supVars

LEMMA OperatorStutter == OperatorTypeOK /\ UNCHANGED operatorVars => OperatorTypeOK'
BY DEF OperatorTypeOK, operatorVars

LEMMA HistoryStutter == HistoryTypeOK /\ UNCHANGED ghostVars => HistoryTypeOK'
BY DEF HistoryTypeOK, ghostVars

LEMMA WriteType ==
    ASSUME SupTypeOK, NEW e \in 0..MaxEpoch \cup {None}, NEW a \in [Candidates -> 0..MaxFailures],
           NEW f \in SUBSET Candidates, Write(e, a, f)
    PROVE  /\ book' \in [epoch: 0..MaxEpoch \cup {None}, attempts: [Candidates -> 0..MaxFailures],
                         failed: SUBSET Candidates, child: Pids \cup {None}]
           /\ book'.epoch = e /\ book'.attempts = a /\ book'.failed = f /\ book'.child = child
BY DEF SupTypeOK, Write

LEMMA WriteBackType ==
    ASSUME SupTypeOK, WriteBack
    PROVE  /\ book' \in [epoch: 0..MaxEpoch \cup {None}, attempts: [Candidates -> 0..MaxFailures],
                         failed: SUBSET Candidates, child: Pids \cup {None}]
           /\ book'.epoch = book.epoch /\ book'.attempts = book.attempts
           /\ book'.failed = book.failed /\ book'.child = child
<1>1. book.epoch \in 0..MaxEpoch \cup {None} /\ book.attempts \in [Candidates -> 0..MaxFailures]
      /\ book.failed \in SUBSET Candidates
  BY DEF SupTypeOK
<1> QED
  BY <1>1, WriteType DEF WriteBack

LEMMA CountingType ==
    ASSUME ReleaseTypeOK, SupTypeOK, NEW n \in 0..MaxFailures
    PROVE  /\ Counting(n) \in [Candidates -> 0..MaxFailures]
           /\ Counting(n)[pointer.current] = n
           /\ \A c \in Candidates \ {pointer.current} : Counting(n)[c] = book.attempts[c]
BY DEF Counting, SupTypeOK, ReleaseTypeOK

LEMMA ForgiveType ==
    ASSUME ReleaseTypeOK, SupTypeOK, HistoryTypeOK, ForgiveAttempts
    PROVE  /\ book' \in [epoch: 0..MaxEpoch \cup {None}, attempts: [Candidates -> 0..MaxFailures],
                         failed: SUBSET Candidates, child: Pids \cup {None}]
           /\ book'.epoch = book.epoch /\ book'.failed = book.failed /\ book'.child = child
           /\ book'.attempts = Counting(0)
           /\ starts' \in [Candidates -> Nat]
           /\ starts' = [starts EXCEPT ![pointer.current] = 0]
<1>1. Counting(0) \in [Candidates -> 0..MaxFailures]
  BY CountingType, SupervisionAssumption
<1>2. book.epoch \in 0..MaxEpoch \cup {None} /\ book.failed \in SUBSET Candidates
  BY DEF SupTypeOK
<1>3. Write(book.epoch, Counting(0), book.failed)
      /\ starts' = [starts EXCEPT ![pointer.current] = 0]
  BY DEF ForgiveAttempts
<1>4. starts' \in [Candidates -> Nat]
  BY <1>3 DEF HistoryTypeOK
<1> QED
  BY <1>1, <1>2, <1>3, <1>4, WriteType

\* A step of the supervisor that moves to another point, or ends it.
LEMMA MoveType ==
    ASSUME SupTypeOK,
           \/ Exit
           \/ \E point \in SupPoints : Goto(point) /\ UNCHANGED <<child, process, outcome>>,
           book' \in [epoch: 0..MaxEpoch \cup {None}, attempts: [Candidates -> 0..MaxFailures],
                      failed: SUBSET Candidates, child: Pids \cup {None}]
    PROVE  SupTypeOK'
BY DEF SupTypeOK, Exit, Goto, SupPoints, Outcomes

LEMMA PointsInUse ==
    /\ {"terminate", "clean", "cleaning", "after", "loop", "fallback", "attempt", "record",
        "watch", "ready", "healthy", "delay"} \subseteq SupPoints
    /\ {"boot", "stopped", "failed", "error"} = Outcomes
BY DEF SupPoints, Outcomes

\* What a step of the supervisor may change apart from its own variables.
LEMMA SupervisorStepType ==
    ASSUME TypeOK, SupervisorStep
    PROVE  TypeOK'
<1>t. ReleaseTypeOK /\ DaemonTypeOK /\ SupTypeOK /\ OperatorTypeOK /\ HistoryTypeOK
  BY DEF TypeOK
<1>b. book \in [epoch: 0..MaxEpoch \cup {None}, attempts: [Candidates -> 0..MaxFailures],
                failed: SUBSET Candidates, child: Pids \cup {None}]
  BY <1>t DEF SupTypeOK
<1>1. CASE AskChild
  <2>1. DaemonTypeOK'
    BY <1>1, <1>t, AskToStopType DEF AskChild, SupTypeOK
  <2> QED
    BY <1>1, <1>t, <2>1, ReleaseStutter, SupStutter, OperatorStutter, HistoryStutter
       DEF AskChild, TypeOK
<1>2. CASE KillChild
  <2>1. DaemonTypeOK'
    BY <1>2, <1>t, VanishType DEF KillChild, SupTypeOK
  <2> QED
    BY <1>2, <1>t, <2>1, ReleaseStutter, SupStutter, OperatorStutter, HistoryStutter
       DEF KillChild, TypeOK
<1>3. CASE ChildGone
  <2>1. DaemonTypeOK'
    <3>1. "none" \in Phases \cap Dead
      BY DEF Phases, Dead
    <3>2. \A q \in Pids : phase'[q] = "none" \/ phase'[q] = phase[q]
      BY <1>3, <1>t DEF ChildGone
    <3>3. phase' \in [Pids -> Phases]
      BY <1>3, <1>t, <3>1 DEF ChildGone, DaemonTypeOK
    <3> QED
      BY <1>3, <1>t, <3>1, <3>2, <3>3 DEF ChildGone, DaemonTypeOK, Alive
  <2>2. SupTypeOK'
    BY <1>3, <1>t, PointsInUse DEF ChildGone, Goto, SupTypeOK
  <2> QED
    BY <1>3, <1>t, <2>1, <2>2, ReleaseStutter, OperatorStutter, HistoryStutter
       DEF ChildGone, TypeOK
<1>4. CASE CleanOrphan
  <2>1. DaemonTypeOK'
    BY <1>4, <1>t DEF CleanOrphan, DaemonTypeOK, Alive
  <2>2. SupTypeOK'
    BY <1>4, <1>t, <1>b, MoveType, PointsInUse DEF CleanOrphan
  <2> QED
    BY <1>4, <1>t, <2>1, <2>2, ReleaseStutter, OperatorStutter, HistoryStutter
       DEF CleanOrphan, TypeOK
<1>5. CASE Cleaned
  <2>1. DaemonTypeOK'
    <3>1. runtime' \in Runtimes
      BY <1>5, <1>t DEF Cleaned, DaemonTypeOK, Runtimes
    <3> QED
      BY <1>5, <1>t, <3>1 DEF Cleaned, DaemonTypeOK, Alive
  <2>2. SupTypeOK'
    BY <1>5, <1>t, <1>b, MoveType, PointsInUse DEF Cleaned
  <2> QED
    BY <1>5, <1>t, <2>1, <2>2, ReleaseStutter, OperatorStutter, HistoryStutter DEF Cleaned, TypeOK
<1>6. CASE AfterCleanup
  <2>1. SupTypeOK' /\ starts' \in [Candidates -> Nat]
    <3>1. CASE EndWithError
      BY <1>t, <1>b, <3>1, MoveType DEF EndWithError, HistoryTypeOK
    <3>2. CASE EndStopped
      BY <1>t, <3>2, MoveType, ForgiveType DEF EndStopped
    <3>3. CASE WaitToRetry
      BY <1>t, <3>3, MoveType, WriteBackType, PointsInUse DEF WaitToRetry, HistoryTypeOK
    <3> QED
      BY <1>6, <3>1, <3>2, <3>3 DEF AfterCleanup
  <2>2. HistoryTypeOK'
    BY <1>6, <1>t, <2>1 DEF AfterCleanup, HistoryTypeOK
  <2> QED
    BY <1>6, <1>t, <2>1, <2>2, ReleaseStutter, DaemonStutter, OperatorStutter DEF AfterCleanup, TypeOK
<1>7. CASE RetryDelay
  <2>1. SupTypeOK' /\ starts' \in [Candidates -> Nat]
    <3>1. CASE stopping
      BY <1>7, <1>t, <3>1, MoveType, ForgiveType DEF RetryDelay
    <3>2. CASE ~stopping
      BY <1>7, <1>t, <1>b, <3>2, MoveType, PointsInUse DEF RetryDelay, HistoryTypeOK
    <3> QED
      BY <3>1, <3>2
  <2>2. HistoryTypeOK'
    BY <1>7, <1>t, <2>1 DEF RetryDelay, HistoryTypeOK
  <2> QED
    BY <1>7, <1>t, <2>1, <2>2, ReleaseStutter, DaemonStutter, OperatorStutter DEF RetryDelay, TypeOK
<1>8. CASE StopInLoop \/ Blocked
  <2>1. SupTypeOK'
    BY <1>8, <1>t, MoveType, WriteBackType DEF StopInLoop, Blocked
  <2> QED
    BY <1>8, <1>t, <2>1, ReleaseStutter, DaemonStutter, OperatorStutter, HistoryStutter
       DEF StopInLoop, Blocked, TypeOK
<1>9. CASE ObserveActivation
  <2>1. NoAttempts \in [Candidates -> 0..MaxFailures] /\ NoAttempts \in [Candidates -> Nat]
    BY SupervisionAssumption DEF NoAttempts
  <2>2. pointer.epoch \in 0..MaxEpoch \cup {None}
    BY <1>t DEF ReleaseTypeOK
  <2>w. {} \in SUBSET Candidates /\ Write(pointer.epoch, NoAttempts, {})
        /\ UNCHANGED <<job, sup, stopping, child, process, outcome>>
    BY <1>9 DEF ObserveActivation
  <2>3. SupTypeOK'
    BY <1>t, <2>1, <2>2, <2>w, WriteType DEF SupTypeOK
  <2>4. HistoryTypeOK'
    BY <1>9, <1>t, <2>1 DEF ObserveActivation, HistoryTypeOK
  <2> QED
    BY <1>9, <1>t, <2>3, <2>4, ReleaseStutter, DaemonStutter, OperatorStutter
       DEF ObserveActivation, TypeOK
<1>10. CASE WriteOff
  <2>1. /\ book.epoch \in 0..MaxEpoch \cup {None} /\ book.attempts \in [Candidates -> 0..MaxFailures]
        /\ (book.failed \cup {pointer.current}) \in SUBSET Candidates
    BY <1>t DEF ReleaseTypeOK, SupTypeOK
  <2>2. SupTypeOK'
    BY <1>10, <1>t, <2>1, MoveType, WriteType, PointsInUse DEF WriteOff
  <2> QED
    BY <1>10, <1>t, <2>2, ReleaseStutter, DaemonStutter, OperatorStutter, HistoryStutter
       DEF WriteOff, TypeOK
<1>11. CASE FallBack
  <2>1. SupTypeOK'
    BY <1>11, <1>t, MoveType, WriteBackType, PointsInUse DEF FallBack
  <2>2. ReleaseTypeOK' /\ HistoryTypeOK'
    <3>1. CASE CanFallBack(pointer.current, book.failed, book.epoch)
      BY <1>11, <1>t, <3>1 DEF FallBack, AutomaticRollback, CanFallBack, Point,
         ReleaseTypeOK, HistoryTypeOK
    <3>2. CASE ~CanFallBack(pointer.current, book.failed, book.epoch)
      BY <1>11, <1>t, <3>2 DEF FallBack, ReleaseTypeOK, HistoryTypeOK
    <3> QED
      BY <3>1, <3>2
  <2> QED
    BY <1>11, <1>t, <2>1, <2>2, DaemonStutter, OperatorStutter DEF FallBack, TypeOK
<1>12. CASE RecordAttempt
  <2>1. /\ book.epoch \in 0..MaxEpoch \cup {None} /\ book.failed \in SUBSET Candidates
        /\ book.attempts[pointer.current] \in 0..MaxFailures
    BY <1>t DEF ReleaseTypeOK, SupTypeOK
  <2>2. book.attempts[pointer.current] + 1 \in 0..MaxFailures
    BY <1>12, <2>1, SupervisionAssumption DEF RecordAttempt, Refused
  <2>3. Counting(book.attempts[pointer.current] + 1) \in [Candidates -> 0..MaxFailures]
    BY <1>t, <2>2, CountingType
  <2>4. SupTypeOK'
    BY <1>12, <1>t, <2>1, <2>3, MoveType, WriteType, PointsInUse DEF RecordAttempt
  <2> QED
    BY <1>12, <1>t, <2>4, ReleaseStutter, DaemonStutter, OperatorStutter, HistoryStutter
       DEF RecordAttempt, TypeOK
<1>13. CASE SpawnChild
  <2>1. pointer.current \in Candidates
    BY <1>t DEF ReleaseTypeOK
  <2>2. PICK p \in Pids : Exec(p, pointer.current) /\ process' = p
    BY <1>13 DEF SpawnChild
  <2>3. DaemonTypeOK'
    BY <1>t, <2>1, <2>2, ExecType
  <2>4. SupTypeOK'
    BY <1>13, <1>t, <2>2, PointsInUse DEF SpawnChild, Goto, SupTypeOK
  <2>5. HistoryTypeOK'
    BY <1>13, <1>t, <2>1 DEF SpawnChild, HistoryTypeOK
  <2> QED
    BY <1>13, <1>t, <2>3, <2>4, <2>5, ReleaseStutter, OperatorStutter DEF SpawnChild, TypeOK
<1>14. CASE SpawnFails
  <2>1. SupTypeOK'
    BY <1>14, <1>t, WriteBackType, PointsInUse DEF SpawnFails, Goto, SupTypeOK
  <2> QED
    BY <1>14, <1>t, <2>1, ReleaseStutter, DaemonStutter, OperatorStutter, HistoryStutter
       DEF SpawnFails, TypeOK
<1>15. CASE RecordChild
  <2>1. child' \in Pids \cup {None}
    BY <1>15, <1>t DEF RecordChild, SupTypeOK
  <2>2. SupTypeOK'
    BY <1>15, <1>t, <2>1, PointsInUse DEF RecordChild, Goto, SupTypeOK
  <2> QED
    BY <1>15, <1>t, <2>2, ReleaseStutter, DaemonStutter, OperatorStutter, HistoryStutter
       DEF RecordChild, TypeOK
<1>16. CASE StopSeen \/ ChildExited \/ DeadlinePassed \/ OtherAnswers
  <2>1. PICK how \in Outcomes : Ends(how)
    BY <1>16, PointsInUse DEF StopSeen, ChildExited, DeadlinePassed, OtherAnswers
  <2>2. SupTypeOK'
    BY <1>t, <2>1, PointsInUse DEF Ends, Goto, SupTypeOK
  <2> QED
    BY <1>t, <2>1, <2>2, ReleaseStutter, DaemonStutter, OperatorStutter, HistoryStutter
       DEF Ends, TypeOK
<1>17. CASE ObserveReady
  <2>1. SupTypeOK'
    BY <1>17, <1>t, MoveType, WriteBackType, PointsInUse DEF ObserveReady
  <2> QED
    BY <1>17, <1>t, <2>1, ReleaseStutter, DaemonStutter, OperatorStutter, HistoryStutter
       DEF ObserveReady, TypeOK
<1>18. CASE StayedHealthy
  <2>1. SupTypeOK'
    BY <1>18, <1>t, MoveType, ForgiveType, PointsInUse DEF StayedHealthy
  <2>2. HistoryTypeOK'
    BY <1>18, <1>t, ForgiveType DEF StayedHealthy, HistoryTypeOK
  <2> QED
    BY <1>18, <1>t, <2>1, <2>2, ReleaseStutter, DaemonStutter, OperatorStutter
       DEF StayedHealthy, TypeOK
<1> QED
  BY <1>1, <1>2, <1>3, <1>4, <1>5, <1>6, <1>7, <1>8, <1>9, <1>10, <1>11, <1>12, <1>13, <1>14,
     <1>15, <1>16, <1>17, <1>18 DEF SupervisorStep

LEMMA FaultType ==
    ASSUME HistoryTypeOK, Fault, UNCHANGED <<starts, abandoned, direct>>, lost' \in BOOLEAN
    PROVE  HistoryTypeOK'
BY SupervisionAssumption DEF HistoryTypeOK, Fault

LEMMA SupervisorLostType ==
    ASSUME TypeOK, SupervisorLost
    PROVE  TypeOK'
<1>t. ReleaseTypeOK /\ DaemonTypeOK /\ SupTypeOK /\ OperatorTypeOK /\ HistoryTypeOK
  BY DEF TypeOK
<1>1. DaemonTypeOK'
  BY <1>t DEF SupervisorLost, DaemonTypeOK, Alive
<1>2. SupTypeOK'
  BY <1>t DEF SupervisorLost, SupTypeOK, SupPoints, Outcomes
<1>3. lost' \in BOOLEAN
  BY ONLY SupervisorLost, Zenon DEF SupervisorLost
<1>4. HistoryTypeOK'
  BY <1>t, <1>3, FaultType DEF SupervisorLost
<1> QED
  BY <1>t, <1>1, <1>2, <1>4, ReleaseStutter, OperatorStutter DEF SupervisorLost, TypeOK

LEMMA PointType ==
    ASSUME ReleaseTypeOK, NEW c \in Candidates, NEW before \in Candidates \cup {None},
           NEW e \in 0..MaxEpoch, Point(c, before, e), UNCHANGED <<intact, data, installed, bootCaps>>
    PROVE  ReleaseTypeOK'
BY DEF Point, ReleaseTypeOK

LEMMA SwitchType ==
    ASSUME ReleaseTypeOK, (\E c \in Candidates : Activate(c)) \/ Rollback,
           UNCHANGED <<intact, data, installed, bootCaps>>
    PROVE  ReleaseTypeOK'
<1>1. pointer.epoch < MaxEpoch => pointer.epoch + 1 \in 0..MaxEpoch
  BY ReleaseAssumption DEF ReleaseTypeOK
<1>2. pointer.current \in Candidates /\ pointer.previous \in Candidates \cup {None}
  BY DEF ReleaseTypeOK
<1>3. ASSUME NEW c \in Candidates, Activate(c)
      PROVE  ReleaseTypeOK'
  BY <1>1, <1>2, <1>3, PointType DEF Activate
<1>4. CASE Rollback
  BY <1>1, <1>2, <1>4, PointType DEF Rollback
<1> QED
  BY <1>3, <1>4

LEMMA OperatorStepType ==
    ASSUME TypeOK, OperatorStep
    PROVE  TypeOK'
<1>t. ReleaseTypeOK /\ DaemonTypeOK /\ SupTypeOK /\ OperatorTypeOK /\ HistoryTypeOK
  BY DEF TypeOK
<1>c. Commands = {"none", "start", "stop", "uninstall", "switch"}
  BY DEF Commands
<1>1. CASE StartService
  <2>1. PICK p \in Pids : Exec(p, pointer.current) /\ waiting' = p
    BY <1>1 DEF StartService
  <2>2. DaemonTypeOK'
    BY <1>t, <2>1, ExecType DEF ReleaseTypeOK
  <2>3. OperatorTypeOK'
    BY <1>1, <1>c, <2>1 DEF StartService, OperatorTypeOK
  <2>4. HistoryTypeOK'
    BY <1>1, <1>t, SupervisionAssumption DEF StartService, HistoryTypeOK
  <2>5. ReleaseTypeOK' /\ SupTypeOK'
    BY <1>1, <1>t, ReleaseStutter, SupStutter DEF StartService, SupKept, supVars
  <2> QED
    BY <2>2, <2>3, <2>4, <2>5 DEF TypeOK
<1>2. CASE StartReturns
  <2>1. OperatorTypeOK'
    BY <1>2, <1>c DEF StartReturns, OperatorTypeOK
  <2>2. lost' \in BOOLEAN
    BY ONLY StartReturns, <1>2, Zenon DEF StartReturns
  <2>3. HistoryTypeOK'
    BY <1>2, <1>t, <2>2, FaultType DEF StartReturns, HistoryTypeOK
  <2>4. ReleaseTypeOK' /\ DaemonTypeOK' /\ SupTypeOK'
    BY <1>2, <1>t, ReleaseStutter, DaemonStutter, SupStutter DEF StartReturns, SupKept, supVars
  <2> QED
    BY <2>1, <2>3, <2>4 DEF TypeOK
<1>3. ASSUME NEW p \in Pids, RequestShutdown(p)
      PROVE  TypeOK'
  <2>1. Alive(p)
    BY <1>3 DEF RequestShutdown, Answering, Ready, Alive, Dead
  <2>2. DaemonTypeOK'
    BY <1>3, <1>t, <2>1, AskToStopType DEF RequestShutdown
  <2>3. ReleaseTypeOK' /\ SupTypeOK' /\ OperatorTypeOK' /\ HistoryTypeOK'
    BY <1>3, <1>t, ReleaseStutter, SupStutter, OperatorStutter, HistoryStutter
       DEF RequestShutdown, SupKept, supVars
  <2> QED
    BY <2>2, <2>3 DEF TypeOK
<1>4. CASE StartSupervised
  <2>1. SupTypeOK'
    BY <1>4, <1>t DEF StartSupervised, SupTypeOK
  <2> QED
    BY <1>4, <1>t, <2>1, ReleaseStutter, DaemonStutter, OperatorStutter, HistoryStutter
       DEF StartSupervised, TypeOK
<1>5. ASSUME NEW command \in Commands, StopSupervised(command)
      PROVE  TypeOK'
  <2>1. stopping' \in BOOLEAN
    BY ONLY StopSupervised(command), <1>5, Zenon DEF StopSupervised
  <2>2. SupTypeOK'
    BY <1>5, <1>t, <2>1 DEF StopSupervised, SupTypeOK
  <2>3. OperatorTypeOK'
    BY <1>5, <1>t DEF StopSupervised, OperatorTypeOK
  <2> QED
    BY <1>5, <1>t, <2>2, <2>3, ReleaseStutter, DaemonStutter, HistoryStutter
       DEF StopSupervised, TypeOK
<1>6. CASE StopConfirmed
  <2>1. SupTypeOK' /\ OperatorTypeOK'
    BY <1>6, <1>t, <1>c DEF StopConfirmed, SupTypeOK, OperatorTypeOK
  <2>2. ReleaseTypeOK'
    BY <1>6, <1>t DEF StopConfirmed, ReleaseTypeOK
  <2> QED
    BY <1>6, <1>t, <2>1, <2>2, DaemonStutter, HistoryStutter DEF StopConfirmed, TypeOK
<1>7. CASE StopUnconfirmed
  <2>1. OperatorTypeOK' /\ SupTypeOK'
    BY <1>7, <1>t, <1>c, SupStutter DEF StopUnconfirmed, SupKept, supVars, OperatorTypeOK
  <2> QED
    BY <1>7, <1>t, <2>1, ReleaseStutter, DaemonStutter, HistoryStutter DEF StopUnconfirmed, TypeOK
<1>8. CASE Install
  <2>1. Caps[pointer.current] \in SUBSET Formats
    BY <1>t, ReleaseAssumption DEF ReleaseTypeOK
  <2>2. ReleaseTypeOK' /\ SupTypeOK'
    BY <1>8, <1>t, <2>1 DEF Install, ReleaseTypeOK, SupTypeOK
  <2> QED
    BY <1>8, <1>t, <2>2, DaemonStutter, OperatorStutter, HistoryStutter DEF Install, TypeOK
<1>9. CASE BeginSwitch
  <2>1. DaemonTypeOK' /\ OperatorTypeOK'
    BY <1>9, <1>t, <1>c DEF BeginSwitch, DaemonTypeOK, OperatorTypeOK, Alive
  <2>2. SupTypeOK'
    BY <1>9, <1>t, SupStutter DEF BeginSwitch, SupKept, supVars
  <2> QED
    BY <1>9, <1>t, <2>1, <2>2, ReleaseStutter, HistoryStutter DEF BeginSwitch, TypeOK
<1>10. CASE EndSwitch
  <2>1. DaemonTypeOK' /\ OperatorTypeOK'
    BY <1>10, <1>t, <1>c DEF EndSwitch, DaemonTypeOK, OperatorTypeOK, Alive
  <2>2. SupTypeOK'
    BY <1>10, <1>t, SupStutter DEF EndSwitch, SupKept, supVars
  <2>3. HistoryTypeOK'
    BY <1>10, <1>t DEF EndSwitch, HistoryTypeOK
  <2>4. ReleaseTypeOK'
    BY <1>10, <1>t, SwitchType, ReleaseStutter DEF EndSwitch, releaseVars
  <2> QED
    BY <2>1, <2>2, <2>3, <2>4 DEF TypeOK
<1> QED
  BY <1>1, <1>2, <1>3, <1>4, <1>5, <1>6, <1>7, <1>8, <1>9, <1>10 DEF OperatorStep

LEMMA MishapType ==
    ASSUME TypeOK, Mishap
    PROVE  TypeOK'
<1>t. ReleaseTypeOK /\ DaemonTypeOK /\ SupTypeOK /\ OperatorTypeOK /\ HistoryTypeOK
  BY DEF TypeOK
<1>1. ReleaseTypeOK' /\ DaemonTypeOK'
  <2>1. ASSUME NEW c \in Candidates, Damage(c), UNCHANGED daemonVars
        PROVE  ReleaseTypeOK' /\ DaemonTypeOK'
    BY <1>t, <2>1, DaemonStutter DEF Damage, ReleaseTypeOK
  <2>2. ASSUME NEW p \in Pids, Vanish(p), UNCHANGED releaseVars
        PROVE  ReleaseTypeOK' /\ DaemonTypeOK'
    BY <1>t, <2>2, VanishType, ReleaseStutter
  <2> QED
    BY <2>1, <2>2 DEF Mishap
<1>2. HistoryTypeOK'
  BY <1>t, FaultType DEF Mishap, HistoryTypeOK
<1> QED
  BY <1>t, <1>1, <1>2, SupStutter, OperatorStutter DEF Mishap, TypeOK

LEMMA LaunchType ==
    ASSUME TypeOK, Launch
    PROVE  TypeOK'
<1>t. ReleaseTypeOK /\ DaemonTypeOK /\ SupTypeOK /\ OperatorTypeOK /\ HistoryTypeOK
  BY DEF TypeOK
<1>1. SupTypeOK'
  BY <1>t, PointsInUse DEF Launch, SupTypeOK
<1> QED
  BY <1>t, <1>1, ReleaseStutter, DaemonStutter, OperatorStutter, HistoryStutter DEF Launch, TypeOK

LEMMA OthersType ==
    ASSUME TypeOK, ReleaseTypeOK', DaemonTypeOK', Others
    PROVE  TypeOK'
BY SupStutter, OperatorStutter, HistoryStutter DEF Others, TypeOK

LEMMA TypeStep == TypeOK /\ [Next]_vars => TypeOK'
<1> SUFFICES ASSUME TypeOK, [Next]_vars PROVE TypeOK'
  OBVIOUS
<1>t. ReleaseTypeOK /\ DaemonTypeOK /\ SupTypeOK /\ OperatorTypeOK /\ HistoryTypeOK
  BY DEF TypeOK
<1>1. CASE Launch \/ SupervisorStep \/ SupervisorLost \/ OperatorStep \/ Mishap
  BY <1>1, LaunchType, SupervisorStepType, SupervisorLostType, OperatorStepType, MishapType
<1>2. CASE Uses
  <2>1. PICK p \in Pids, f \in Formats : Introduce(p, f) /\ Others
    BY <1>2 DEF Uses
  <2>2. ReleaseTypeOK' /\ DaemonTypeOK'
    BY <1>t, <2>1, DaemonStutter DEF Introduce, ReleaseTypeOK
  <2> QED
    BY <2>1, <2>2, OthersType
<1>3. ASSUME NEW p \in Pids, Runs(p)
      PROVE  TypeOK'
  BY <1>t, <1>3, DaemonStepType, ReleaseStutter, OthersType DEF Runs
<1>4. CASE UNCHANGED vars
  BY <1>t, <1>4, ReleaseStutter, DaemonStutter, SupStutter, OperatorStutter, HistoryStutter
     DEF vars, TypeOK
<1> QED
  BY <1>1, <1>2, <1>3, <1>4 DEF Next

LEMMA TypeInit == Init => TypeOK
<1> SUFFICES ASSUME Init PROVE TypeOK
  OBVIOUS
<1>1. ReleaseTypeOK
  <2>1. PICK c \in Candidates, other \in Candidates \cup {None} :
               pointer = [current |-> c, previous |-> other, epoch |-> 0]
    BY DEF Init, ReleaseInit
  <2>2. pointer \in [current: Candidates, previous: Candidates \cup {None}, epoch: 0..MaxEpoch]
    BY <2>1, ReleaseAssumption
  <2>3. intact = Candidates /\ data = {} /\ installed = FALSE /\ bootCaps = {}
    BY DEF Init, ReleaseInit
  <2> QED
    BY <2>2, <2>3 DEF ReleaseTypeOK
<1>2. DaemonTypeOK
  <2>1. DaemonInit /\ "none" \in Phases \cap Dead
    BY DEF Init, Phases, Dead
  <2> QED
    BY <2>1, RecordsOfServer DEF DaemonInit, DaemonTypeOK, Alive
<1>3. SupTypeOK
  <2>1. NoAttempts \in [Candidates -> 0..MaxFailures]
    BY SupervisionAssumption DEF NoAttempts
  <2>2. /\ job = "unloaded" /\ sup = "off" /\ stopping = FALSE /\ child = None
        /\ process = None /\ outcome = "boot"
        /\ book = [epoch |-> None, attempts |-> NoAttempts, failed |-> {}, child |-> None]
    BY DEF Init
  <2> QED
    BY <2>1, <2>2 DEF SupTypeOK, SupPoints, Outcomes
<1>4. OperatorTypeOK /\ HistoryTypeOK
  <2>1. NoAttempts \in [Candidates -> Nat]
    BY DEF NoAttempts
  <2>2. /\ operator = "none" /\ waiting = None /\ faults = 0 /\ starts = NoAttempts
        /\ abandoned = {} /\ direct = 0 /\ lost = FALSE
    BY DEF Init
  <2>3. 0 \in 0..MaxFaults /\ 0 \in 0..MaxDirect
    BY SupervisionAssumption
  <2> QED
    BY <2>1, <2>2, <2>3 DEF OperatorTypeOK, HistoryTypeOK, Commands
<1> QED
  BY <1>1, <1>2, <1>3, <1>4 DEF TypeOK

(***************************************************************************)
(* The pointer, runtime.json, the supervisor's book and the state of every *)
(* process stay within their types through every step of the supervisor,   *)
(* the service and the operator's commands.                                *)
(***************************************************************************)
THEOREM SupervisionTypes == Spec => []TypeOK
BY TypeInit, TypeStep, PTL DEF Spec

-----------------------------------------------------------------------------
(* Who owns what: the locks, the recorded child and the starters. *)

\* What a step of one process may do to its phase, its code and service.lock.
MovesOn(p) ==
    /\ \A q \in Pids \ {p} : phase'[q] = phase[q] /\ code'[q] = code[q]
    /\ \/ phase'[p] \in Dead /\ service' = IF service = p THEN None ELSE service
       \/ phase[p] \in Unlocked /\ phase'[p] \in Unlocked /\ service' = service
       \/ phase[p] \in Unlocked /\ phase'[p] = "locked" /\ service = None /\ service' = p
       \/ phase[p] \in Held /\ phase'[p] \in Held /\ service' = service
    /\ phase'[p] \notin Dead \cup {"new"} =>
           \/ phase[p] \notin Dead \cup {"new"} /\ code'[p] = code[p]
           \/ code'[p] = pointer.current

LEMMA PhasesSplit ==
    /\ Phases = Dead \cup Unlocked \cup Held
    /\ Dead \cap Unlocked = {} /\ Dead \cap Held = {} /\ Unlocked \cap Held = {}
    /\ "new" \in Unlocked /\ "locked" \in Held
BY DEF Phases, Dead, Unlocked, Held, Guarded

LEMMA GoneMoves ==
    ASSUME DaemonTypeOK, NEW p \in Pids, NEW status \in Dead, Gone(p, status)
    PROVE  MovesOn(p)
BY DEF Gone, DaemonTypeOK, MovesOn

LEMMA AskedMoves ==
    ASSUME DaemonTypeOK, NEW p \in Pids, Alive(p), AskToStop(p)
    PROVE  MovesOn(p)
<1>1. CASE phase[p] \in {"new", "checked"}
  BY <1>1, GoneMoves DEF AskToStop, Dead
<1>2. CASE phase[p] \notin {"new", "checked"}
  <2>1. /\ \A q \in Pids \ {p} : phase'[q] = phase[q]
        /\ phase'[p] = IF phase[p] = "ready" THEN "leaving" ELSE phase[p]
        /\ UNCHANGED <<code, service>>
    BY <1>2 DEF AskToStop, DaemonTypeOK
  <2>2. phase[p] \in Unlocked \cup Held /\ phase[p] # "new"
    BY <1>2, PhasesSplit DEF DaemonTypeOK, Alive
  <2>3. {"ready", "leaving"} \subseteq Held \ Unlocked
    BY DEF Held, Guarded, Unlocked
  <2> QED
    BY <2>1, <2>2, <2>3, PhasesSplit DEF MovesOn
<1> QED
  BY <1>1, <1>2

LEMMA StepMoves ==
    ASSUME DaemonTypeOK, NEW p \in Pids, DaemonStep(p)
    PROVE  MovesOn(p)
<1>1. CASE CheckCurrent(p)
  BY <1>1, PhasesSplit DEF CheckCurrent, Advance, DaemonTypeOK, MovesOn, Unlocked, Dead
<1>2. CASE Construct(p)
  BY <1>2, PhasesSplit DEF Construct, Advance, DaemonTypeOK, MovesOn, Unlocked, Dead
<1>3. CASE TakeService(p)
  BY <1>3, PhasesSplit DEF TakeService, Advance, DaemonTypeOK, MovesOn, Unlocked, Dead
<1>4. CASE Prepare(p) \/ Spawn(p) \/ Bind(p) \/ BecomeReady(p)
  <2>1. PICK from, to \in Held : Advance(p, from, to) /\ UNCHANGED <<code, service>>
    BY <1>4 DEF Prepare, Spawn, Bind, BecomeReady, Held, Guarded
  <2>2. phase[p] \in Held /\ phase'[p] \in Held /\ \A q \in Pids \ {p} : phase'[q] = phase[q]
    BY <2>1 DEF Advance, DaemonTypeOK
  <2> QED
    BY <2>1, <2>2, PhasesSplit DEF MovesOn
<1>5. CASE Leave(p) \/ Fail(p)
  <2>1. PICK status \in Dead : Gone(p, status)
    BY <1>5 DEF Leave, Fail, Shutdown, Dead
  <2> QED
    BY <2>1, GoneMoves
<1> QED
  BY <1>1, <1>2, <1>3, <1>4, <1>5 DEF DaemonStep

LEMMA VanishMoves ==
    ASSUME DaemonTypeOK, NEW p \in Pids, Vanish(p)
    PROVE  MovesOn(p)
BY GoneMoves DEF Vanish, Dead

LEMMA ChildBook == TypeOK => book.child \in Pids \cup {None}
BY DEF TypeOK, SupTypeOK

\* While the supervisor is alone or cleans up, or a switch goes on, no process is left.
LEMMA NobodyLeft ==
    ASSUME TypeOK, OwnershipInv, ~lost, Alone \/ sup = "cleaning" \/ operator = "switch",
           NEW p \in Pids
    PROVE  ~Alive(p)
<1>1. phase[p] \in Phases
  BY DEF TypeOK, DaemonTypeOK
<1>2. CASE phase[p] \in Held
  <2>1. CASE Alone
    BY <1>2, <2>1 DEF OwnershipInv, AloneAfterCleanup
  <2>2. CASE operator = "switch" \/ sup = "cleaning"
    BY <1>2, <2>2, PidAssumption DEF OwnershipInv, Exclusion, LockHeld
  <2> QED
    BY <2>1, <2>2
<1>3. CASE phase[p] \in Unlocked
  <2>1. Awaited(p)
    BY <1>3 DEF OwnershipInv, StartsAwaited
  <2>2. operator # "start" /\ sup # "record" /\ RecordedOver
    BY DEF OwnershipInv, Exclusion, ChildOnRecord, Alone, Gaps
  <2>3. book.child = p
    BY <2>1, <2>2 DEF Awaited
  <2> QED
    BY <2>2, <2>3, PidAssumption DEF RecordedOver
<1> QED
  BY <1>1, <1>2, <1>3, PhasesSplit DEF Alive

LEMMA ProcessKeepsOwnership ==
    ASSUME TypeOK, OwnershipInv, RunsCurrent, NEW p \in Pids, MovesOn(p),
           UNCHANGED <<pointer, installed, supVars, operatorVars, lost>>
    PROVE  OwnershipInv' /\ RunsCurrent'
<1>u. UNCHANGED <<pointer, installed, job, sup, book, child, process, operator, waiting, lost>>
  BY DEF supVars, operatorVars
<1>1. Exclusion'
  BY <1>u, PidAssumption DEF OwnershipInv, Exclusion, MovesOn
<1>2. LockHeld'
  BY <1>u, PidAssumption, PhasesSplit DEF OwnershipInv, LockHeld, MovesOn
<1>3. ChildOnRecord'
  <2>1. RecordedOver => RecordedOver'
    BY <1>u, ChildBook, PhasesSplit DEF RecordedOver, Alive, MovesOn
  <2> QED
    BY <1>u, <2>1 DEF OwnershipInv, ChildOnRecord
<1>4. StartsAwaited'
  BY <1>u, PhasesSplit DEF OwnershipInv, StartsAwaited, Awaited, MovesOn
<1>5. AloneAfterCleanup'
  BY <1>u, NobodyLeft, PhasesSplit DEF OwnershipInv, AloneAfterCleanup, Alone, MovesOn, Alive
<1>6. RunsCurrent'
  BY <1>u, PhasesSplit DEF RunsCurrent, SwitchSerialized, Alive, MovesOn
<1> QED
  BY <1>1, <1>2, <1>3, <1>4, <1>5, <1>6 DEF OwnershipInv

\* A step between two cleanups that leaves all processes alone.
LEMMA AloneKeepsOwnership ==
    ASSUME TypeOK, OwnershipInv, Alone,
           sup' \in {"off"} \cup (Gaps \ {"clean", "cleaning", "record"}),
           child' = None, book'.child \in {book.child, None},
           UNCHANGED <<phase, code, service, installed, job, operator, waiting, lost>>
    PROVE  OwnershipInv' /\ RunsCurrent'
<1>g. Alone' \/ sup' = "off"
  BY DEF Alone, Gaps
<1>1. Exclusion' /\ LockHeld'
  BY <1>g DEF OwnershipInv, Exclusion, LockHeld, Alone
<1>2. ChildOnRecord'
  <2>1. RecordedOver /\ operator # "switch" /\ sup' \notin Watching \cup {"terminate"}
    BY <1>g DEF OwnershipInv, ChildOnRecord, Exclusion, Alone, Gaps, Watching
  <2>2. RecordedOver'
    BY <2>1 DEF RecordedOver, Alive
  <2> QED
    BY <2>1, <2>2 DEF ChildOnRecord
<1>3. ~lost => \A p \in Pids : ~Alive(p)
  BY NobodyLeft
<1>4. StartsAwaited' /\ AloneAfterCleanup' /\ RunsCurrent'
  BY <1>3, PhasesSplit DEF StartsAwaited, AloneAfterCleanup, RunsCurrent, SwitchSerialized, Alive
<1> QED
  BY <1>1, <1>2, <1>4 DEF OwnershipInv

LEMMA WriteChild ==
    ASSUME NEW e, NEW a, NEW f, Write(e, a, f)
    PROVE  book'.child = child
BY DEF Write

LEMMA WriteBackChild == WriteBack => book'.child = child
BY DEF WriteBack, Write

LEMMA SupervisorKeepsOwnership ==
    ASSUME TypeOK, OwnershipInv, RunsCurrent, SupervisorStep
    PROVE  OwnershipInv' /\ RunsCurrent'
<1>t. DaemonTypeOK /\ SupTypeOK
  BY DEF TypeOK
<1>i. Exclusion /\ LockHeld /\ ChildOnRecord /\ StartsAwaited /\ AloneAfterCleanup
  BY DEF OwnershipInv
<1>a. Alone => child = None
  BY <1>i DEF ChildOnRecord, Alone, Gaps
<1>1. CASE AskChild
  <2>1. child \in Pids /\ MovesOn(child)
    BY <1>1, <1>t, AskedMoves DEF AskChild, SupTypeOK
  <2> QED
    BY <1>1, <2>1, ProcessKeepsOwnership DEF AskChild, releaseVars, ghostVars
<1>2. CASE KillChild
  <2>1. child \in Pids /\ MovesOn(child)
    BY <1>2, <1>t, VanishMoves DEF KillChild, SupTypeOK
  <2> QED
    BY <1>2, <2>1, ProcessKeepsOwnership DEF KillChild, releaseVars, ghostVars
<1>3. CASE ChildGone
  <2>1. /\ sup = "terminate" /\ sup' = "clean" /\ child' = None /\ process' = None
        /\ UNCHANGED <<pointer, installed, job, code, service, operator, waiting, lost, book>>
    BY <1>3 DEF ChildGone, Goto, releaseVars, operatorVars, ghostVars
  <2>2. \A p \in Pids : phase'[p] = phase[p] \/ (phase[p] \in Dead /\ phase'[p] = "none")
    BY <1>3, <1>t, PidAssumption DEF ChildGone, Alive, DaemonTypeOK
  <2>3. child = book.child /\ RecordedOver
    BY <1>3, <1>i, <2>1 DEF ChildOnRecord, RecordedOver, ChildGone
  <2>4. \A p \in Pids : phase'[p] \notin Dead => phase'[p] = phase[p]
    BY <2>2 DEF Dead
  <2>5. RecordedOver'
    BY <2>1, <2>3, <2>4, ChildBook DEF RecordedOver, Alive
  <2>6. Exclusion' /\ LockHeld' /\ ChildOnRecord' /\ AloneAfterCleanup'
    BY <1>i, <2>1, <2>4, <2>5, PhasesSplit
       DEF Exclusion, LockHeld, ChildOnRecord, AloneAfterCleanup, Alone, Gaps, Watching
  <2>7. StartsAwaited'
    BY <1>i, <2>1, <2>4, PhasesSplit DEF StartsAwaited, Awaited
  <2>8. RunsCurrent'
    BY <2>1, <2>4 DEF RunsCurrent, SwitchSerialized, Alive
  <2> QED
    BY <2>6, <2>7, <2>8 DEF OwnershipInv
<1>4. CASE CleanOrphan
  <2>1. /\ sup = "clean" /\ child' = None
        /\ \/ sup' = "cleaning" /\ service = None /\ service' = "supervisor"
           \/ sup' = "off" /\ service' = service
        /\ UNCHANGED <<pointer, installed, job, phase, code, operator, waiting, lost, book>>
    BY <1>4, <1>i DEF CleanOrphan, Goto, Exit, releaseVars, operatorVars, ghostVars,
       ChildOnRecord, Gaps
  <2>2. Exclusion' /\ LockHeld'
    BY <1>i, <2>1, PidAssumption DEF Exclusion, LockHeld
  <2>3. ChildOnRecord' /\ AloneAfterCleanup'
    BY <1>i, <2>1 DEF Exclusion, ChildOnRecord, RecordedOver, Alive, AloneAfterCleanup, Alone, Gaps,
       Watching
  <2>4. StartsAwaited' /\ RunsCurrent'
    BY <1>i, <2>1 DEF StartsAwaited, Awaited, RunsCurrent, SwitchSerialized, Alive
  <2> QED
    BY <2>2, <2>3, <2>4 DEF OwnershipInv
<1>5. CASE Cleaned
  <2>1. /\ sup = "cleaning" /\ child' = None
        /\ sup' \in {"loop", "after", "off"} /\ service' = None
        /\ UNCHANGED <<pointer, installed, job, phase, code, operator, waiting, lost, book>>
    BY <1>5, <1>i DEF Cleaned, Goto, Exit, releaseVars, operatorVars, ghostVars,
       ChildOnRecord, Gaps
  <2>2. \A p \in Pids : phase[p] \notin Held
    BY <1>i, <2>1, PidAssumption DEF LockHeld
  <2>3. Exclusion' /\ LockHeld' /\ AloneAfterCleanup'
    BY <1>i, <2>1, <2>2 DEF Exclusion, LockHeld, AloneAfterCleanup
  <2>4. ChildOnRecord'
    BY <1>i, <2>1 DEF Exclusion, ChildOnRecord, RecordedOver, Alive, Gaps, Watching
  <2>5. StartsAwaited' /\ RunsCurrent'
    BY <1>i, <2>1 DEF StartsAwaited, Awaited, RunsCurrent, SwitchSerialized, Alive
  <2> QED
    BY <2>3, <2>4, <2>5 DEF OwnershipInv
<1>6. CASE AfterCleanup \/ RetryDelay
  <2>1. /\ Alone /\ sup' \in {"off", "delay", "loop"}
        /\ UNCHANGED <<phase, code, service, installed, job, operator, waiting, lost>>
        /\ (child' = None \/ child' = child) /\ (book' = book \/ book'.child = child)
    BY <1>6, WriteChild, WriteBackChild
       DEF AfterCleanup, RetryDelay, EndWithError, EndStopped, WaitToRetry, ForgiveAttempts,
           Goto, Exit, Alone, releaseVars, daemonVars, operatorVars
  <2> QED
    BY <1>a, <2>1, AloneKeepsOwnership DEF Gaps
<1>7. CASE StopInLoop \/ ObserveActivation \/ Blocked \/ WriteOff \/ RecordAttempt
  <2>1. /\ Alone /\ sup' \in {"off", "loop", "fallback", "attempt"}
        /\ UNCHANGED <<phase, code, service, installed, job, operator, waiting, lost>>
        /\ child' = None \/ child' = child
        /\ book'.child = child
    BY <1>7, WriteChild, WriteBackChild
       DEF StopInLoop, ObserveActivation, Blocked, WriteOff, RecordAttempt, InLoop,
           Goto, Exit, Alone, releaseVars, daemonVars, operatorVars, ghostVars
  <2> QED
    BY <1>a, <2>1, AloneKeepsOwnership DEF Gaps
<1>8. CASE FallBack
  <2>1. /\ Alone /\ sup' \in {"off", "loop"}
        /\ UNCHANGED <<phase, code, service, installed, job, operator, waiting, lost>>
        /\ child' = None \/ child' = child
        /\ book'.child = child
    BY <1>8, WriteBackChild DEF FallBack, Goto, Exit, Alone, daemonVars, operatorVars
  <2> QED
    BY <1>a, <2>1, AloneKeepsOwnership DEF Gaps
<1>9. CASE SpawnChild
  <2>1. PICK p \in Pids : Fresh(p) /\ Exec(p, pointer.current) /\ process' = p
    BY <1>9 DEF SpawnChild
  <2>2. /\ sup = "attempt" /\ sup' = "record"
        /\ UNCHANGED <<pointer, installed, job, service, operator, waiting, lost, child, book>>
    BY <1>9, <2>1 DEF SpawnChild, Exec, Goto, releaseVars, operatorVars
  <2>3. /\ \A q \in Pids \ {p} : phase'[q] = phase[q] /\ code'[q] = code[q]
        /\ phase'[p] = "new" /\ phase[p] \in Dead /\ p # book.child
    BY <1>t, <2>1 DEF Exec, Fresh, Alive, DaemonTypeOK
  <2>4. Exclusion' /\ LockHeld' /\ AloneAfterCleanup'
    BY <1>i, <2>2, <2>3, PhasesSplit DEF Exclusion, LockHeld, AloneAfterCleanup, Alone
  <2>5. ChildOnRecord'
    BY <1>i, <2>2, <2>3, ChildBook DEF Exclusion, ChildOnRecord, RecordedOver, Alive, Gaps, Watching
  <2>6. StartsAwaited'
    BY <1>i, <2>1, <2>2, <2>3 DEF StartsAwaited, Awaited
  <2>7. RunsCurrent'
    BY <2>2, <2>3 DEF RunsCurrent, SwitchSerialized, Alive
  <2> QED
    BY <2>4, <2>5, <2>6, <2>7 DEF OwnershipInv
<1>10. CASE SpawnFails
  <2>1. /\ sup = "attempt" /\ sup' = "terminate" /\ child = None /\ child' = None /\ book'.child = None
        /\ UNCHANGED <<pointer, installed, phase, code, job, service, operator, waiting, lost>>
    BY <1>10, <1>a, WriteBackChild
       DEF SpawnFails, Goto, Alone, releaseVars, daemonVars, operatorVars, ghostVars
  <2>2. ~lost => \A p \in Pids : ~Alive(p)
    BY <2>1, NobodyLeft DEF Alone
  <2>3. Exclusion' /\ LockHeld' /\ ChildOnRecord'
    BY <1>i, <2>1 DEF Exclusion, LockHeld, ChildOnRecord, Gaps
  <2>4. StartsAwaited' /\ AloneAfterCleanup' /\ RunsCurrent'
    BY <2>1, <2>2, PhasesSplit
       DEF StartsAwaited, AloneAfterCleanup, RunsCurrent, SwitchSerialized, Alive
  <2> QED
    BY <2>3, <2>4 DEF OwnershipInv
<1>11. CASE RecordChild
  <2>1. /\ sup = "record" /\ sup' = "watch" /\ book'.child = child'
        /\ child' = IF Alive(process) THEN process ELSE None
        /\ UNCHANGED <<pointer, installed, phase, code, job, service, operator, waiting, lost, process>>
    BY <1>11 DEF RecordChild, Goto, releaseVars, daemonVars, operatorVars, ghostVars
  <2>2. Exclusion' /\ LockHeld' /\ ChildOnRecord' /\ AloneAfterCleanup'
    BY <1>i, <2>1 DEF Exclusion, LockHeld, ChildOnRecord, AloneAfterCleanup, Alone, Gaps, Watching
  <2>3. StartsAwaited'
    <3> SUFFICES ASSUME ~lost, NEW p \in Pids, phase[p] \in Unlocked
                 PROVE  Awaited(p)'
      BY <2>1 DEF StartsAwaited
    <3>1. Alive(p) /\ Awaited(p)
      BY <1>i, PhasesSplit DEF StartsAwaited, Alive
    <3>2. book.child # p
      BY <1>i, <2>1, <3>1, PidAssumption DEF ChildOnRecord, Gaps, RecordedOver
    <3> QED
      BY <2>1, <3>1, <3>2 DEF Awaited
  <2>4. RunsCurrent'
    BY <2>1 DEF RunsCurrent, SwitchSerialized, Alive
  <2> QED
    BY <2>2, <2>3, <2>4 DEF OwnershipInv
<1>12. CASE StopSeen \/ ChildExited \/ DeadlinePassed \/ OtherAnswers \/ ObserveReady \/ StayedHealthy
  <2>1. /\ sup \in Watching /\ sup' \in Watching \cup {"terminate"}
        /\ child' = child /\ (book' = book \/ book'.child = child)
        /\ UNCHANGED <<pointer, installed, phase, code, job, service, operator, waiting, lost, process>>
    BY <1>12, WriteChild, WriteBackChild
       DEF StopSeen, ChildExited, DeadlinePassed, OtherAnswers, Ends, ObserveReady, StayedHealthy,
           ForgiveAttempts, Goto, Watching, releaseVars, daemonVars, operatorVars, ghostVars
  <2>2. child = book.child /\ book'.child = book.child
    BY <1>i, <2>1 DEF ChildOnRecord
  <2>3. Exclusion' /\ LockHeld' /\ ChildOnRecord' /\ AloneAfterCleanup'
    BY <1>i, <2>1, <2>2
       DEF Exclusion, LockHeld, ChildOnRecord, AloneAfterCleanup, Alone, Gaps, Watching
  <2>4. StartsAwaited' /\ RunsCurrent'
    BY <1>i, <2>1, <2>2 DEF StartsAwaited, Awaited, Watching, RunsCurrent, SwitchSerialized, Alive
  <2> QED
    BY <2>3, <2>4 DEF OwnershipInv
<1> QED
  BY <1>1, <1>2, <1>3, <1>4, <1>5, <1>6, <1>7, <1>8, <1>9, <1>10, <1>11, <1>12 DEF SupervisorStep

LEMMA LaunchKeepsOwnership ==
    ASSUME TypeOK, OwnershipInv, RunsCurrent, Launch
    PROVE  OwnershipInv' /\ RunsCurrent'
<1>1. /\ sup = "off" /\ sup' = "terminate" /\ job = "due" /\ job' = "loaded" /\ child' = book.child
      /\ UNCHANGED <<pointer, installed, phase, code, service, operator, waiting, lost, book, process>>
  BY DEF Launch, releaseVars, daemonVars, operatorVars, ghostVars
<1>2. Exclusion' /\ LockHeld' /\ ChildOnRecord' /\ AloneAfterCleanup'
  BY <1>1 DEF OwnershipInv, Exclusion, LockHeld, ChildOnRecord, AloneAfterCleanup, Alone, Gaps
<1>3. StartsAwaited' /\ RunsCurrent'
  BY <1>1 DEF OwnershipInv, StartsAwaited, Awaited, RunsCurrent, SwitchSerialized, Alive
<1> QED
  BY <1>2, <1>3 DEF OwnershipInv

LEMMA LossKeepsOwnership ==
    ASSUME TypeOK, OwnershipInv, RunsCurrent, SupervisorLost
    PROVE  OwnershipInv' /\ RunsCurrent'
<1>1. /\ sup # "off" /\ sup' = "off" /\ job' = "due"
      /\ service' = IF service = "supervisor" THEN None ELSE service
      /\ UNCHANGED <<pointer, installed, phase, code, operator, waiting, book>>
  BY DEF SupervisorLost, releaseVars, operatorVars
<1>2. ~lost' => ~lost /\ (sup = "record" => phase[process] \notin Unlocked)
  BY DEF SupervisorLost
<1>3. Exclusion' /\ LockHeld'
  BY <1>1, PidAssumption DEF OwnershipInv, Exclusion, LockHeld
<1>4. ChildOnRecord' /\ AloneAfterCleanup'
  BY <1>1 DEF OwnershipInv, Exclusion, ChildOnRecord, AloneAfterCleanup, Alone, Gaps, Watching
<1>5. StartsAwaited' /\ RunsCurrent'
  BY <1>1, <1>2 DEF OwnershipInv, StartsAwaited, Awaited, RunsCurrent, SwitchSerialized, Alive
<1> QED
  BY <1>3, <1>4, <1>5 DEF OwnershipInv

LEMMA OperatorKeepsOwnership ==
    ASSUME TypeOK, OwnershipInv, RunsCurrent, OperatorStep
    PROVE  OwnershipInv' /\ RunsCurrent'
<1>t. DaemonTypeOK
  BY DEF TypeOK
<1>i. Exclusion /\ LockHeld /\ ChildOnRecord /\ StartsAwaited /\ AloneAfterCleanup
  BY DEF OwnershipInv
<1>1. CASE StartService
  <2>1. PICK p \in Pids : Fresh(p) /\ Exec(p, pointer.current) /\ waiting' = p
    BY <1>1 DEF StartService
  <2>2. /\ operator = "none" /\ operator' = "start" /\ ~installed
        /\ UNCHANGED <<pointer, installed, job, sup, service, lost, child, book, process>>
    BY <1>1, <2>1 DEF StartService, Exec, Idle, SupKept, releaseVars
  <2>3. /\ \A q \in Pids \ {p} : phase'[q] = phase[q] /\ code'[q] = code[q]
        /\ phase'[p] = "new" /\ p # book.child
    BY <1>t, <2>1 DEF Exec, Fresh, DaemonTypeOK
  <2>4. sup = "off"
    BY <1>i, <2>2 DEF Exclusion
  <2>5. Exclusion' /\ LockHeld' /\ AloneAfterCleanup' /\ ChildOnRecord'
    BY <1>i, <2>2, <2>3, <2>4, PhasesSplit
       DEF Exclusion, LockHeld, AloneAfterCleanup, Alone, ChildOnRecord, Gaps, Watching
  <2>6. StartsAwaited'
    BY <1>i, <2>1, <2>2, <2>3 DEF StartsAwaited, Awaited
  <2>7. RunsCurrent'
    BY <2>2, <2>3 DEF RunsCurrent, SwitchSerialized, Alive
  <2> QED
    BY <2>5, <2>6, <2>7 DEF OwnershipInv
<1>2. CASE StartReturns
  <2>1. /\ operator = "start" /\ operator' = "none"
        /\ UNCHANGED <<pointer, installed, phase, code, job, sup, service, child, book, process>>
    BY <1>2 DEF StartReturns, SupKept, releaseVars, daemonVars
  <2>2. ~lost' => ~lost /\ phase[waiting] \notin Unlocked
    BY <1>2 DEF StartReturns
  <2>3. Exclusion' /\ LockHeld' /\ ChildOnRecord'
    BY <1>i, <2>1 DEF Exclusion, LockHeld, ChildOnRecord, RecordedOver, Alive
  <2>4. StartsAwaited' /\ AloneAfterCleanup' /\ RunsCurrent'
    BY <1>i, <2>1, <2>2 DEF StartsAwaited, Awaited, AloneAfterCleanup, Alone, RunsCurrent,
       SwitchSerialized, Alive
  <2> QED
    BY <2>3, <2>4 DEF OwnershipInv
<1>3. ASSUME NEW p \in Pids, RequestShutdown(p)
      PROVE  OwnershipInv' /\ RunsCurrent'
  <2>1. MovesOn(p)
    BY <1>3, <1>t, AskedMoves DEF RequestShutdown, Answering, Ready, Alive, Dead
  <2> QED
    BY <1>3, <2>1, ProcessKeepsOwnership DEF RequestShutdown, SupKept, supVars, releaseVars, ghostVars
<1>4. CASE StartSupervised \/ (\E command \in Commands : StopSupervised(command))
           \/ StopConfirmed \/ StopUnconfirmed \/ Install
  <2> DEFINE Label == \/ UNCHANGED <<job, installed>>
                      \/ job' = "due" /\ installed'
                      \/ job' = "unloaded" /\ sup = "off"
             Frame == /\ {operator, operator'} \cap {"start", "switch"} = {}
                      /\ UNCHANGED <<pointer, phase, code, sup, service, child, book, process, lost>>
                      /\ Label
  <2>1. Frame
    <3>1. CASE StartSupervised
      <4>1. installed /\ installed' = installed
        BY <3>1 DEF StartSupervised, releaseVars
      <4> QED
        BY <3>1, <4>1 DEF StartSupervised, Idle, releaseVars, daemonVars, operatorVars, ghostVars
    <3>2. ASSUME NEW command \in Commands, StopSupervised(command)
          PROVE  Frame
      BY <3>2 DEF StopSupervised, Idle, releaseVars, daemonVars, ghostVars
    <3>3. CASE StopConfirmed
      BY <3>3 DEF StopConfirmed, daemonVars, ghostVars
    <3>4. CASE StopUnconfirmed
      BY <3>4 DEF StopUnconfirmed, SupKept, releaseVars, daemonVars, ghostVars
    <3>5. CASE Install
      BY <3>5 DEF Install, Idle, daemonVars, operatorVars, ghostVars
    <3> QED
      BY <1>4, <3>1, <3>2, <3>3, <3>4, <3>5
  <2>2. Exclusion' /\ LockHeld' /\ ChildOnRecord'
    BY <1>i, <2>1 DEF Exclusion, LockHeld, ChildOnRecord, RecordedOver, Alive
  <2>3. StartsAwaited' /\ AloneAfterCleanup' /\ RunsCurrent'
    BY <1>i, <2>1 DEF StartsAwaited, Awaited, AloneAfterCleanup, Alone, RunsCurrent,
       SwitchSerialized, Alive
  <2> QED
    BY <2>2, <2>3 DEF OwnershipInv
<1>5. CASE BeginSwitch
  <2>1. /\ operator = "none" /\ operator' = "switch" /\ sup = "off"
        /\ service = None /\ service' = "operator" /\ (installed => job = "unloaded") /\ RecordedOver
        /\ UNCHANGED <<pointer, installed, phase, code, job, sup, child, book, process, lost>>
    BY <1>5 DEF BeginSwitch, Idle, SupKept, OwnedStopped, RecordedOver, releaseVars, ghostVars
  <2>2. Exclusion' /\ ChildOnRecord'
    BY <1>i, <2>1 DEF Exclusion, ChildOnRecord, RecordedOver, Alive, Gaps, Watching
  <2>3. LockHeld' /\ StartsAwaited' /\ AloneAfterCleanup' /\ RunsCurrent'
    BY <1>i, <2>1, PidAssumption DEF LockHeld, StartsAwaited, Awaited, AloneAfterCleanup, Alone,
       RunsCurrent, SwitchSerialized, Alive
  <2> QED
    BY <2>2, <2>3 DEF OwnershipInv
<1>6. CASE EndSwitch
  <2>1. /\ operator = "switch" /\ operator' = "none" /\ service' = None
        /\ UNCHANGED <<installed, phase, code, job, sup, child, book, process, lost>>
    BY <1>6 DEF EndSwitch, SupKept
  <2>2. sup = "off" /\ service = "operator"
    BY <1>i, <2>1 DEF Exclusion
  <2>3. ~lost => \A p \in Pids : ~Alive(p)
    BY <2>1, NobodyLeft
  <2>4. Exclusion' /\ LockHeld' /\ ChildOnRecord'
    BY <1>i, <2>1, <2>2, PidAssumption
       DEF Exclusion, LockHeld, ChildOnRecord, RecordedOver, Alive, Gaps, Watching
  <2>5. StartsAwaited' /\ AloneAfterCleanup' /\ RunsCurrent'
    BY <2>1, <2>3, PhasesSplit
       DEF StartsAwaited, AloneAfterCleanup, RunsCurrent, SwitchSerialized, Alive
  <2> QED
    BY <2>4, <2>5 DEF OwnershipInv
<1> QED
  BY <1>1, <1>2, <1>3, <1>4, <1>5, <1>6 DEF OperatorStep

LEMMA UntouchedOwnership ==
    ASSUME OwnershipInv, RunsCurrent,
           UNCHANGED <<pointer, installed, phase, code, service, supVars, operatorVars, lost>>
    PROVE  OwnershipInv' /\ RunsCurrent'
<1>u. UNCHANGED <<job, sup, book, child, process, operator, waiting>>
  BY DEF supVars, operatorVars
<1>1. Exclusion' /\ LockHeld' /\ ChildOnRecord'
  BY <1>u DEF OwnershipInv, Exclusion, LockHeld, ChildOnRecord, RecordedOver, Alive
<1>2. StartsAwaited' /\ AloneAfterCleanup' /\ RunsCurrent'
  BY <1>u DEF OwnershipInv, StartsAwaited, Awaited, AloneAfterCleanup, Alone, RunsCurrent,
     SwitchSerialized, Alive
<1> QED
  BY <1>1, <1>2 DEF OwnershipInv

LEMMA OwnershipStep == TypeOK /\ OwnershipInv /\ RunsCurrent /\ [Next]_vars => OwnershipInv' /\ RunsCurrent'
<1> SUFFICES ASSUME TypeOK, OwnershipInv, RunsCurrent, [Next]_vars
             PROVE  OwnershipInv' /\ RunsCurrent'
  OBVIOUS
<1>t. DaemonTypeOK
  BY DEF TypeOK
<1>1. CASE Launch \/ SupervisorStep \/ SupervisorLost \/ OperatorStep
  BY <1>1, LaunchKeepsOwnership, SupervisorKeepsOwnership, LossKeepsOwnership, OperatorKeepsOwnership
<1>2. CASE Mishap
  <2>1. ASSUME NEW p \in Pids, Vanish(p), UNCHANGED releaseVars
        PROVE  OwnershipInv' /\ RunsCurrent'
    BY <1>2, <1>t, <2>1, VanishMoves, ProcessKeepsOwnership DEF Mishap, releaseVars
  <2>2. ASSUME NEW c \in Candidates, Damage(c), UNCHANGED daemonVars
        PROVE  OwnershipInv' /\ RunsCurrent'
    BY <1>2, <2>2, UntouchedOwnership DEF Mishap, Damage, daemonVars
  <2> QED
    BY <1>2, <2>1, <2>2 DEF Mishap
<1>3. CASE Uses
  BY <1>3, UntouchedOwnership DEF Uses, Introduce, Others, daemonVars, ghostVars
<1>4. ASSUME NEW p \in Pids, Runs(p)
      PROVE  OwnershipInv' /\ RunsCurrent'
  <2>1. ReleaseTypeOK
    BY DEF TypeOK
  <2>2. UNCHANGED releaseVars
    BY <1>4, <1>t, <2>1, DaemonStepType DEF Runs
  <2> QED
    BY <1>4, <1>t, <2>2, StepMoves, ProcessKeepsOwnership DEF Runs, Others, releaseVars, ghostVars
<1>5. CASE UNCHANGED vars
  BY <1>5, UntouchedOwnership DEF vars, releaseVars, daemonVars, ghostVars
<1> QED
  BY <1>1, <1>2, <1>3, <1>4, <1>5 DEF Next

LEMMA OwnershipInit == Init => OwnershipInv /\ RunsCurrent
<1> SUFFICES ASSUME Init PROVE OwnershipInv /\ RunsCurrent
  OBVIOUS
<1>1. /\ sup = "off" /\ job = "unloaded" /\ operator = "none"
      /\ phase = [p \in Pids |-> "none"]
  BY DEF Init, DaemonInit
<1>2. \A p \in Pids : phase[p] \in Dead
  BY <1>1 DEF Dead
<1>3. Exclusion /\ LockHeld /\ ChildOnRecord
  BY <1>1, <1>2, PhasesSplit DEF Exclusion, LockHeld, ChildOnRecord, Gaps, Watching
<1>4. StartsAwaited /\ AloneAfterCleanup /\ RunsCurrent
  BY <1>1, <1>2, PhasesSplit DEF StartsAwaited, AloneAfterCleanup, Alone, RunsCurrent,
     SwitchSerialized, Alive
<1> QED
  BY <1>3, <1>4 DEF OwnershipInv

LEMMA OwnershipHolds == Spec => [](TypeOK /\ OwnershipInv /\ RunsCurrent)
<1>1. Init => TypeOK /\ OwnershipInv /\ RunsCurrent
  BY TypeInit, OwnershipInit
<1>2. TypeOK /\ OwnershipInv /\ RunsCurrent /\ [Next]_vars => (TypeOK /\ OwnershipInv /\ RunsCurrent)'
  BY TypeStep, OwnershipStep
<1> QED
  BY <1>1, <1>2, PTL DEF Spec

(***************************************************************************)
(* Unless a starter was gone before its process held service.lock, every   *)
(* process that has checked the release runs the current candidate: no     *)
(* switch, no fallback and no restart falls between the check and the end  *)
(* of the process (cli.py start and serve, supervisor.py attempt,          *)
(* lifecycle.py offline_maintenance).                                      *)
(***************************************************************************)
THEOREM CodeIsCurrent == Spec => []RunsCurrent
BY OwnershipHolds, PTL

\* While the release is switched: no supervisor, no loaded label, and no process at all.
SwitchAlone ==
    operator = "switch" =>
        /\ sup = "off" /\ job = "unloaded" /\ service = "operator"
        /\ \A p \in Pids : phase[p] \notin Held
        /\ ~lost => \A p \in Pids : ~Alive(p)

(***************************************************************************)
(* offline_maintenance has the system to itself, although it looks for     *)
(* what may still run only once, after it has its locks.                   *)
(***************************************************************************)
THEOREM SwitchIsAlone == Spec => []SwitchAlone
<1>1. TypeOK /\ OwnershipInv => SwitchAlone
  <2> SUFFICES ASSUME TypeOK, OwnershipInv, operator = "switch"
               PROVE  /\ sup = "off" /\ job = "unloaded" /\ service = "operator"
                      /\ \A p \in Pids : phase[p] \notin Held
                      /\ ~lost => \A p \in Pids : ~Alive(p)
    BY DEF SwitchAlone
  <2>1. sup = "off" /\ job = "unloaded" /\ service = "operator"
    BY DEF OwnershipInv, Exclusion
  <2>2. \A p \in Pids : phase[p] \notin Held
    BY <2>1, PidAssumption DEF OwnershipInv, LockHeld
  <2>3. ~lost => \A p \in Pids : ~Alive(p)
    BY NobodyLeft
  <2> QED
    BY <2>1, <2>2, <2>3
<1> QED
  BY <1>1, OwnershipHolds, PTL

-----------------------------------------------------------------------------
(* The supervisor's book against what really happened. *)

\* Only a switch, with the supervisor off, and the fallback move the pointer.
LEMMA PointerMoves ==
    ASSUME TypeOK, OwnershipInv, [Next]_vars, pointer' # pointer
    PROVE  \/ EndSwitch /\ sup = "off" /\ sup' = "off"
           \/ FallBack
<1>1. CASE SupervisorStep
  BY <1>1 DEF SupervisorStep, AskChild, KillChild, ChildGone, CleanOrphan, Cleaned, AfterCleanup,
     RetryDelay, StopInLoop, ObserveActivation, Blocked, WriteOff, RecordAttempt, SpawnChild,
     SpawnFails, RecordChild, StopSeen, ChildExited, DeadlinePassed, OtherAnswers, Ends,
     ObserveReady, StayedHealthy, releaseVars
<1>2. CASE OperatorStep
  <2>1. EndSwitch
    BY <1>2 DEF OperatorStep, StartService, StartReturns, RequestShutdown, StartSupervised,
       StopSupervised, StopConfirmed, StopUnconfirmed, Install, BeginSwitch, releaseVars
  <2> QED
    BY <2>1 DEF EndSwitch, SupKept, OwnershipInv, Exclusion
<1>3. ASSUME NEW p \in Pids, Runs(p)
      PROVE  FALSE
  <2>1. ReleaseTypeOK /\ DaemonTypeOK
    BY DEF TypeOK
  <2> QED
    BY <1>3, <2>1, DaemonStepType DEF Runs, releaseVars
<1>4. ~(Launch \/ SupervisorLost \/ Mishap \/ Uses \/ UNCHANGED vars)
  BY DEF Launch, SupervisorLost, Mishap, Damage, Uses, Introduce, vars, releaseVars
<1> QED
  BY <1>1, <1>2, <1>3, <1>4 DEF Next

\* What a step does to the book and the histories, if it is not one of the few that count.
BookKept ==
    /\ book'.epoch = book.epoch /\ book'.attempts = book.attempts /\ book'.failed = book.failed
    /\ UNCHANGED <<starts, abandoned>>
    /\ sup' \in {"attempt", "fallback"} => sup' = sup
    /\ pointer' = pointer
Counts ==
    \/ AfterCleanup \/ RetryDelay \/ ObserveActivation \/ WriteOff \/ FallBack \/ RecordAttempt
    \/ SpawnChild \/ StayedHealthy \/ EndSwitch

LEMMA BookFrame ==
    ASSUME TypeOK, OwnershipInv, [Next]_vars, ~Counts
    PROVE  BookKept
<1>t. SupTypeOK
  BY DEF TypeOK
<1>p. pointer' = pointer
  BY PointerMoves DEF Counts
<1>1. CASE SupervisorStep
  <2>1. CASE AskChild \/ KillChild \/ ChildGone \/ CleanOrphan \/ Cleaned
    BY <1>p, <2>1 DEF AskChild, KillChild, ChildGone, CleanOrphan, Cleaned, Goto, Exit, supVars,
       ghostVars, BookKept
  <2>2. CASE StopInLoop \/ Blocked \/ SpawnFails \/ ObserveReady
    BY <1>p, <1>t, <2>2, WriteBackType DEF StopInLoop, Blocked, SpawnFails, ObserveReady, Goto, Exit,
       ghostVars, BookKept
  <2>3. CASE RecordChild
    BY <1>p, <2>3 DEF RecordChild, Goto, ghostVars, BookKept
  <2>4. CASE StopSeen \/ ChildExited \/ DeadlinePassed \/ OtherAnswers
    BY <1>p, <2>4 DEF StopSeen, ChildExited, DeadlinePassed, OtherAnswers, Ends, Goto, ghostVars,
       BookKept
  <2> QED
    BY <1>1, <2>1, <2>2, <2>3, <2>4 DEF SupervisorStep, Counts
<1>2. CASE OperatorStep
  BY <1>2, <1>p DEF OperatorStep, Counts, StartService, StartReturns, RequestShutdown,
     StartSupervised, StopSupervised, StopConfirmed, StopUnconfirmed, Install, BeginSwitch, SupKept,
     ghostVars, BookKept
<1>3. CASE Launch \/ SupervisorLost
  BY <1>3, <1>p DEF Launch, SupervisorLost, ghostVars, BookKept
<1>4. CASE Mishap \/ Uses \/ (\E p \in Pids : Runs(p)) \/ UNCHANGED vars
  <2>1. UNCHANGED supVars /\ UNCHANGED <<starts, abandoned>>
    BY <1>4 DEF Mishap, Uses, Runs, Others, vars, ghostVars
  <2> QED
    BY <1>p, <2>1 DEF supVars, BookKept
<1> QED
  BY <1>1, <1>2, <1>3, <1>4 DEF Next

LEMMA CoverStep ==
    TypeOK /\ OwnershipInv /\ AttemptsCover /\ [Next]_vars => AttemptsCover'
<1> SUFFICES ASSUME TypeOK, OwnershipInv, AttemptsCover, [Next]_vars
             PROVE  AttemptsCover'
  OBVIOUS
<1>t. ReleaseTypeOK /\ SupTypeOK /\ HistoryTypeOK
  BY DEF TypeOK
<1>c. /\ pointer.current \in Candidates
      /\ starts \in [Candidates -> Nat] /\ book.attempts \in [Candidates -> 0..MaxFailures]
      /\ \A c \in Candidates : starts[c] \in Nat /\ book.attempts[c] \in Nat
  BY <1>t, SupervisionAssumption DEF ReleaseTypeOK, SupTypeOK, HistoryTypeOK
<1>1. CASE ~Counts
  BY <1>1, BookFrame DEF BookKept, AttemptsCover
<1>f. ASSUME ForgiveAttempts, sup' # "attempt"
      PROVE  AttemptsCover'
  BY <1>t, <1>c, <1>f, ForgiveType, CountingType, SupervisionAssumption DEF AttemptsCover
<1>2. CASE AfterCleanup
  <2>1. CASE EndStopped
    BY <1>f, <2>1 DEF EndStopped, Exit
  <2>2. CASE EndWithError
    BY <2>2 DEF EndWithError, Exit, AttemptsCover
  <2>3. CASE WaitToRetry
    BY <1>t, <2>3, WriteBackType DEF WaitToRetry, Goto, AttemptsCover
  <2> QED
    BY <1>2, <2>1, <2>2, <2>3 DEF AfterCleanup
<1>3. CASE RetryDelay
  <2>1. CASE stopping
    BY <1>3, <1>f, <2>1 DEF RetryDelay, Exit
  <2>2. CASE ~stopping
    BY <1>3, <2>2 DEF RetryDelay, Goto, AttemptsCover
  <2> QED
    BY <2>1, <2>2
<1>4. CASE StayedHealthy
  BY <1>4, <1>f DEF StayedHealthy, Goto
<1>5. CASE ObserveActivation
  <2>1. /\ Write(pointer.epoch, NoAttempts, {}) /\ starts' = NoAttempts
        /\ sup = "loop" /\ sup' = sup
    BY <1>5 DEF ObserveActivation, InLoop
  <2>2. book'.attempts = NoAttempts
    BY <2>1 DEF Write
  <2> QED
    BY <2>1, <2>2 DEF AttemptsCover, NoAttempts
<1>6. CASE WriteOff
  <2>1. Write(book.epoch, book.attempts, book.failed \cup {pointer.current})
        /\ sup' = "fallback" /\ starts' = starts
    BY <1>6 DEF WriteOff, Goto, ghostVars
  <2>2. book'.attempts = book.attempts
    BY <2>1 DEF Write
  <2> QED
    BY <2>1, <2>2 DEF AttemptsCover
<1>7. CASE FallBack
  BY <1>7, <1>t, WriteBackType DEF FallBack, Goto, Exit, AttemptsCover
<1>8. CASE RecordAttempt
  <2>1. /\ Write(book.epoch, Counting(book.attempts[pointer.current] + 1), book.failed)
        /\ starts' = starts /\ UNCHANGED pointer
    BY <1>8 DEF RecordAttempt, ghostVars, releaseVars
  <2>2. book'.attempts = Counting(book.attempts[pointer.current] + 1)
    BY <2>1 DEF Write
  <2>3. /\ book'.attempts[pointer.current] = book.attempts[pointer.current] + 1
        /\ \A c \in Candidates \ {pointer.current} : book'.attempts[c] = book.attempts[c]
    BY <1>c, <2>2 DEF Counting
  <2>4. \A c \in Candidates : starts[c] <= book.attempts[c]
    BY DEF AttemptsCover
  <2>5. /\ starts[pointer.current] < book'.attempts[pointer.current]
        /\ \A c \in Candidates : starts[c] <= book'.attempts[c]
    BY <1>c, <2>3, <2>4
  <2> QED
    BY <2>1, <2>5 DEF AttemptsCover
<1>9. CASE SpawnChild
  <2>1. /\ sup = "attempt" /\ sup' = "record" /\ book' = book
        /\ starts' = [starts EXCEPT ![pointer.current] = @ + 1]
    BY <1>9 DEF SpawnChild, Goto
  <2>2. /\ starts'[pointer.current] = starts[pointer.current] + 1
        /\ \A c \in Candidates \ {pointer.current} : starts'[c] = starts[c]
    BY <1>c, <2>1
  <2>3. /\ \A c \in Candidates : starts[c] <= book.attempts[c]
        /\ starts[pointer.current] < book.attempts[pointer.current]
    BY <2>1 DEF AttemptsCover
  <2>4. \A c \in Candidates : starts'[c] <= book.attempts[c]
    BY <1>c, <2>2, <2>3
  <2> QED
    BY <2>1, <2>4 DEF AttemptsCover
<1>10. CASE EndSwitch
  BY <1>10 DEF EndSwitch, SupKept, OwnershipInv, Exclusion, AttemptsCover
<1> QED
  BY <1>1, <1>2, <1>3, <1>4, <1>5, <1>6, <1>7, <1>8, <1>9, <1>10 DEF Counts

(***************************************************************************)
(* A candidate is started at most max_failures times before it is healthy  *)
(* or stopped on purpose, wherever the supervisor is lost: every start is  *)
(* covered by an attempt that was saved before it (supervisor.py run).     *)
(***************************************************************************)
THEOREM StartsAreBounded == Spec => []BoundedStarts
<1>1. Init => AttemptsCover
  BY DEF Init, AttemptsCover, NoAttempts
<1>2. TypeOK /\ AttemptsCover => BoundedStarts
  <2> SUFFICES ASSUME TypeOK, AttemptsCover, NEW c \in Candidates
               PROVE  starts[c] <= MaxFailures
    BY DEF BoundedStarts
  <2>1. starts[c] \in Nat /\ book.attempts[c] \in 0..MaxFailures
    BY DEF TypeOK, SupTypeOK, HistoryTypeOK
  <2>2. starts[c] <= book.attempts[c]
    BY DEF AttemptsCover
  <2> QED
    BY <2>1, <2>2, SupervisionAssumption
<1> QED
  BY <1>1, <1>2, OwnershipHolds, CoverStep, PTL DEF Spec

LEMMA AbandonedStep ==
    TypeOK /\ OwnershipInv /\ AbandonedWrittenOff /\ NoBouncing /\ [Next]_vars
        => AbandonedWrittenOff' /\ NoBouncing'
<1> SUFFICES ASSUME TypeOK, OwnershipInv, AbandonedWrittenOff, NoBouncing, [Next]_vars
             PROVE  AbandonedWrittenOff' /\ NoBouncing'
  OBVIOUS
<1>t. ReleaseTypeOK /\ SupTypeOK /\ HistoryTypeOK
  BY DEF TypeOK
<1>1. CASE ~Counts
  BY <1>1, BookFrame DEF BookKept, AbandonedWrittenOff, NoBouncing
<1>2. CASE AfterCleanup \/ RetryDelay \/ StayedHealthy
  <2>1. /\ sup' # "fallback" /\ pointer' = pointer /\ abandoned' = abandoned
        /\ \/ book' = book \/ WriteBack \/ ForgiveAttempts
    BY <1>2 DEF AfterCleanup, RetryDelay, StayedHealthy, EndWithError, EndStopped, WaitToRetry,
       Goto, Exit, releaseVars
  <2>2. book'.epoch = book.epoch /\ book'.failed = book.failed
    BY <1>t, <2>1, WriteBackType, ForgiveType
  <2> QED
    BY <2>1, <2>2 DEF AbandonedWrittenOff, NoBouncing
<1>3. CASE ObserveActivation
  <2>1. /\ abandoned = {} /\ abandoned' = abandoned /\ pointer' = pointer /\ sup' # "fallback"
    BY <1>3 DEF ObserveActivation, InLoop, Observed, AbandonedWrittenOff, releaseVars
  <2> QED
    BY <2>1 DEF AbandonedWrittenOff, NoBouncing
<1>4. CASE WriteOff
  <2>1. /\ Write(book.epoch, book.attempts, book.failed \cup {pointer.current})
        /\ pointer' = pointer /\ abandoned' = abandoned
    BY <1>4 DEF WriteOff, releaseVars, ghostVars
  <2>2. book'.epoch = book.epoch /\ book'.failed = book.failed \cup {pointer.current}
    BY <2>1 DEF Write
  <2> QED
    BY <2>1, <2>2 DEF AbandonedWrittenOff, NoBouncing
<1>5. CASE FallBack
  <2>1. book'.epoch = book.epoch /\ book'.failed = book.failed
    BY <1>5, <1>t, WriteBackType DEF FallBack
  <2>2. sup = "fallback" /\ sup' # "fallback" /\ pointer.current \in book.failed
    BY <1>5 DEF FallBack, Goto, Exit, AbandonedWrittenOff
  <2>3. CASE CanFallBack(pointer.current, book.failed, book.epoch)
    <3>1. /\ pointer.previous \notin book.failed /\ book.epoch = pointer.epoch
          /\ pointer.previous # pointer.current
          /\ pointer' = [current |-> pointer.previous, previous |-> pointer.current, epoch |-> book.epoch]
          /\ abandoned' = abandoned \cup {pointer.current}
      BY <1>5, <2>3 DEF FallBack, AutomaticRollback, CanFallBack, Point
    <3>2. pointer'.current = pointer.previous /\ pointer'.epoch = book.epoch
      BY <3>1
    <3>3. abandoned' \subseteq book.failed
      BY <2>2, <3>1 DEF AbandonedWrittenOff
    <3> QED
      BY <2>1, <2>2, <3>1, <3>2, <3>3 DEF AbandonedWrittenOff, NoBouncing
  <2>4. CASE ~CanFallBack(pointer.current, book.failed, book.epoch)
    <3>1. pointer' = pointer /\ abandoned' = abandoned
      BY <1>5, <2>4 DEF FallBack
    <3> QED
      BY <2>1, <2>2, <3>1 DEF AbandonedWrittenOff, NoBouncing
  <2> QED
    BY <2>3, <2>4
<1>6. CASE RecordAttempt
  <2>1. /\ Write(book.epoch, Counting(book.attempts[pointer.current] + 1), book.failed)
        /\ pointer' = pointer /\ abandoned' = abandoned /\ sup' = "attempt"
    BY <1>6 DEF RecordAttempt, Goto, releaseVars, ghostVars
  <2>2. book'.epoch = book.epoch /\ book'.failed = book.failed
    BY <2>1 DEF Write
  <2> QED
    BY <2>1, <2>2 DEF AbandonedWrittenOff, NoBouncing
<1>7. CASE SpawnChild
  BY <1>7 DEF SpawnChild, Goto, releaseVars, AbandonedWrittenOff, NoBouncing
<1>8. CASE EndSwitch
  <2>1. sup' # "fallback" /\ book' = book
    BY <1>8 DEF EndSwitch, SupKept, OwnershipInv, Exclusion
  <2>2. abandoned' = {} \/ UNCHANGED <<pointer, abandoned>>
    BY <1>8 DEF EndSwitch
  <2> QED
    BY <2>1, <2>2 DEF AbandonedWrittenOff, NoBouncing
<1> QED
  BY <1>1, <1>2, <1>3, <1>4, <1>5, <1>6, <1>7, <1>8 DEF Counts

(***************************************************************************)
(* Within one activation the automatic rollback never returns to code that *)
(* it went away from, over any number of restarts of the supervisor        *)
(* (supervisor.py fallback, releases.py automatic_rollback).               *)
(***************************************************************************)
THEOREM FallbackDoesNotBounce == Spec => []NoBouncing
<1>1. Init => AbandonedWrittenOff /\ NoBouncing
  BY DEF Init, AbandonedWrittenOff, NoBouncing
<1> QED
  BY <1>1, OwnershipHolds, AbandonedStep, PTL DEF Spec

-----------------------------------------------------------------------------
(* The native server: who has spawned it, and where it is on record. *)

\* As long as starts are owned, there is one process at a time.
OneProcess == Owned => \A p, q \in Pids : Alive(p) /\ Alive(q) => p = q

\* What a process has read of runtime.json is what the file says until the end of the process.
CopyIsFile == Owned => \A p \in Pids : phase[p] \in Held \cup {"loaded"} => view[p] = runtime

\* The file between the steps of a start: prepared before the spawn, bound after it.
Prepared == [server |-> None, prepared |-> TRUE]
BoundTo(p) == [server |-> p, prepared |-> FALSE]
PhaseRecorded(p) ==
    /\ phase[p] \in {"prepared", "spawned"} => runtime = Prepared
    /\ phase[p] = "prepared" => natives = {}
    /\ phase[p] = "spawned" => natives \subseteq {p}
    /\ phase[p] \in {"bound", "ready", "leaving"} => runtime = BoundTo(p)

\* A server that is alive is the recorded one, or the file is still "prepared", which
\* keeps every later start from a spawn; and the server has left a socket.
ServerRecorded ==
    /\ runtime.server # None => natives \subseteq {runtime.server} /\ ~runtime.prepared
    /\ runtime.server = None /\ ~runtime.prepared => natives = {}
    /\ \A p, q \in natives : p = q
    /\ natives # {} => sockets

ServerKnown == Owned => ServerRecorded /\ \A p \in Pids : PhaseRecorded(p)

SwitchClean == Owned /\ operator = "switch" => natives = {}

NativeInv == OneProcess /\ CopyIsFile /\ ServerKnown /\ SwitchClean

LEMMA HistoryGrows ==
    ASSUME TypeOK, [Next]_vars
    PROVE  (Owned' => Owned) /\ (~lost' => ~lost)
<1>t. direct \in Nat
  BY SupervisionAssumption DEF TypeOK, HistoryTypeOK
<1>1. CASE SupervisorStep
  <2>1. UNCHANGED <<direct, lost>>
    BY <1>1 DEF SupervisorStep, AskChild, KillChild, ChildGone, CleanOrphan, Cleaned, AfterCleanup,
       RetryDelay, StopInLoop, ObserveActivation, Blocked, WriteOff, FallBack, RecordAttempt,
       SpawnChild, SpawnFails, RecordChild, StopSeen, ChildExited, DeadlinePassed, OtherAnswers,
       Ends, ObserveReady, StayedHealthy, ghostVars
  <2> QED
    BY <2>1 DEF Owned
<1>2. CASE OperatorStep
  <2>1. CASE StartService
    BY <1>t, <2>1 DEF StartService, Owned
  <2>2. CASE StartReturns
    BY <2>2 DEF StartReturns, Owned
  <2>3. CASE ~(StartService \/ StartReturns)
    <3>1. UNCHANGED <<direct, lost>>
      BY <1>2, <2>3 DEF OperatorStep, RequestShutdown, StartSupervised, StopSupervised,
         StopConfirmed, StopUnconfirmed, Install, BeginSwitch, EndSwitch, ghostVars
    <3> QED
      BY <3>1 DEF Owned
  <2> QED
    BY <2>1, <2>2, <2>3
<1>3. CASE SupervisorLost
  <2>1. direct' = direct /\ (~lost' => ~lost)
    BY <1>3 DEF SupervisorLost
  <2> QED
    BY <2>1 DEF Owned
<1>4. CASE Launch \/ Mishap \/ Uses \/ (\E p \in Pids : Runs(p)) \/ UNCHANGED vars
  BY <1>4 DEF Launch, Mishap, Uses, Runs, Others, Owned, vars, ghostVars
<1> QED
  BY <1>1, <1>2, <1>3, <1>4 DEF Next

LEMMA UntouchedNative ==
    ASSUME NativeInv, Owned' => Owned, UNCHANGED <<phase, view, runtime, natives, sockets>>,
           operator' = "switch" => operator = "switch" \/ ~sockets
    PROVE  NativeInv'
<1>1. OneProcess' /\ CopyIsFile'
  BY DEF NativeInv, OneProcess, CopyIsFile, Alive
<1>2. ServerKnown'
  BY DEF NativeInv, ServerKnown, ServerRecorded, PhaseRecorded
<1>3. SwitchClean'
  BY DEF NativeInv, SwitchClean, ServerKnown, ServerRecorded
<1> QED
  BY <1>1, <1>2, <1>3 DEF NativeInv

\* What has to be shown of a step of one process: the others are over.
LEMMA ProcessKeepsNative ==
    ASSUME TypeOK, OwnershipInv, NativeInv, NEW p \in Pids, Alive(p), Owned' => Owned,
           \A q \in Pids \ {p} : phase'[q] = phase[q], operator' = operator,
           Owned => /\ phase'[p] \in Held \cup {"loaded"} => view'[p] = runtime'
                    /\ ServerRecorded' /\ PhaseRecorded(p)'
    PROVE  NativeInv'
<1>1. Owned => \A q \in Pids \ {p} : phase'[q] \in Dead
  BY DEF NativeInv, OneProcess, Alive
<1>2. OneProcess'
  BY <1>1 DEF OneProcess, Alive
<1>3. CopyIsFile'
  BY <1>1, PhasesSplit DEF CopyIsFile, Unlocked
<1>4. ServerKnown'
  <2>1. ASSUME Owned, NEW q \in Pids \ {p}
        PROVE  PhaseRecorded(q)'
    BY <1>1, <2>1 DEF PhaseRecorded, Dead
  <2> QED
    BY <2>1 DEF ServerKnown
<1>5. SwitchClean'
  BY NobodyLeft DEF SwitchClean, Owned
<1> QED
  BY <1>2, <1>3, <1>4, <1>5 DEF NativeInv

LEMMA GoneKeepsNative ==
    ASSUME TypeOK, OwnershipInv, NativeInv, NEW p \in Pids, Alive(p), Owned' => Owned,
           NEW status \in Dead, Gone(p, status), UNCHANGED <<runtime, natives, sockets, operator>>
    PROVE  NativeInv'
<1>1. phase'[p] \in Dead /\ \A q \in Pids \ {p} : phase'[q] = phase[q]
  BY DEF Gone, TypeOK, DaemonTypeOK
<1>2. phase'[p] \notin Held \cup {"loaded"} /\ PhaseRecorded(p)'
  BY <1>1, PhasesSplit DEF PhaseRecorded, Dead, Unlocked
<1>3. Owned => ServerRecorded'
  BY DEF NativeInv, ServerKnown, ServerRecorded
<1> QED
  BY <1>1, <1>2, <1>3, ProcessKeepsNative

LEMMA AskedKeepsNative ==
    ASSUME TypeOK, OwnershipInv, NativeInv, NEW p \in Pids, Alive(p), Owned' => Owned,
           AskToStop(p), UNCHANGED <<runtime, natives, sockets, operator>>
    PROVE  NativeInv'
<1>1. CASE phase[p] \in {"new", "checked"}
  BY <1>1, GoneKeepsNative DEF AskToStop, Dead
<1>2. CASE phase[p] \notin {"new", "checked"}
  <2>1. /\ \A q \in Pids \ {p} : phase'[q] = phase[q]
        /\ phase'[p] = IF phase[p] = "ready" THEN "leaving" ELSE phase[p]
        /\ view' = view
    BY <1>2 DEF AskToStop, TypeOK, DaemonTypeOK
  <2>2. Owned => /\ phase'[p] \in Held \cup {"loaded"} => view'[p] = runtime'
                 /\ ServerRecorded' /\ PhaseRecorded(p)'
    BY <2>1 DEF NativeInv, CopyIsFile, ServerKnown, ServerRecorded, PhaseRecorded, Held, Guarded
  <2> QED
    BY <2>1, <2>2, ProcessKeepsNative
<1> QED
  BY <1>1, <1>2

LEMMA ShutdownKeepsNative ==
    ASSUME TypeOK, OwnershipInv, NativeInv, NEW p \in Pids, Owned' => Owned,
           NEW status \in Dead, Shutdown(p, status), operator' = operator
    PROVE  NativeInv'
<1>1. /\ phase[p] \in Guarded /\ phase'[p] \in Dead
      /\ \A q \in Pids \ {p} : phase'[q] = phase[q]
      /\ natives' = natives \ {p} /\ runtime' = [server |-> None, prepared |-> FALSE]
  BY DEF Shutdown, Gone, TypeOK, DaemonTypeOK
<1>2. phase'[p] \notin Held \cup {"loaded"} /\ PhaseRecorded(p)'
  BY <1>1, PhasesSplit DEF PhaseRecorded, Dead, Unlocked
<1>3. Owned => natives \subseteq {p}
  BY <1>1, PidAssumption
     DEF NativeInv, ServerKnown, ServerRecorded, PhaseRecorded, Guarded, Prepared, BoundTo
<1>4. Owned => ServerRecorded'
  BY <1>1, <1>3 DEF ServerRecorded
<1>5. Alive(p)
  BY <1>1, PhasesSplit DEF Alive, Held
<1> QED
  BY <1>1, <1>2, <1>4, <1>5, ProcessKeepsNative

LEMMA DaemonKeepsNative ==
    ASSUME TypeOK, OwnershipInv, NativeInv, NEW p \in Pids, DaemonStep(p), Owned' => Owned,
           operator' = operator
    PROVE  NativeInv'
<1>t. phase \in [Pids -> Phases] /\ view \in [Pids -> Runtimes] /\ natives \subseteq Pids
  BY DEF TypeOK, DaemonTypeOK
<1>o. Owned => CopyIsFile /\ ServerRecorded /\ PhaseRecorded(p)
               /\ (phase[p] \in Held \cup {"loaded"} => view[p] = runtime)
  BY DEF NativeInv, ServerKnown, CopyIsFile
<1>1. CASE CheckCurrent(p)
  <2>1. /\ Alive(p) /\ \A q \in Pids \ {p} : phase'[q] = phase[q]
        /\ phase'[p] \in {"new", "checked"} /\ UNCHANGED <<runtime, natives, sockets>>
    BY <1>1, <1>t DEF CheckCurrent, Advance, Alive, Dead
  <2>2. Owned => /\ phase'[p] \in Held \cup {"loaded"} => view'[p] = runtime'
                 /\ ServerRecorded' /\ PhaseRecorded(p)'
    BY <1>o, <2>1 DEF ServerRecorded, PhaseRecorded, Held, Guarded
  <2> QED
    BY <2>1, <2>2, ProcessKeepsNative
<1>2. CASE Construct(p)
  <2>1. /\ Alive(p) /\ \A q \in Pids \ {p} : phase'[q] = phase[q]
        /\ phase'[p] = "loaded" /\ view'[p] = runtime /\ UNCHANGED <<runtime, natives, sockets>>
    BY <1>2, <1>t DEF Construct, Advance, Alive, Dead
  <2>2. Owned => ServerRecorded' /\ PhaseRecorded(p)'
    BY <1>o, <2>1 DEF ServerRecorded, PhaseRecorded
  <2> QED
    BY <2>1, <2>2, ProcessKeepsNative
<1>3. CASE TakeService(p)
  <2>1. /\ Alive(p) /\ \A q \in Pids \ {p} : phase'[q] = phase[q]
        /\ phase[p] = "loaded" /\ phase'[p] = "locked" /\ UNCHANGED <<view, runtime, natives, sockets>>
    BY <1>3, <1>t DEF TakeService, Advance, Alive, Dead
  <2>2. Owned => view'[p] = runtime' /\ ServerRecorded' /\ PhaseRecorded(p)'
    BY <1>o, <2>1 DEF ServerRecorded, PhaseRecorded
  <2> QED
    BY <2>1, <2>2, ProcessKeepsNative
<1>4. CASE Prepare(p)
  <2>1. /\ Alive(p) /\ \A q \in Pids \ {p} : phase'[q] = phase[q]
        /\ phase[p] = "locked" /\ phase'[p] = "prepared" /\ ~view[p].prepared
        /\ runtime' = Prepared /\ view'[p] = runtime'
        /\ natives' = natives \ {view[p].server}
    BY <1>4, <1>t DEF Prepare, Save, Advance, Alive, Dead, Prepared
  <2>2. Owned => natives' = {}
    BY <1>o, <2>1 DEF ServerRecorded, Held
  <2>3. Owned => ServerRecorded' /\ PhaseRecorded(p)'
    BY <2>1, <2>2 DEF ServerRecorded, PhaseRecorded, Prepared
  <2> QED
    BY <2>1, <2>3, ProcessKeepsNative
<1>5. CASE Spawn(p)
  <2>1. /\ Alive(p) /\ \A q \in Pids \ {p} : phase'[q] = phase[q]
        /\ phase[p] = "prepared" /\ phase'[p] = "spawned"
        /\ natives' = natives \cup {p} /\ sockets' /\ UNCHANGED <<view, runtime>>
    BY <1>5, <1>t DEF Spawn, Advance, Alive, Dead
  <2>2. Owned => view'[p] = runtime' /\ natives' = {p} /\ runtime' = Prepared
    BY <1>o, <2>1 DEF PhaseRecorded, Held, Guarded
  <2>3. Owned => ServerRecorded' /\ PhaseRecorded(p)'
    BY <2>1, <2>2 DEF ServerRecorded, PhaseRecorded, Prepared
  <2> QED
    BY <2>1, <2>2, <2>3, ProcessKeepsNative
<1>6. CASE Bind(p)
  <2>1. /\ Alive(p) /\ \A q \in Pids \ {p} : phase'[q] = phase[q]
        /\ phase[p] = "spawned" /\ phase'[p] = "bound"
        /\ runtime' = BoundTo(p) /\ view'[p] = runtime' /\ UNCHANGED <<natives, sockets>>
    BY <1>6, <1>t DEF Bind, Save, Advance, Alive, Dead, BoundTo
  <2>2. Owned => ServerRecorded' /\ PhaseRecorded(p)'
    BY <1>o, <2>1, PidAssumption DEF ServerRecorded, PhaseRecorded, BoundTo
  <2> QED
    BY <2>1, <2>2, ProcessKeepsNative
<1>7. CASE BecomeReady(p)
  <2>1. /\ Alive(p) /\ \A q \in Pids \ {p} : phase'[q] = phase[q]
        /\ phase[p] = "bound" /\ phase'[p] \in {"ready", "leaving"}
        /\ UNCHANGED <<view, runtime, natives, sockets>>
    BY <1>7, <1>t DEF BecomeReady, Advance, Alive, Dead
  <2>2. Owned => view'[p] = runtime' /\ ServerRecorded' /\ PhaseRecorded(p)'
    BY <1>o, <2>1 DEF ServerRecorded, PhaseRecorded, Held, Guarded
  <2> QED
    BY <2>1, <2>2, ProcessKeepsNative
<1>8. CASE Leave(p) \/ Fail(p)
  <2>1. ASSUME NEW status \in Dead, Shutdown(p, status)
        PROVE  NativeInv'
    BY <2>1, ShutdownKeepsNative
  <2>2. CASE /\ phase[p] \in Unlocked \cup {"locked"} /\ Gone(p, "none")
             /\ UNCHANGED <<releaseVars, runtime, natives, sockets>>
    <3>1. Alive(p) /\ "none" \in Dead
      BY <2>2, PhasesSplit DEF Alive, Dead
    <3> QED
      BY <2>2, <3>1, GoneKeepsNative
  <2> QED
    BY <1>8, <2>1, <2>2 DEF Leave, Fail, Dead
<1> QED
  BY <1>1, <1>2, <1>3, <1>4, <1>5, <1>6, <1>7, <1>8 DEF DaemonStep

LEMMA CleanupKeepsNative ==
    ASSUME TypeOK, OwnershipInv, NativeInv, Cleaned, Owned' => Owned
    PROVE  NativeInv'
<1>1. /\ UNCHANGED <<phase, view, sockets, operator>> /\ natives' = natives \ {runtime.server}
      /\ runtime' = runtime \/ runtime' = [server |-> None, prepared |-> runtime.prepared]
      /\ sup = "cleaning"
  BY DEF Cleaned, operatorVars
<1>2. Owned => \A p \in Pids : phase[p] \in Dead
  <2>1. \A p \in Pids : Owned => ~Alive(p)
    BY <1>1, NobodyLeft DEF Owned
  <2> QED
    BY <2>1 DEF Alive
<1>3. OneProcess' /\ CopyIsFile'
  BY <1>1, <1>2, PhasesSplit DEF OneProcess, CopyIsFile, Alive, Unlocked
<1>4. Owned => ServerRecorded'
  <2>1. None \notin natives /\ runtime \in Runtimes
    BY PidAssumption DEF TypeOK, DaemonTypeOK
  <2>2. Owned => ServerRecorded
    BY DEF NativeInv, ServerKnown
  <2>3. CASE runtime' = runtime
    BY <1>1, <2>2, <2>3 DEF ServerRecorded
  <2>4. CASE runtime' = [server |-> None, prepared |-> runtime.prepared]
    <3>1. runtime'.server = None /\ runtime'.prepared = runtime.prepared
      BY <2>4
    <3> QED
      BY <1>1, <2>1, <2>2, <3>1 DEF ServerRecorded
  <2> QED
    BY <1>1, <2>3, <2>4
<1>5. Owned => \A p \in Pids : PhaseRecorded(p)'
  BY <1>1, <1>2 DEF PhaseRecorded, Dead
<1>6. SwitchClean'
  BY <1>1 DEF OwnershipInv, Exclusion, SwitchClean
<1> QED
  BY <1>3, <1>4, <1>5, <1>6 DEF NativeInv, ServerKnown

LEMMA SpawnKeepsNative ==
    ASSUME TypeOK, OwnershipInv, NativeInv, SpawnChild, Owned' => Owned
    PROVE  NativeInv'
<1>1. PICK p \in Pids : Fresh(p) /\ Exec(p, pointer.current)
  BY DEF SpawnChild
<1>2. /\ UNCHANGED <<view, runtime, natives, sockets, operator>> /\ sup = "attempt"
      /\ phase'[p] = "new" /\ \A q \in Pids \ {p} : phase'[q] = phase[q]
  BY <1>1 DEF SpawnChild, Exec, operatorVars, TypeOK, DaemonTypeOK
<1>3. Owned => \A q \in Pids \ {p} : phase'[q] \in Dead
  <2>1. \A q \in Pids : Owned => ~Alive(q)
    BY <1>2, NobodyLeft DEF Owned, Alone
  <2> QED
    BY <1>2, <2>1 DEF Alive
<1>4. OneProcess'
  BY <1>3 DEF OneProcess, Alive
<1>5. CopyIsFile'
  BY <1>2, <1>3, PhasesSplit DEF CopyIsFile, Unlocked
<1>6. ServerKnown'
  <2>1. Owned => ServerRecorded'
    BY <1>2 DEF NativeInv, ServerKnown, ServerRecorded
  <2>2. Owned => \A q \in Pids : PhaseRecorded(q)'
    BY <1>2, <1>3 DEF PhaseRecorded, Dead
  <2> QED
    BY <2>1, <2>2 DEF ServerKnown
<1>7. SwitchClean'
  BY <1>2 DEF NativeInv, SwitchClean
<1> QED
  BY <1>4, <1>5, <1>6, <1>7 DEF NativeInv

LEMMA ReapKeepsNative ==
    ASSUME TypeOK, NativeInv, ChildGone, Owned' => Owned
    PROVE  NativeInv'
<1>1. UNCHANGED <<view, runtime, natives, sockets, operator>>
  BY DEF ChildGone, operatorVars
<1>2. \A p \in Pids : phase'[p] = phase[p] \/ (phase[p] \in Dead /\ phase'[p] \in Dead)
  BY PidAssumption DEF ChildGone, Alive, Dead, TypeOK, DaemonTypeOK
<1>3. \A p \in Pids : phase'[p] \notin Dead => phase'[p] = phase[p]
  BY <1>2
<1>4. OneProcess'
  BY <1>3 DEF NativeInv, OneProcess, Alive
<1>5. CopyIsFile'
  BY <1>1, <1>3, PhasesSplit DEF NativeInv, CopyIsFile, Unlocked
<1>6. Owned => ServerRecorded'
  BY <1>1 DEF NativeInv, ServerKnown, ServerRecorded
<1>7. Owned => \A p \in Pids : PhaseRecorded(p)'
  BY <1>1, <1>3 DEF NativeInv, ServerKnown, PhaseRecorded, Dead
<1>8. SwitchClean'
  BY <1>1 DEF NativeInv, SwitchClean
<1> QED
  BY <1>4, <1>5, <1>6, <1>7, <1>8 DEF NativeInv, ServerKnown

LEMMA NativeStep == TypeOK /\ OwnershipInv /\ NativeInv /\ [Next]_vars => NativeInv'
<1> SUFFICES ASSUME TypeOK, OwnershipInv, NativeInv, [Next]_vars
             PROVE  NativeInv'
  OBVIOUS
<1>h. Owned' => Owned
  BY HistoryGrows
<1> DEFINE Untouched == UNCHANGED <<phase, view, runtime, natives, sockets>>
<1>1. CASE SupervisorStep
  <2>o. operator' = operator
    BY <1>1 DEF SupervisorStep, AskChild, KillChild, ChildGone, CleanOrphan, Cleaned, AfterCleanup,
       RetryDelay, StopInLoop, ObserveActivation, Blocked, WriteOff, FallBack, RecordAttempt,
       SpawnChild, SpawnFails, RecordChild, StopSeen, ChildExited, DeadlinePassed, OtherAnswers,
       Ends, ObserveReady, StayedHealthy, operatorVars
  <2>c. child \in Pids \cup {None}
    BY DEF TypeOK, SupTypeOK
  <2>1. CASE AskChild
    BY <1>h, <2>o, <2>c, <2>1, AskedKeepsNative DEF AskChild
  <2>2. CASE KillChild
    BY <1>h, <2>o, <2>c, <2>2, GoneKeepsNative DEF KillChild, Vanish, Dead
  <2>3. CASE ChildGone \/ Cleaned \/ SpawnChild
    BY <1>h, <2>3, ReapKeepsNative, CleanupKeepsNative, SpawnKeepsNative
  <2>4. CASE ~(AskChild \/ KillChild \/ ChildGone \/ Cleaned \/ SpawnChild)
    <3>1. Untouched
      BY <1>1, <2>4 DEF SupervisorStep, CleanOrphan, AfterCleanup, RetryDelay, StopInLoop,
         ObserveActivation, Blocked, WriteOff, FallBack, RecordAttempt, SpawnFails, RecordChild,
         StopSeen, ChildExited, DeadlinePassed, OtherAnswers, Ends, ObserveReady, StayedHealthy,
         daemonVars
    <3> QED
      BY <1>h, <2>o, <3>1, UntouchedNative
  <2> QED
    BY <2>1, <2>2, <2>3, <2>4
<1>2. CASE OperatorStep
  <2>1. CASE StartService
    <3>1. ~Owned'
      BY <2>1, SupervisionAssumption DEF StartService, Owned, TypeOK, HistoryTypeOK
    <3> QED
      BY <3>1 DEF NativeInv, OneProcess, CopyIsFile, ServerKnown, SwitchClean
  <2>2. ASSUME NEW p \in Pids, RequestShutdown(p)
        PROVE  NativeInv'
    <3>1. Alive(p) /\ operator' = operator
      BY <2>2 DEF RequestShutdown, Answering, Ready, Alive, Dead, operatorVars
    <3> QED
      BY <1>h, <2>2, <3>1, AskedKeepsNative DEF RequestShutdown
  <2>3. CASE ~(StartService \/ \E p \in Pids : RequestShutdown(p))
    <3>1. Untouched /\ (operator' = "switch" => operator = "switch" \/ ~sockets)
      BY <1>2, <2>3 DEF OperatorStep, StartReturns, StartSupervised, StopSupervised, StopConfirmed,
         StopUnconfirmed, Install, BeginSwitch, EndSwitch, daemonVars, operatorVars
    <3> QED
      BY <1>h, <3>1, UntouchedNative
  <2> QED
    BY <2>1, <2>2, <2>3
<1>3. CASE Launch \/ SupervisorLost \/ Uses \/ UNCHANGED vars
  <2>1. Untouched /\ operator' = operator
    BY <1>3 DEF Launch, SupervisorLost, Uses, Introduce, Others, daemonVars, operatorVars, vars
  <2> QED
    BY <1>h, <2>1, UntouchedNative
<1>4. CASE Mishap
  <2>1. operator' = operator
    BY <1>4 DEF Mishap, operatorVars
  <2>2. CASE UNCHANGED daemonVars
    BY <1>h, <2>1, <2>2, UntouchedNative DEF daemonVars
  <2>3. ASSUME NEW p \in Pids, Vanish(p)
        PROVE  NativeInv'
    BY <1>h, <2>1, <2>3, GoneKeepsNative DEF Vanish, Dead
  <2> QED
    BY <1>4, <2>2, <2>3 DEF Mishap
<1>5. ASSUME NEW p \in Pids, Runs(p)
      PROVE  NativeInv'
  BY <1>h, <1>5, DaemonKeepsNative DEF Runs, Others, operatorVars
<1> QED
  BY <1>1, <1>2, <1>3, <1>4, <1>5 DEF Next

LEMMA NativeInit == Init => NativeInv
<1> SUFFICES ASSUME Init PROVE NativeInv
  OBVIOUS
<1>1. /\ \A p \in Pids : phase[p] \in Dead
      /\ runtime = Blank /\ natives = {} /\ operator = "none"
  BY DEF Init, DaemonInit, Dead
<1>2. OneProcess /\ CopyIsFile /\ SwitchClean
  BY <1>1, PhasesSplit DEF OneProcess, CopyIsFile, SwitchClean, Alive, Unlocked
<1>3. ServerKnown
  BY <1>1 DEF ServerKnown, ServerRecorded, PhaseRecorded, Blank, Dead
<1> QED
  BY <1>2, <1>3 DEF NativeInv

LEMMA NativeHolds == Spec => [](TypeOK /\ OwnershipInv /\ NativeInv)
BY NativeInit, NativeStep, OwnershipHolds, PTL DEF Spec

(***************************************************************************)
(* As long as only the supervisor starts services, and none of its starts  *)
(* is lost before service.lock, at most one native server is alive: one    *)
(* that was killed before it was bound keeps runtime.json prepared, and    *)
(* with that every later start from a spawn (service.py _recover_orphan,   *)
(* _prepare_resource_epoch; supervisor.py clean_orphan).                   *)
(***************************************************************************)
THEOREM OneServerAtATime == Spec => []OneNativeSupervised
<1>1. TypeOK /\ NativeInv => OneNativeSupervised
  <2> SUFFICES ASSUME NativeInv, Owned
               PROVE  Cardinality(natives) <= 1
    BY DEF OneNativeSupervised, OneNative
  <2>1. \A p, q \in natives : p = q
    BY DEF NativeInv, ServerKnown, ServerRecorded
  <2>2. CASE natives = {}
    BY <2>2, FS_EmptySet
  <2>3. CASE natives # {}
    <3>1. PICK p \in natives : TRUE
      BY <2>3
    <3>2. natives = {p}
      BY <2>1, <3>1
    <3> QED
      BY <3>2, FS_Singleton
  <2> QED
    BY <2>2, <2>3
<1> QED
  BY <1>1, NativeHolds, PTL

(***************************************************************************)
(* A release is switched with nothing left behind: no supervisor, no       *)
(* service, and no native server, recorded or not, although                *)
(* offline_maintenance looks only at the record and at the sockets.        *)
(***************************************************************************)
THEOREM SwitchFindsQuiet == Spec => []SwitchQuiet
<1>1. TypeOK /\ OwnershipInv /\ NativeInv => SwitchQuiet
  <2> SUFFICES ASSUME OwnershipInv, NativeInv, operator = "switch"
               PROVE  /\ sup = "off"
                      /\ \A p \in Pids : phase[p] \notin Guarded \cup {"locked"}
                      /\ Owned => natives = {}
    BY DEF SwitchQuiet
  <2>1. sup = "off" /\ service = "operator"
    BY DEF OwnershipInv, Exclusion
  <2>2. \A p \in Pids : phase[p] \notin Held
    BY <2>1, PidAssumption DEF OwnershipInv, LockHeld
  <2> QED
    BY <2>1, <2>2 DEF NativeInv, SwitchClean, Held
<1> QED
  BY <1>1, NativeHolds, PTL

-----------------------------------------------------------------------------
(* The formats in the data, and the code that has to read them. *)

\* service.lock is held by nobody else than a process that is past it.
LockIsHeld == service \in Pids => phase[service] \in Held

\* Code past its check reads the data, and an installed bootstrap reads what it may write.
Checked(p) == phase[p] \notin Dead \cup {"new"}
CodeFits ==
    ~lost =>
        /\ \A p \in Pids : Checked(p) =>
              /\ data \subseteq Caps[code[p]]
              /\ installed => Caps[code[p]] \subseteq bootCaps
        /\ installed => data \subseteq bootCaps

LEMMA CheckedMoves ==
    ASSUME DaemonTypeOK, NEW p \in Pids,
           (DaemonStep(p) /\ UNCHANGED releaseVars) \/ (Alive(p) /\ AskToStop(p)) \/ Vanish(p)
    PROVE  /\ MovesOn(p)
           /\ Checked(p)' => (Checked(p) /\ code'[p] = code[p])
                             \/ (code'[p] = pointer.current /\ CurrentRuns)
<1>1. CASE CheckCurrent(p) /\ UNCHANGED releaseVars
  BY <1>1, StepMoves DEF DaemonStep, CheckCurrent, MovesOn, Checked
<1>2. CASE DaemonStep(p) /\ ~CheckCurrent(p)
  <2>1. MovesOn(p)
    BY <1>2, StepMoves
  <2>2. CASE Construct(p) \/ TakeService(p) \/ Prepare(p) \/ Spawn(p) \/ Bind(p) \/ BecomeReady(p)
    BY <2>1, <2>2 DEF Construct, TakeService, Prepare, Spawn, Bind, BecomeReady, Advance, Checked, Dead
  <2>3. CASE Leave(p) \/ Fail(p)
    BY <2>1, <2>3 DEF Leave, Fail, Shutdown, Gone, Checked, Dead, DaemonTypeOK
  <2> QED
    BY <1>2, <2>1, <2>2, <2>3 DEF DaemonStep
<1>3. CASE Alive(p) /\ AskToStop(p)
  <2>1. MovesOn(p)
    BY <1>3, AskedMoves
  <2>2. CASE phase[p] \in {"new", "checked"}
    BY <1>3, <2>1, <2>2 DEF AskToStop, Gone, Checked, Dead, DaemonTypeOK
  <2>3. CASE phase[p] \notin {"new", "checked"}
    BY <1>3, <2>1, <2>3 DEF AskToStop, Checked, Alive
  <2> QED
    BY <2>1, <2>2, <2>3
<1>4. CASE Vanish(p)
  BY <1>4, VanishMoves DEF Vanish, Gone, Checked, Dead, DaemonTypeOK
<1> QED
  BY <1>1, <1>2, <1>3, <1>4

LEMMA ProcessKeepsFormats ==
    ASSUME TypeOK, CodeFits, LockIsHeld, NEW p \in Pids, MovesOn(p), ~lost' => ~lost,
           Checked(p)' => (Checked(p) /\ code'[p] = code[p])
                          \/ (code'[p] = pointer.current /\ CurrentRuns),
           UNCHANGED <<data, installed, bootCaps>>
    PROVE  CodeFits' /\ LockIsHeld'
<1>1. LockIsHeld'
  BY PidAssumption, PhasesSplit DEF LockIsHeld, MovesOn
<1>2. \A q \in Pids \ {p} : Checked(q)' => Checked(q) /\ code'[q] = code[q]
  BY DEF MovesOn, Checked
<1>3. code'[p] = pointer.current /\ CurrentRuns
        => data \subseteq Caps[code'[p]] /\ (installed => Caps[code'[p]] \subseteq bootCaps)
  BY DEF CurrentRuns, Runnable, DataFits, BootFits
<1>4. CodeFits'
  BY <1>2, <1>3 DEF CodeFits
<1> QED
  BY <1>1, <1>4

\* A step that lets no process pass the check, and changes no format.
LEMMA UntouchedFormats ==
    ASSUME CodeFits, LockIsHeld, ~lost' => ~lost,
           \A p \in Pids : \/ phase'[p] = phase[p] /\ code'[p] = code[p]
                           \/ phase[p] \in Dead /\ phase'[p] \in Dead \cup {"new"},
           UNCHANGED <<data, bootCaps>>, installed' => installed,
           service' = service \/ service' \notin Pids
    PROVE  CodeFits' /\ LockIsHeld'
<1>1. LockIsHeld'
  BY PhasesSplit DEF LockIsHeld
<1>2. \A p \in Pids : Checked(p)' => Checked(p) /\ code'[p] = code[p]
  BY DEF Checked
<1>3. CodeFits'
  BY <1>2 DEF CodeFits
<1> QED
  BY <1>1, <1>3

LEMMA InstallKeepsFormats ==
    ASSUME TypeOK, RunsCurrent, CodeFits, LockIsHeld, Install
    PROVE  CodeFits' /\ LockIsHeld'
<1>1. /\ CurrentRuns /\ bootCaps' = Caps[pointer.current]
      /\ UNCHANGED <<pointer, data, phase, code, service, lost>>
  BY DEF Install, daemonVars, ghostVars
<1>2. LockIsHeld'
  BY <1>1 DEF LockIsHeld
<1>3. data \subseteq bootCaps'
  BY <1>1 DEF CurrentRuns, Runnable, DataFits
<1>4. ~lost => \A p \in Pids : Checked(p) => code[p] = pointer.current
  BY DEF RunsCurrent, SwitchSerialized, Alive, Checked
<1>5. CodeFits'
  BY <1>1, <1>3, <1>4 DEF CodeFits, Checked
<1> QED
  BY <1>2, <1>5

LEMMA UseKeepsFormats ==
    ASSUME TypeOK, RunsCurrent, CodeFits, LockIsHeld, Uses
    PROVE  CodeFits' /\ LockIsHeld'
<1>1. PICK q \in Pids, f \in Formats : Introduce(q, f) /\ Others
  BY DEF Uses
<1>2. /\ phase[q] \in Guarded /\ f \in Caps[code[q]] /\ data' = data \cup {f}
      /\ UNCHANGED <<installed, bootCaps, phase, code, service, lost>>
  BY <1>1 DEF Introduce, Others, daemonVars, ghostVars
<1>3. LockIsHeld'
  BY <1>2 DEF LockIsHeld
<1>4. Checked(q)
  BY <1>2 DEF Checked, Dead, Guarded
<1>5. ~lost => \A p \in Pids : Checked(p) => code[p] = code[q]
  BY <1>4 DEF RunsCurrent, SwitchSerialized, Alive, Checked
<1>6. ~lost => \A p \in Pids : Checked(p) => data' \subseteq Caps[code[p]]
  BY <1>2, <1>5 DEF CodeFits
<1>7. ~lost /\ installed => data' \subseteq bootCaps
  BY <1>2, <1>4 DEF CodeFits
<1>8. CodeFits'
  BY <1>2, <1>6, <1>7 DEF CodeFits, Checked
<1> QED
  BY <1>3, <1>8

LEMMA FormatsStep ==
    TypeOK /\ RunsCurrent /\ CodeFits /\ LockIsHeld /\ [Next]_vars => CodeFits' /\ LockIsHeld'
<1> SUFFICES ASSUME TypeOK, RunsCurrent, CodeFits, LockIsHeld, [Next]_vars
             PROVE  CodeFits' /\ LockIsHeld'
  OBVIOUS
<1>h. ~lost' => ~lost
  BY HistoryGrows
<1>t. DaemonTypeOK /\ ReleaseTypeOK /\ child \in Pids \cup {None}
  BY DEF TypeOK, SupTypeOK
<1>e. ASSUME NEW p \in Pids, NEW c, Fresh(p), Exec(p, c), UNCHANGED releaseVars
      PROVE  CodeFits' /\ LockIsHeld'
  BY <1>h, <1>t, <1>e, UntouchedFormats DEF Exec, Fresh, Alive, DaemonTypeOK, releaseVars
<1>1. CASE SupervisorStep
  <2>1. CASE AskChild \/ KillChild
    <3>1. /\ child \in Pids /\ UNCHANGED <<data, installed, bootCaps>>
          /\ (Alive(child) /\ AskToStop(child)) \/ Vanish(child)
      BY <1>t, <2>1 DEF AskChild, KillChild, releaseVars
    <3> QED
      BY <1>h, <1>t, <3>1, CheckedMoves, ProcessKeepsFormats
  <2>2. CASE ChildGone
    <3>1. \A p \in Pids : phase'[p] = phase[p] \/ (phase[p] \in Dead /\ phase'[p] \in Dead)
      BY <1>t, <2>2, PidAssumption DEF ChildGone, Alive, Dead, DaemonTypeOK
    <3> QED
      BY <1>h, <2>2, <3>1, UntouchedFormats DEF ChildGone, releaseVars
  <2>3. CASE SpawnChild
    BY <1>e, <2>3 DEF SpawnChild
  <2>4. CASE ~(AskChild \/ KillChild \/ ChildGone \/ SpawnChild)
    <3>1. /\ UNCHANGED <<phase, code, data, installed, bootCaps>>
          /\ service' \in {service, "supervisor", None}
      BY <1>1, <2>4 DEF SupervisorStep, CleanOrphan, Cleaned, AfterCleanup, RetryDelay, StopInLoop,
         ObserveActivation, Blocked, WriteOff, FallBack, RecordAttempt, SpawnFails, RecordChild,
         StopSeen, ChildExited, DeadlinePassed, OtherAnswers, Ends, ObserveReady, StayedHealthy,
         releaseVars, daemonVars
    <3> QED
      BY <1>h, <3>1, PidAssumption, UntouchedFormats
  <2> QED
    BY <2>1, <2>2, <2>3, <2>4
<1>2. CASE OperatorStep
  <2>1. CASE StartService
    BY <1>e, <2>1 DEF StartService
  <2>2. ASSUME NEW p \in Pids, RequestShutdown(p)
        PROVE  CodeFits' /\ LockIsHeld'
    <3>1. Alive(p) /\ AskToStop(p) /\ UNCHANGED <<data, installed, bootCaps>>
      BY <2>2 DEF RequestShutdown, Answering, Ready, Alive, Dead, releaseVars
    <3> QED
      BY <1>h, <1>t, <3>1, CheckedMoves, ProcessKeepsFormats
  <2>3. CASE Install
    BY <2>3, InstallKeepsFormats
  <2>4. CASE ~(StartService \/ Install \/ \E p \in Pids : RequestShutdown(p))
    <3>1. /\ UNCHANGED <<phase, code, data, bootCaps>>
          /\ service' \in {service, "operator", None}
      BY <1>2, <2>4 DEF OperatorStep, StartReturns, StartSupervised, StopSupervised,
         StopConfirmed, StopUnconfirmed, BeginSwitch, EndSwitch, releaseVars, daemonVars
    <3>2. installed' => installed
      BY <1>2, <2>4 DEF OperatorStep, StartReturns, StartSupervised, StopSupervised,
         StopConfirmed, StopUnconfirmed, BeginSwitch, EndSwitch, releaseVars
    <3> QED
      BY <1>h, <3>1, <3>2, PidAssumption, UntouchedFormats
  <2> QED
    BY <2>1, <2>2, <2>3, <2>4
<1>3. CASE Launch \/ UNCHANGED vars
  BY <1>h, <1>3, UntouchedFormats DEF Launch, vars, releaseVars, daemonVars
<1>4. CASE SupervisorLost
  <2>1. UNCHANGED <<phase, code, data, installed, bootCaps>> /\ service' \in {service, None}
    BY <1>4 DEF SupervisorLost, releaseVars
  <2> QED
    BY <1>h, <2>1, PidAssumption, UntouchedFormats
<1>5. CASE Mishap
  <2>1. ASSUME NEW c \in Candidates, Damage(c), UNCHANGED daemonVars
        PROVE  CodeFits' /\ LockIsHeld'
    BY <1>h, <2>1, UntouchedFormats DEF Damage, daemonVars
  <2>2. ASSUME NEW p \in Pids, Vanish(p), UNCHANGED releaseVars
        PROVE  CodeFits' /\ LockIsHeld'
    BY <1>h, <1>t, <2>2, CheckedMoves, ProcessKeepsFormats DEF releaseVars
  <2> QED
    BY <1>5, <2>1, <2>2 DEF Mishap
<1>6. CASE Uses
  BY <1>6, UseKeepsFormats
<1>7. ASSUME NEW p \in Pids, Runs(p)
      PROVE  CodeFits' /\ LockIsHeld'
  <2>1. DaemonStep(p) /\ UNCHANGED releaseVars
    BY <1>7, <1>t, DaemonStepType DEF Runs
  <2> QED
    BY <1>h, <1>t, <2>1, CheckedMoves, ProcessKeepsFormats DEF releaseVars
<1> QED
  BY <1>1, <1>2, <1>3, <1>4, <1>5, <1>6, <1>7 DEF Next

LEMMA FormatsInit == Init => CodeFits /\ LockIsHeld
BY PidAssumption DEF Init, DaemonInit, ReleaseInit, CodeFits, LockIsHeld, Checked, Dead

(***************************************************************************)
(* The data never holds a format that the service inside its lock, or the  *)
(* installed bootstrap that cleans up after it, cannot read, whatever the  *)
(* order of checks, starts, switches and installations (releases.py        *)
(* _check_data_schema, _check_bootstrap_policy): one check of the pointer  *)
(* before a start is enough, since it stays current until its end.         *)
(***************************************************************************)
THEOREM FormatsAreUnderstood == Spec => []Understands
<1>1. CodeFits /\ LockIsHeld => Understands
  <2> SUFFICES ASSUME CodeFits, LockIsHeld, ~lost
               PROVE  /\ \A p \in Pids : service = p => data \subseteq Caps[code[p]]
                      /\ installed => data \subseteq bootCaps
    BY DEF Understands
  <2>1. \A p \in Pids : service = p => Checked(p)
    BY PhasesSplit DEF LockIsHeld, Checked
  <2> QED
    BY <2>1 DEF CodeFits
<1>2. TypeOK /\ OwnershipInv /\ RunsCurrent => TypeOK /\ RunsCurrent
  OBVIOUS
<1> QED
  BY <1>1, <1>2, FormatsInit, FormatsStep, OwnershipHolds, PTL DEF Spec
=============================================================================
