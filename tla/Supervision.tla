---------------------------- MODULE Supervision ----------------------------
(***************************************************************************)
(* Who starts, stops and replaces the service: the stable supervisor       *)
(* (supervisor.py) under launchd, and the operator's commands start, stop, *)
(* service install / uninstall, release activate / rollback (cli.py,       *)
(* launchd.py, lifecycle.py).                                              *)
(*                                                                         *)
(* Every change of the supervisor's attempts, failed and activation_epoch  *)
(* is saved before its next await, so one durable copy stands for both;    *)
(* only the recorded child differs between memory and disk.                *)
(***************************************************************************)
EXTENDS Daemon

CONSTANTS
    MaxFailures,     \* Supervisor.max_failures
    MaxFaults,       \* bound: losses of a process, damage, a start given up early
    MaxDirect,       \* bound: starts without the supervisor
    MaxEvents        \* bound: all of these, activations and a lost start together

ASSUME SupervisionAssumption ==
    /\ MaxFailures \in Nat \ {0}
    /\ MaxFaults \in Nat
    /\ MaxDirect \in Nat
    /\ MaxEvents \in Nat

VARIABLES
    job,             \* launchd's view of the label
    sup,             \* where the supervisor is; it holds bootstrap.lock unless "off"
    stopping,        \* stop_event of the running supervisor
    book,            \* state/bootstrap-state.json
    child,           \* self.state["child"] in memory
    process,         \* self.process, the child it started itself
    outcome,         \* how its attempt ended
    operator,        \* the command that holds lifecycle.lock
    waiting,         \* the process an unsupervised start waits for
    faults,          \* history: how many of those there were
    starts,          \* history: starts per candidate since it was last proven healthy
    abandoned,       \* history: candidates that were current earlier in this epoch
    direct,          \* history: starts without the supervisor
    lost             \* history: a starter was gone before its process had service.lock

supVars == <<job, sup, stopping, book, child, process, outcome>>
operatorVars == <<operator, waiting>>
ghostVars == <<faults, starts, abandoned, direct, lost>>
vars == <<releaseVars, daemonVars, supVars, operatorVars, ghostVars>>

SupPoints == {"off", "terminate", "clean", "cleaning", "after", "loop", "fallback", "attempt",
              "record", "watch", "ready", "healthy", "delay"}
Watching == {"watch", "ready", "healthy"}
Outcomes == {"boot", "stopped", "failed", "error"}
Commands == {"none", "start", "stop", "uninstall", "switch"}
NoAttempts == [c \in Candidates |-> 0]

SupTypeOK ==
    /\ job \in {"unloaded", "loaded", "due"}
    /\ sup \in SupPoints
    /\ stopping \in BOOLEAN
    /\ book \in [epoch: 0..MaxEpoch \cup {None}, attempts: [Candidates -> 0..MaxFailures],
                 failed: SUBSET Candidates, child: Pids \cup {None}]
    /\ child \in Pids \cup {None}
    /\ process \in Pids \cup {None}
    /\ outcome \in Outcomes

OperatorTypeOK ==
    /\ operator \in Commands
    /\ waiting \in Pids \cup {None}

HistoryTypeOK ==
    /\ faults \in 0..MaxFaults
    /\ starts \in [Candidates -> Nat]
    /\ abandoned \in SUBSET Candidates
    /\ direct \in 0..MaxDirect
    /\ lost \in BOOLEAN

TypeOK == ReleaseTypeOK /\ DaemonTypeOK /\ SupTypeOK /\ OperatorTypeOK /\ HistoryTypeOK

Init ==
    /\ ReleaseInit
    /\ DaemonInit
    /\ job = "unloaded"
    /\ sup = "off"
    /\ stopping = FALSE
    /\ book = [epoch |-> None, attempts |-> NoAttempts, failed |-> {}, child |-> None]
    /\ child = None
    /\ process = None
    /\ outcome = "boot"
    /\ operator = "none"
    /\ waiting = None
    /\ faults = 0
    /\ starts = NoAttempts
    /\ abandoned = {}
    /\ direct = 0
    /\ lost = FALSE

\* Pid and birth time identify a process: a name is used again once nothing refers to it.
Fresh(p) ==
    /\ ~Alive(p)
    /\ p \notin natives \cup {book.child, child, process, waiting, runtime.server}
    /\ \A q \in Pids : view[q].server # p

\* The control socket answers for the process that serves it.
Answering == {p \in Pids : Ready(p)}

\* The bounds leave room for another activation, direct start or fault; a lost start counts too.
Room == pointer.epoch + direct + faults + (IF lost THEN 1 ELSE 0) < MaxEvents

\* What nobody asked for happens MaxFaults times.
Fault == faults < MaxFaults /\ Room /\ faults' = faults + 1

-----------------------------------------------------------------------------
(* The supervisor.  It is one process: its steps follow one another.       *)

Goto(point) == sup' = point /\ UNCHANGED <<job, stopping>>

\* main returns 0 whatever happened, so launchd does not start it again.
Exit ==
    /\ sup' = "off"
    /\ stopping' = FALSE
    /\ child' = None
    /\ process' = None
    /\ outcome' = "boot"
    /\ UNCHANGED job

\* Supervisor.save: the child on record is the one in memory.
Write(epoch, attempts, failed) ==
    book' = [epoch |-> epoch, attempts |-> attempts, failed |-> failed, child |-> child]

WriteBack == Write(book.epoch, book.attempts, book.failed)

\* The attempts with n of them for the current candidate.
Counting(n) == [book.attempts EXCEPT ![pointer.current] = n]

\* The start of run: the child that the last supervisor recorded is stopped first.
Launch ==
    /\ sup = "off" /\ job = "due"
    /\ job' = "loaded"
    /\ sup' = "terminate"
    /\ child' = book.child
    /\ UNCHANGED <<releaseVars, daemonVars, operatorVars, ghostVars,
                   stopping, book, process, outcome>>

\* terminate_child asks the recorded child, and kills it when the wait is over.
AskChild ==
    /\ sup = "terminate"
    /\ child # None /\ Alive(child) /\ child \notin asked /\ phase[child] # "leaving"
    /\ AskToStop(child)
    /\ UNCHANGED <<releaseVars, runtime, natives, sockets, supVars, operatorVars, ghostVars>>

KillChild ==
    /\ sup = "terminate"
    /\ child # None /\ Alive(child) /\ (child \in asked \/ phase[child] = "leaving")
    /\ Vanish(child)
    /\ UNCHANGED <<releaseVars, supVars, operatorVars, ghostVars>>

\* Both the recorded child and the process it started itself are over, and reaped.
ChildGone ==
    /\ sup = "terminate"
    /\ \A p \in {child, process} \ {None} : ~Alive(p)
    /\ phase' = [p \in Pids |-> IF p = process THEN "none" ELSE phase[p]]
    /\ child' = None
    /\ process' = None
    /\ Goto("clean")
    /\ UNCHANGED <<releaseVars, code, view, asked, service, runtime, natives, sockets,
                   operatorVars, ghostVars, book, outcome>>

\* clean_orphan holds service.lock; a service of another starter makes it give up.
CleanOrphan ==
    /\ sup = "clean"
    /\ IF service = None
       THEN service' = "supervisor" /\ Goto("cleaning") /\ UNCHANGED <<child, process, outcome>>
       ELSE Exit /\ UNCHANGED service
    /\ UNCHANGED <<releaseVars, phase, code, view, asked, runtime, natives, sockets,
                   operatorVars, ghostVars, book>>

\* Mutant: the record of the native server is cleared, the server is not stopped.
CleanedOnPaper ==
    /\ sup = "cleaning"
    /\ service' = None
    /\ IF data \subseteq bootCaps
       THEN /\ runtime' = [server |-> None, prepared |-> runtime.prepared]
            /\ Goto(IF outcome = "boot" THEN "loop" ELSE "after")
            /\ UNCHANGED <<child, process, outcome>>
       ELSE Exit /\ UNCHANGED runtime
    /\ UNCHANGED <<releaseVars, phase, code, view, asked, natives, sockets, operatorVars, ghostVars, book>>

\* The recorded native server dies first; data that the bootstrap cannot read ends it there.
Cleaned ==
    /\ sup = "cleaning"
    /\ natives' = natives \ {runtime.server}
    /\ service' = None
    /\ IF data \subseteq bootCaps
       THEN /\ runtime' = [server |-> None, prepared |-> runtime.prepared]
            /\ Goto(IF outcome = "boot" THEN "loop" ELSE "after")
            /\ UNCHANGED <<child, process, outcome>>
       ELSE Exit /\ UNCHANGED runtime
    /\ UNCHANGED <<releaseVars, phase, code, view, asked, sockets, operatorVars, ghostVars, book>>

\* The end of an attempt: an error ends run, so does a stop, and a failure waits for a retry.
ForgiveAttempts ==
    /\ Write(book.epoch, Counting(0), book.failed)
    /\ starts' = [starts EXCEPT ![pointer.current] = 0]

EndWithError == outcome = "error" /\ Exit /\ UNCHANGED <<book, starts>>

EndStopped == (outcome = "stopped" \/ stopping) /\ outcome # "error" /\ ForgiveAttempts /\ Exit

WaitToRetry ==
    /\ outcome = "failed" /\ ~stopping
    /\ WriteBack
    /\ Goto("delay")
    /\ UNCHANGED <<child, process, outcome, starts>>

AfterCleanup ==
    /\ sup = "after"
    /\ EndWithError \/ EndStopped \/ WaitToRetry
    /\ UNCHANGED <<releaseVars, daemonVars, operatorVars, faults, abandoned, direct, lost>>

RetryDelay ==
    /\ sup = "delay"
    /\ IF stopping
       THEN ForgiveAttempts /\ Exit
       ELSE Goto("loop") /\ UNCHANGED <<child, process, outcome, book, starts>>
    /\ UNCHANGED <<releaseVars, daemonVars, operatorVars, faults, abandoned, direct, lost>>

\* One turn of the loop in run, up to the start of an attempt.
InLoop == sup = "loop" /\ ~stopping
Observed == book.epoch = pointer.epoch
Tried == pointer.current \in book.failed
RefusedUnlimited == ~CurrentRuns       \* mutant: failures are not counted
Refused == ~CurrentRuns \/ book.attempts[pointer.current] >= MaxFailures

StopInLoop ==
    /\ sup = "loop" /\ stopping
    /\ WriteBack /\ Exit
    /\ UNCHANGED <<releaseVars, daemonVars, operatorVars, ghostVars>>

ObserveActivation ==
    /\ InLoop /\ ~Observed
    /\ Write(pointer.epoch, NoAttempts, {})
    /\ starts' = NoAttempts
    /\ UNCHANGED <<releaseVars, daemonVars, operatorVars, job, sup, stopping, child, process,
                   outcome, faults, abandoned, direct, lost>>

Blocked ==
    /\ InLoop /\ Observed /\ Tried
    /\ WriteBack /\ Exit
    /\ UNCHANGED <<releaseVars, daemonVars, operatorVars, ghostVars>>

\* fallback: the candidate is written off before the pointer moves.
WriteOff ==
    /\ InLoop /\ Observed /\ ~Tried /\ Refused
    /\ Write(book.epoch, book.attempts, book.failed \cup {pointer.current})
    /\ Goto("fallback")
    /\ UNCHANGED <<releaseVars, daemonVars, operatorVars, ghostVars, child, process, outcome>>

FallBack ==
    /\ sup = "fallback"
    /\ WriteBack
    /\ IF CanFallBack(pointer.current, book.failed, book.epoch)
       THEN /\ AutomaticRollback(pointer.current, book.failed, book.epoch)
            /\ abandoned' = abandoned \cup {pointer.current}
            /\ Goto("loop") /\ UNCHANGED <<child, process, outcome>>
       ELSE Exit /\ UNCHANGED <<pointer, abandoned>>
    /\ UNCHANGED <<intact, data, installed, bootCaps, daemonVars, operatorVars, faults, starts, direct, lost>>

\* Mutant: the attempt is counted, but not saved before the start.
AttemptNotSaved ==
    /\ InLoop /\ Observed /\ ~Tried /\ ~Refused
    /\ Goto("attempt")
    /\ UNCHANGED <<releaseVars, daemonVars, operatorVars, ghostVars, book, child, process, outcome>>

RecordAttempt ==
    /\ InLoop /\ Observed /\ ~Tried /\ ~Refused
    /\ Write(book.epoch, Counting(book.attempts[pointer.current] + 1), book.failed)
    /\ Goto("attempt")
    /\ UNCHANGED <<releaseVars, daemonVars, operatorVars, ghostVars, child, process, outcome>>

\* attempt, from the spawn to the outcome.
SpawnChild ==
    /\ sup = "attempt"
    /\ \E p \in Pids : Fresh(p) /\ Exec(p, pointer.current) /\ process' = p
    /\ starts' = [starts EXCEPT ![pointer.current] = @ + 1]
    /\ Goto("record")
    /\ UNCHANGED <<releaseVars, operatorVars, faults, abandoned, direct, lost, book, child, outcome>>

SpawnFails ==
    /\ sup = "attempt"
    /\ WriteBack
    /\ outcome' = "failed"
    /\ Goto("terminate")
    /\ UNCHANGED <<releaseVars, daemonVars, operatorVars, ghostVars, child, process>>

\* A process that is over already has no birth to record.
RecordChild ==
    /\ sup = "record"
    /\ child' = IF Alive(process) THEN process ELSE None
    /\ book' = [epoch |-> book.epoch, attempts |-> book.attempts, failed |-> book.failed,
                child |-> child']
    /\ Goto("watch")
    /\ UNCHANGED <<releaseVars, daemonVars, operatorVars, ghostVars, process, outcome>>

Ends(how) ==
    /\ outcome' = how
    /\ Goto("terminate")
    /\ UNCHANGED <<releaseVars, daemonVars, operatorVars, ghostVars, book, child, process>>

StopSeenAtStart == sup = "watch" /\ stopping /\ Ends("stopped")     \* mutant: only until it is ready
StopSeen == sup \in Watching /\ stopping /\ Ends("stopped")

\* Only a clean exit after readiness was observed is a stop.
ChildExited ==
    /\ sup \in Watching /\ ~stopping /\ ~Alive(process)
    /\ Ends(IF phase[process] = "exited" /\ sup # "watch" THEN "stopped" ELSE "failed")

DeadlinePassed == sup = "watch" /\ ~stopping /\ Alive(process) /\ Answering = {} /\ Ends("failed")

OtherAnswers ==
    /\ sup = "watch" /\ ~stopping /\ Alive(process)
    /\ Answering \ {process} # {}
    /\ Ends("error")

ObserveReady ==
    /\ sup = "watch" /\ ~stopping
    /\ process \in Answering
    /\ WriteBack
    /\ Goto("ready")
    /\ UNCHANGED <<releaseVars, daemonVars, operatorVars, ghostVars, child, process, outcome>>

StayedHealthy ==
    /\ sup = "ready" /\ ~stopping /\ Alive(process)
    /\ ForgiveAttempts
    /\ Goto("healthy")
    /\ UNCHANGED <<releaseVars, daemonVars, operatorVars, child, process, outcome, faults, abandoned, direct, lost>>

SupervisorStep ==
    \/ AskChild \/ KillChild \/ ChildGone \/ CleanOrphan \/ Cleaned \/ AfterCleanup \/ RetryDelay
    \/ StopInLoop \/ ObserveActivation \/ Blocked \/ WriteOff \/ FallBack \/ RecordAttempt
    \/ SpawnChild \/ SpawnFails \/ RecordChild
    \/ StopSeen \/ ChildExited \/ DeadlinePassed \/ OtherAnswers \/ ObserveReady \/ StayedHealthy

\* The process is lost; its child lives on, and launchd starts it again.
SupervisorLost ==
    /\ sup # "off"
    /\ sup' = "off"
    /\ job' = "due"
    /\ Fault
    /\ stopping' = FALSE
    /\ child' = None
    /\ process' = None
    /\ outcome' = "boot"
    /\ service' = IF service = "supervisor" THEN None ELSE service
    /\ lost' = (lost \/ (sup = "record" /\ phase[process] \in Unlocked))
    /\ UNCHANGED <<releaseVars, phase, code, view, asked, runtime, natives, sockets,
                   operatorVars, starts, abandoned, direct, book>>

-----------------------------------------------------------------------------
(* The operator's commands; each holds lifecycle.lock until it returns.    *)

Idle == operator = "none"
SupKept == UNCHANGED <<job, sup, stopping, book, child, process, outcome>>

\* _start_unsupervised
StartService ==
    /\ Idle /\ ~installed /\ Answering = {} /\ CurrentRuns
    /\ operator' = "start"
    /\ \E p \in Pids : Fresh(p) /\ Exec(p, pointer.current) /\ waiting' = p
    /\ direct < MaxDirect /\ Room /\ direct' = direct + 1
    /\ SupKept
    /\ UNCHANGED <<releaseVars, faults, starts, abandoned, lost>>

\* It returns once a service is ready or its child is over; it also gives up after
\* 30 seconds, or when it is interrupted, wherever its child is by then.
StartReturns ==
    /\ operator = "start"
    /\ operator' = "none"
    /\ waiting' = None
    /\ lost' = (lost \/ phase[waiting] \in Unlocked)
    /\ IF Answering = {} /\ Alive(waiting) THEN Fault ELSE UNCHANGED faults
    /\ SupKept
    /\ UNCHANGED <<releaseVars, daemonVars, starts, abandoned, direct>>

\* The shutdown request that `stop` sends to the control socket.
RequestShutdown(p) ==
    /\ p \in Answering
    /\ AskToStop(p)
    /\ SupKept
    /\ UNCHANGED <<releaseVars, runtime, natives, sockets, operatorVars, ghostVars>>

\* launchd._start: bootstrap of an unloaded label, kickstart of a loaded one.
StartSupervised ==
    /\ Idle /\ installed /\ Answering = {}
    /\ sup = "off" /\ job # "due"
    /\ job' = "due"
    /\ UNCHANGED <<releaseVars, daemonVars, operatorVars, ghostVars,
                   sup, stopping, book, child, process, outcome>>

\* launchd._stop and _uninstall: SIGTERM to the supervisor of a loaded label.
StopSupervised(command) ==
    /\ command \in {"stop", "uninstall"}
    /\ Idle /\ installed
    /\ operator' = command
    /\ stopping' = (sup # "off")
    /\ UNCHANGED <<releaseVars, daemonVars, waiting, ghostVars,
                   job, sup, book, child, process, outcome>>

\* _assert_owned_stopped: the processes on record are over.
OwnedStopped ==
    /\ book.child # None => ~Alive(book.child)
    /\ runtime.server \notin natives

StopConfirmed ==
    /\ operator \in {"stop", "uninstall"} /\ sup = "off"
    /\ operator' = "none"
    /\ job' = "unloaded"
    /\ installed' = IF operator = "uninstall" /\ OwnedStopped THEN FALSE ELSE installed
    /\ UNCHANGED <<pointer, intact, data, bootCaps, daemonVars, waiting, ghostVars,
                   sup, stopping, book, child, process, outcome>>

StopUnconfirmed ==
    /\ operator \in {"stop", "uninstall"} /\ sup # "off"
    /\ operator' = "none"
    /\ SupKept
    /\ UNCHANGED <<releaseVars, daemonVars, waiting, ghostVars>>

\* launchd._install copies the current candidate's environment and loads the label.
Install ==
    /\ Idle /\ Answering = {} /\ CurrentRuns /\ job = "unloaded"
    /\ installed' = TRUE
    /\ bootCaps' = Caps[pointer.current]
    /\ job' = "due"
    /\ UNCHANGED <<pointer, intact, data, daemonVars, operatorVars, ghostVars,
                   sup, stopping, book, child, process, outcome>>

\* Mutant: service.lock is not taken.
SwitchBesideService ==
    /\ Idle /\ sup = "off"
    /\ installed => job = "unloaded"
    /\ OwnedStopped /\ ~sockets
    /\ operator' = "switch"
    /\ SupKept
    /\ UNCHANGED <<releaseVars, daemonVars, waiting, ghostVars>>

\* Mutant: a label that is loaded but has no process is taken for stopped.
SwitchWhileLoaded ==
    /\ Idle /\ sup = "off" /\ service = None
    /\ OwnedStopped /\ ~sockets
    /\ operator' = "switch"
    /\ service' = "operator"
    /\ SupKept
    /\ UNCHANGED <<releaseVars, phase, code, view, asked, runtime, natives, sockets, waiting, ghostVars>>

\* offline_maintenance takes the three locks, then looks for what may still run.
BeginSwitch ==
    /\ Idle /\ sup = "off" /\ service = None
    /\ installed => job = "unloaded"
    /\ OwnedStopped /\ ~sockets
    /\ operator' = "switch"
    /\ service' = "operator"
    /\ SupKept
    /\ UNCHANGED <<releaseVars, phase, code, view, asked, runtime, natives, sockets, waiting, ghostVars>>

\* The release changes, or the candidate is refused; the locks are free again.
EndSwitch ==
    /\ operator = "switch"
    /\ operator' = "none"
    /\ service' = None
    /\ \/ Room /\ (\E c \in Candidates : Activate(c)) /\ abandoned' = {}
       \/ Room /\ Rollback /\ abandoned' = {}
       \/ UNCHANGED <<pointer, abandoned>>
    /\ SupKept
    /\ UNCHANGED <<intact, data, installed, bootCaps, phase, code, view, asked, runtime, natives,
                   sockets, waiting, faults, starts, direct, lost>>

OperatorStep ==
    \/ StartService \/ StartReturns \/ StartSupervised
    \/ \E p \in Pids : RequestShutdown(p)
    \/ \E command \in Commands : StopSupervised(command)
    \/ StopConfirmed \/ StopUnconfirmed \/ Install \/ BeginSwitch \/ EndSwitch

-----------------------------------------------------------------------------
Others == UNCHANGED <<supVars, operatorVars, ghostVars>>

Runs(p) == DaemonStep(p) /\ Others

\* Files are damaged, and processes are killed, behind the program's back.
Mishap ==
    /\ Fault
    /\ \/ \E c \in Candidates : Damage(c) /\ UNCHANGED daemonVars
       \/ \E p \in Pids : Vanish(p) /\ UNCHANGED releaseVars
    /\ UNCHANGED <<supVars, operatorVars, starts, abandoned, direct, lost>>

Uses == \E p \in Pids, f \in Formats : Introduce(p, f) /\ Others

Next ==
    \/ Launch \/ SupervisorStep \/ SupervisorLost \/ OperatorStep \/ Mishap \/ Uses
    \/ \E p \in Pids : Runs(p)

Spec == Init /\ [][Next]_vars

\* The supervisor's loop goes on, launchd starts what is due, and a shutdown has bounded waits.
Fairness ==
    /\ WF_vars(SupervisorStep)
    /\ WF_vars(Launch)
    /\ \A p \in Pids : WF_vars(Leave(p) /\ Others)

FairSpec == Spec /\ Fairness
=============================================================================
