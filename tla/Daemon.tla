------------------------------- MODULE Daemon -------------------------------
(***************************************************************************)
(* The service process from its exec to its exit (cli.py serve, service.py *)
(* Service.__init__, run and _shutdown): the checks before it, the copy of *)
(* runtime.json it works on, service.lock, and the native server that it   *)
(* prepares, spawns, binds and stops.  A native server bears the name of   *)
(* the process that spawned it.                                            *)
(***************************************************************************)
EXTENDS Releases

CONSTANT Pids        \* bound: processes that exist or are remembered at a time

ASSUME PidAssumption ==
    /\ None \notin Pids \cup {"supervisor", "operator"}
    /\ "supervisor" \notin Pids /\ "operator" \notin Pids

VARIABLES
    phase,           \* how far each process has come
    code,            \* the candidate whose code it runs
    view,            \* Service.state, its copy of runtime.json
    asked,           \* processes that were asked to stop
    service,         \* holder of state/service.lock
    runtime,         \* state/runtime.json: recorded server, and an epoch that is only prepared
    natives,         \* native servers that are alive
    sockets          \* a control or native socket is left in the file system

daemonVars == <<phase, code, view, asked, service, runtime, natives, sockets>>

Dead == {"none", "exited"}       \* "exited": with status 0
Unlocked == {"new", "checked", "loaded"}
Guarded == {"prepared", "spawned", "bound", "ready", "leaving"}   \* inside run's try block
Phases == Dead \cup Unlocked \cup {"locked"} \cup Guarded
Runtimes == [server: Pids \cup {None}, prepared: BOOLEAN]
Blank == [server |-> None, prepared |-> FALSE]

Alive(p) == phase[p] \notin Dead
Ready(p) == phase[p] = "ready"

DaemonTypeOK ==
    /\ phase \in [Pids -> Phases]
    /\ code \in [Pids -> Candidates \cup {None}]
    /\ \A p \in Pids : Alive(p) => code[p] # None
    /\ view \in [Pids -> Runtimes]
    /\ asked \in SUBSET Pids
    /\ service \in Pids \cup {None, "supervisor", "operator"}
    /\ runtime \in Runtimes
    /\ natives \in SUBSET Pids
    /\ sockets \in BOOLEAN

DaemonInit ==
    /\ phase = [p \in Pids |-> "none"]
    /\ code = [p \in Pids |-> None]
    /\ view = [p \in Pids |-> Blank]
    /\ asked = {}
    /\ service = None
    /\ runtime = Blank
    /\ natives = {}
    /\ sockets = FALSE

\* A process starts with the interpreter of candidate c.
Exec(p, c) ==
    /\ phase' = [phase EXCEPT ![p] = "new"]
    /\ code' = [code EXCEPT ![p] = c]
    /\ UNCHANGED <<view, asked, service, runtime, natives, sockets>>

Advance(p, from, to) ==
    /\ phase[p] = from
    /\ phase' = [phase EXCEPT ![p] = to]

\* The process is gone; the kernel drops its lock.
Gone(p, status) ==
    /\ phase' = [phase EXCEPT ![p] = status]
    /\ code' = [code EXCEPT ![p] = None]
    /\ view' = [view EXCEPT ![p] = Blank]
    /\ asked' = asked \ {p}
    /\ service' = IF service = p THEN None ELSE service

\* self.save(): the whole copy goes to runtime.json.
Save(p, state) ==
    /\ runtime' = state
    /\ view' = [view EXCEPT ![p] = state]

\* `serve` runs the current candidate's interpreter, by exec if it is another one.
CheckCurrent(p) ==
    /\ phase[p] = "new" /\ CurrentRuns
    /\ IF code[p] = pointer.current
       THEN Advance(p, "new", "checked") /\ UNCHANGED code
       ELSE code' = [code EXCEPT ![p] = pointer.current] /\ UNCHANGED phase
    /\ UNCHANGED <<releaseVars, view, asked, service, runtime, natives, sockets>>

\* Service.__init__ reads runtime.json before run() takes the lock.
Construct(p) ==
    /\ Advance(p, "checked", "loaded")
    /\ view' = [view EXCEPT ![p] = runtime]
    /\ UNCHANGED <<releaseVars, code, asked, service, runtime, natives, sockets>>

TakeService(p) ==
    /\ Advance(p, "loaded", "locked")
    /\ service = None
    /\ service' = p
    /\ UNCHANGED <<releaseVars, code, view, asked, runtime, natives, sockets>>

\* _recover_orphan kills the server that its copy records, then _prepare_resource_epoch.
Prepare(p) ==
    /\ Advance(p, "locked", "prepared")
    /\ ~view[p].prepared
    /\ Save(p, [server |-> None, prepared |-> TRUE])
    /\ natives' = natives \ {view[p].server}
    /\ UNCHANGED <<releaseVars, code, asked, service, sockets>>

\* Sockets left by a predecessor are unlinked, the new server makes its own.
Spawn(p) ==
    /\ Advance(p, "prepared", "spawned")
    /\ natives' = natives \cup {p}
    /\ sockets' = TRUE
    /\ UNCHANGED <<releaseVars, code, view, asked, service, runtime>>

\* _bind_resource_epoch
Bind(p) ==
    /\ Advance(p, "spawned", "bound")
    /\ Save(p, [server |-> p, prepared |-> FALSE])
    /\ UNCHANGED <<releaseVars, code, asked, service, natives, sockets>>

\* A stop that came during the start takes effect here, before anyone sees it ready.
BecomeReady(p) ==
    /\ Advance(p, "bound", IF p \in asked THEN "leaving" ELSE "ready")
    /\ UNCHANGED <<releaseVars, code, view, asked, service, runtime, natives, sockets>>

\* SIGTERM; before serve installs its handlers it ends the process.
AskToStop(p) ==
    IF phase[p] \in {"new", "checked"}
    THEN Gone(p, "none")
    ELSE /\ phase' = [phase EXCEPT ![p] = IF @ = "ready" THEN "leaving" ELSE @]
         /\ asked' = IF phase[p] \in {"ready", "leaving"} THEN asked ELSE asked \cup {p}
         /\ UNCHANGED <<code, view, service>>

\* _shutdown: the native server is reaped, then the record and the sockets go.
Shutdown(p, status) ==
    /\ phase[p] \in Guarded
    /\ natives' = natives \ {p}
    /\ runtime' = [server |-> None, prepared |-> FALSE]
    /\ sockets' = FALSE
    /\ Gone(p, status)
    /\ UNCHANGED releaseVars

Leave(p) == phase[p] = "leaving" /\ Shutdown(p, "exited")

\* An exception: inside the try block it shuts down, before it the process just ends.
Fail(p) ==
    \/ Shutdown(p, "none")
    \/ /\ phase[p] \in Unlocked \cup {"locked"}
       /\ Gone(p, "none")
       /\ UNCHANGED <<releaseVars, runtime, natives, sockets>>

\* SIGKILL, or the loss of the process in any other way: nothing is cleaned up.
Vanish(p) ==
    /\ Alive(p)
    /\ Gone(p, "none")
    /\ UNCHANGED <<runtime, natives, sockets>>

\* A running service starts to use a format that its code knows.
Introduce(p, f) ==
    /\ phase[p] \in Guarded
    /\ f \in Caps[code[p]]
    /\ data' = data \cup {f}
    /\ UNCHANGED <<pointer, intact, installed, bootCaps, daemonVars>>

DaemonStep(p) ==
    \/ CheckCurrent(p) \/ Construct(p) \/ TakeService(p)
    \/ Prepare(p) \/ Spawn(p) \/ Bind(p) \/ BecomeReady(p) \/ Leave(p) \/ Fail(p)
=============================================================================
