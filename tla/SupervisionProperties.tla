----------------------- MODULE SupervisionProperties -----------------------
(* What supervision and release switching are to guarantee, for Supervision. *)
EXTENDS Supervision

\* A candidate is started at most MaxFailures times before it has been healthy or was
\* stopped on purpose, however often the supervisor is lost between the attempt that it
\* records and the process that it starts (supervisor.py run, attempt).
BoundedStarts == \A c \in Candidates : starts[c] <= MaxFailures

\* Within one activation the fallback never returns to code that it went away from, over
\* restarts of the supervisor as well (releases.py automatic_rollback: no bouncing).
NoBouncing == pointer.current \notin abandoned

\* At most one native server is alive, so a service that comes after a killed one has
\* reclaimed the orphan (service.py _recover_orphan).
OneNative == Cardinality(natives) <= 1

\* As long as only the supervisor starts services, and none of its starts is lost before
\* the process holds service.lock.
Owned == direct = 0 /\ ~lost
OneNativeSupervised == Owned => OneNative

\* While a release is switched no supervisor runs, no service is inside run, and no
\* native server is left, not even one that was never recorded (lifecycle.py
\* offline_maintenance).
SwitchQuiet ==
    operator = "switch" =>
        /\ sup = "off"
        /\ \A p \in Pids : phase[p] \notin Guarded \cup {"locked"}
        /\ Owned => natives = {}

\* A process that has passed its check of the release pointer runs the current candidate:
\* starts and switches are serialized (cli.py _start_unsupervised).
SwitchSerialized ==
    \A p \in Pids : Alive(p) /\ phase[p] # "new" => code[p] = pointer.current

\* The same, as long as every starter outlives the interval before service.lock.
RunsCurrent == ~lost => SwitchSerialized

\* Data never holds a format that the running service, or the installed supervisor that
\* has to clean up after it, cannot read (releases.py _check_data_schema,
\* _check_bootstrap_policy).
Understands ==
    ~lost =>
        /\ \A p \in Pids : service = p => data \subseteq Caps[code[p]]
        /\ installed => data \subseteq bootCaps

\* The supervisor does not try for ever: again and again it has ended or a service is ready.
Settles == []<>(sup = "off" \/ Answering # {})

\* A stop ends the supervisor, whatever its child does or fails to do.
StopHeeded == stopping ~> (sup = "off")

\* With both, no child keeps the supervisor waiting for good (supervisor.py run, terminate_child).
NeverHangs == Settles /\ StopHeeded
=============================================================================
