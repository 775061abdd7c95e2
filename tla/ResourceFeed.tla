---------------------------- MODULE ResourceFeed ----------------------------
(***************************************************************************)
(* Who used the tokens: the service starts a native server under an epoch  *)
(* of its own, listens to what the server tells on one connection, and     *)
(* enters a counter into the ledger when it knows that the thread belongs  *)
(* to a root it has saved (_ResourceEpochListener, _prepare_, _bind_ and   *)
(* _attach_resource_epoch, _shutdown of service.py; CodexClient).          *)
(*                                                                         *)
(* Attributing and recording happen inside the reader's callback: a step.  *)
(* The native server is external: it may tell a counter twice, late, or    *)
(* before it tells whose child the thread is; the connection keeps order.  *)
(***************************************************************************)
EXTENDS ResourceLedger, Sequences, FiniteSets, SequencesExt

CONSTANTS
    Roots, ParentOf,   \* threads the service creates; the parent of every other
    MaxPending,        \* size of the buffer (MAX_PENDING, MAX_BYTES)
    MaxTotal,          \* bound: counters
    MaxWire,           \* bound: messages on their way
    MaxFaults          \* bound: crashes, failed writes, reads and drains

ASSUME FeedAssumption ==
    /\ Epochs \subseteq Nat /\ None \notin Nat /\ Roots \subseteq Threads
    /\ ParentOf \in [Threads \ Roots -> Threads]
    /\ MaxPending \in Nat /\ MaxTotal \in Nat /\ MaxWire \in Nat /\ MaxFaults \in Nat

VARIABLES
    epochs,     \* runtime.json: resource_epochs
    server,     \* runtime.json: the epoch of the recorded server
    tasks,      \* runtime.json: the roots of the saved tasks
    ledger,     \* resources.sqlite3
    phase,      \* where Service.run is
    epoch,      \* the epoch it runs under
    error,      \* Service.error: it stops, and does not claim to have seen everything
    roots,      \* listener: durable roots
    linked,     \* codex: threads whose parent it knows
    pending,    \* listener: counters not attributed yet
    attempted,  \* listener: threads asked for
    asking,     \* listener: the thread that _reconcile reads
    alive,      \* native servers, by epoch
    exists,     \* threads that exist natively
    total,      \* their counters
    broken,     \* the reader stopped before the connection was read to its end
    wire,       \* sent on the connection, not read yet
    told,       \* history: counters sent on this connection
    received,   \* history: those of them that the reader handed on
    faults      \* history

diskVars == <<epochs, server, tasks>>
observerVars == <<roots, linked, pending, attempted, asking>>
nativeVars == <<alive, exists, total>>
wireVars == <<broken, wire, told, received>>
vars == <<diskVars, ledger, phase, epoch, error, observerVars, nativeVars, wireVars, faults>>

Phases == {"down", "prepared", "spawned", "bound", "listening", "stopping", "exited", "closed"}
Listening == phase \in {"listening", "stopping", "exited"}
Prepared == {e \in Epochs : epochs[e] = "prepared"}
Unused == {e \in Epochs : epochs[e] = "none"}

Owned(t, known, links) ==      \* CodexClient.owns over the durable roots
    \A family \in SUBSET Threads :
        /\ known \subseteq family
        /\ \A c \in links : ParentOf[c] \in family => c \in family
        => t \in family

-----------------------------------------------------------------------------
(* The listener. *)

InPending(t) == \E k \in DOMAIN pending : pending[k].thread = t

\* one turn of flush: what is owned is recorded, the rest stays
Swept(done, n, known, links) ==
    IF Owned(n.thread, known, links)
    THEN [done EXCEPT !.ledger = Record(@, epoch, n)]
    ELSE [done EXCEPT !.left = Append(@, n)]

Sweep(buffer, known, links) ==      \* after each of its turns
    LET after[k \in 0..Len(buffer)] ==
            IF k = 0 THEN [ledger |-> ledger, left |-> <<>>]
            ELSE Swept(after[k - 1], buffer[k], known, links)
    IN  after

FlushAll(buffer, known, links) ==
    LET done == Sweep(buffer, known, links)[Len(buffer)]
    IN  /\ ledger' = done.ledger
        /\ pending' = done.left
        /\ attempted' = {t \in attempted : \E k \in DOMAIN pending' : pending'[k].thread = t}
        /\ faults' = faults

\* a write that fails leaves its counter and all after it
FlushFails(buffer, known, links) ==
    /\ faults < MaxFaults /\ faults' = faults + 1
    /\ \E k \in DOMAIN buffer :
         LET done == Sweep(buffer, known, links)[k - 1]
         IN  /\ Owned(buffer[k].thread, known, links)
             /\ ledger' = done.ledger
             /\ pending' = done.left \o SubSeq(buffer, k, Len(buffer))
    /\ attempted' = attempted
    /\ error' = TRUE

Flush(buffer, known, links) ==
    \/ FlushAll(buffer, known, links) /\ error' = error
    \/ FlushFails(buffer, known, links)

\* Mutant of ReadCounter: the buffer has no bound.
ReadCounterUnbounded(n) == Flush(Append(pending, n), roots, linked)

ReadCounter(n) ==
    IF Len(pending) >= MaxPending
    THEN error' = TRUE /\ UNCHANGED <<ledger, pending, attempted, faults>>
    ELSE Flush(Append(pending, n), roots, linked)

Learn(t) == linked' = linked \cup {t}      \* _remember_parent, _remember_thread

\* RpcClient._read: CodexClient's callback first, then the listener's
Read ==
    /\ Listening /\ ~broken /\ wire # <<>>
    /\ wire' = Tail(wire)
    /\ LET m == Head(wire)
       IN  IF m.kind = "counter"
           THEN ReadCounter(m.note) /\ linked' = linked /\ received' = received \cup {m.note}
           ELSE Learn(m.thread) /\ Flush(pending, roots, linked') /\ received' = received
    /\ UNCHANGED <<diskVars, phase, epoch, roots, asking, nativeVars, broken, told>>

AskParent(t) ==       \* _reconcile: one read of each thread while it is pending
    /\ phase = "listening" /\ asking = None
    /\ InPending(t) /\ t \notin attempted
    /\ attempted' = attempted \cup {t}
    /\ asking' = t
    /\ UNCHANGED <<diskVars, ledger, phase, epoch, error, roots, linked, pending, nativeVars,
                   wireVars, faults>>

\* the answer is known to CodexClient at once, and to the listener a step later
LearnParent(t) ==     \* an answer to thread/read or thread/list
    /\ phase \in {"listening", "stopping"} /\ ~broken
    /\ t \in exists \ (Roots \cup linked)
    /\ Learn(t)
    /\ UNCHANGED <<diskVars, ledger, phase, epoch, error, roots, pending, attempted, asking,
                   nativeVars, wireVars, faults>>

EndAsking ==          \* answered, refused or timed out
    /\ asking # None
    /\ asking' = None
    /\ Flush(pending, roots, linked)
    /\ UNCHANGED <<diskVars, phase, epoch, roots, linked, nativeVars, wireVars>>

EndArchive ==         \* archive_native_history
    /\ phase \in {"listening", "stopping"} /\ pending # <<>>
    /\ Flush(pending, roots, linked)
    /\ UNCHANGED <<diskVars, phase, epoch, roots, linked, asking, nativeVars, wireVars>>
-----------------------------------------------------------------------------
(* Service.run: a generation of the native server. *)

\* Mutant of Start: an epoch that was prepared and never bound does not matter.
StartRegardless ==
    /\ phase = "down"
    /\ alive' = alive \ {server}
    /\ \E e \in Unused : epochs' = [epochs EXCEPT ![e] = "prepared"] /\ epoch' = e
    /\ server' = None
    /\ phase' = "prepared"
    /\ error' = FALSE
    /\ UNCHANGED <<tasks, ledger, observerVars, exists, total, wireVars, faults>>

Start ==      \* _recover_orphan, then _prepare_resource_epoch
    /\ phase = "down"
    /\ alive' = alive \ {server}
    /\ Prepared = {} /\ Unused # {}
    /\ \E e \in Unused :
         /\ \A d \in Unused : e <= d
         /\ epochs' = [epochs EXCEPT ![e] = "prepared"]
         /\ epoch' = e
    /\ server' = None
    /\ phase' = "prepared"
    /\ error' = FALSE
    /\ UNCHANGED <<tasks, ledger, observerVars, exists, total, wireVars, faults>>

Spawn ==
    /\ phase = "prepared"
    /\ alive' = alive \cup {epoch}
    /\ phase' = "spawned"
    /\ UNCHANGED <<diskVars, ledger, epoch, error, observerVars, exists, total, wireVars,
                   faults>>

Bind ==       \* _bind_resource_epoch
    /\ phase = "spawned"
    /\ epochs' = [epochs EXCEPT ![epoch] = "bound"]
    /\ server' = epoch
    /\ phase' = "bound"
    /\ UNCHANGED <<tasks, ledger, epoch, error, observerVars, nativeVars, wireVars, faults>>

Attach ==     \* _attach_resource_listener, in the step that connects
    /\ phase = "bound"
    /\ roots' = tasks
    /\ phase' = "listening"
    /\ UNCHANGED <<diskVars, ledger, epoch, error, linked, pending, attempted, asking,
                   nativeVars, wireVars, faults>>

SaveRoot(r) ==      \* ensure_thread, when thread/start has answered
    /\ phase = "listening"
    /\ r \in (exists \cap Roots) \ tasks
    /\ tasks' = tasks \cup {r}
    /\ roots' = roots \cup {r}
    /\ Flush(pending, roots', linked)
    /\ UNCHANGED <<epochs, server, phase, epoch, linked, asking, nativeVars, wireVars>>

\* Mutant of SaveRootFails: the root is confirmed although it was not saved.
SaveRootConfirmed ==
    /\ phase = "listening"
    /\ faults < MaxFaults
    /\ roots' = roots \cup (exists \cap Roots)
    /\ FlushAll(pending, roots', linked)
    /\ error' = TRUE
    /\ UNCHANGED <<diskVars, phase, epoch, linked, asking, nativeVars, wireVars>>

SaveRootFails ==
    /\ phase = "listening"
    /\ (exists \cap Roots) \ tasks # {}
    /\ faults < MaxFaults /\ faults' = faults + 1
    /\ error' = TRUE
    /\ UNCHANGED <<diskVars, ledger, phase, epoch, observerVars, nativeVars, wireVars>>

StartFails ==       \* between _bind_resource_epoch and ready: the child is reaped
    /\ phase \in {"spawned", "bound"}
    /\ alive' = alive \ {epoch}
    /\ phase' = "closed"
    /\ error' = TRUE
    /\ UNCHANGED <<diskVars, ledger, epoch, observerVars, exists, total, wireVars, faults>>

-----------------------------------------------------------------------------
(* The end of the connection, and of the service. *)

\* The transport, a frame or the task; or, after the child exited, the wait for the
\* reader is cancelled and the connection closed: what is left is not read.
ReaderFails ==
    /\ Listening /\ ~broken
    /\ faults < MaxFaults /\ faults' = faults + 1
    /\ broken' = TRUE /\ wire' = <<>>
    /\ UNCHANGED <<diskVars, ledger, phase, epoch, error, observerVars, nativeVars, told, received>>

TickFails ==        \* _tick: the connection was lost
    /\ phase = "listening" /\ broken
    /\ error' = TRUE
    /\ UNCHANGED <<diskVars, ledger, phase, epoch, observerVars, nativeVars, wireVars, faults>>

\* An operator, or an error.  Each saved task is to be stopped over the connection; one
\* that cannot be leaves an error, but is no reason to stay.
BeginStop ==
    /\ phase = "listening"
    /\ phase' = "stopping"
    /\ error' = (error \/ (broken /\ tasks # {}))
    /\ UNCHANGED <<diskVars, ledger, epoch, observerVars, nativeVars, wireVars, faults>>

Terminate ==        \* terminate_owned_child
    /\ phase = "stopping"
    /\ phase' = "exited"
    /\ alive' = alive \ {epoch}
    /\ error' \in {error, error \/ tasks # {}}
    /\ UNCHANGED <<diskVars, ledger, epoch, observerVars, exists, total, wireVars, faults>>

\* wait_reader_closed has returned true, which says that the reader ended, not how; or
\* it has left an error
Drained == broken \/ wire = <<>> \/ error

DrainFails ==       \* wait_reader_closed gives up
    /\ phase = "exited" /\ ~Drained
    /\ faults < MaxFaults /\ faults' = faults + 1
    /\ error' = TRUE
    /\ UNCHANGED <<diskVars, ledger, phase, epoch, observerVars, nativeVars, wireVars>>

\* Mutant of CloseListener: what is left in the buffer is forgotten.
CloseSilently ==
    /\ phase = "exited" /\ Drained
    /\ FlushAll(pending, roots, linked) /\ error' = error
    /\ asking' = None
    /\ phase' = "closed"
    /\ UNCHANGED <<diskVars, epoch, roots, linked, nativeVars, wireVars>>

CloseListener ==    \* _ResourceEpochListener.close
    /\ phase = "exited" /\ Drained
    /\ \/ /\ FlushAll(pending, roots, linked)
          /\ error' = (error \/ pending' # <<>>)
       \/ FlushFails(pending, roots, linked)
    /\ asking' = None
    /\ phase' = "closed"
    /\ UNCHANGED <<diskVars, epoch, roots, linked, nativeVars, wireVars>>

Forget ==           \* what the process held, its connection included
    /\ roots' = {} /\ linked' = {} /\ pending' = <<>> /\ attempted' = {} /\ asking' = None
    /\ broken' = FALSE /\ wire' = <<>> /\ told' = {} /\ received' = {}
    /\ epoch' = None
    /\ phase' = "down"

FinishStop ==       \* the last save of _shutdown, with the roots whose own save failed
    /\ phase = "closed"
    /\ epochs' = [epochs EXCEPT ![epoch] = IF @ = "prepared" THEN "aborted" ELSE @]
    /\ server' = None
    /\ \E late \in SUBSET ((exists \cap Roots) \ tasks) : tasks' = tasks \cup late
    /\ Forget
    /\ UNCHANGED <<ledger, error, nativeVars, faults>>

Crash ==            \* the process dies, or leaves before _shutdown, or cannot spawn
    /\ phase # "down"
    /\ faults < MaxFaults /\ faults' = faults + 1
    /\ error' = TRUE
    /\ Forget
    /\ UNCHANGED <<diskVars, ledger, nativeVars>>

-----------------------------------------------------------------------------
(* The native server. *)

\* what it does without the connection nobody hears of
Serves == phase \in {"listening", "stopping"} /\ epoch \in alive /\ ~broken

Create(t) ==        \* thread/start, or a subagent
    /\ Serves /\ t \notin exists
    /\ t \in Roots => phase = "listening"
    /\ t \notin Roots => ParentOf[t] \in exists
    /\ exists' = exists \cup {t}
    /\ UNCHANGED <<diskVars, ledger, phase, epoch, error, observerVars, alive, total, wireVars, faults>>

TellCounter(t, n) ==
    /\ Serves /\ t \in exists /\ Len(wire) < MaxWire
    /\ n \in {total[t] - 1, total[t], total[t] + 1}
    /\ total' = [total EXCEPT ![t] = IF n > @ THEN n ELSE @]
    /\ LET note == [thread |-> t, total |-> n]
       IN  /\ wire' = Append(wire, [kind |-> "counter", note |-> note])
           /\ told' = told \cup {note}
    /\ UNCHANGED <<diskVars, ledger, phase, epoch, error, observerVars, alive, exists, broken,
                   received, faults>>

TellParent(t) ==    \* thread/started, or the subAgentActivity of its parent
    /\ Serves /\ t \in exists \ Roots /\ Len(wire) < MaxWire
    /\ wire' = Append(wire, [kind |-> "parent", thread |-> t])
    /\ UNCHANGED <<diskVars, ledger, phase, epoch, error, observerVars, nativeVars, broken, told,
                   received, faults>>

-----------------------------------------------------------------------------
Init ==
    /\ epochs = [e \in Epochs |-> "none"] /\ server = None /\ tasks = {}
    /\ ledger = EmptyLedger
    /\ phase = "down" /\ epoch = None /\ error = FALSE
    /\ roots = {} /\ linked = {} /\ pending = <<>> /\ attempted = {} /\ asking = None
    /\ alive = {} /\ exists = {} /\ total = [t \in Threads |-> 0]
    /\ broken = FALSE /\ wire = <<>> /\ told = {} /\ received = {} /\ faults = 0

ListenerStep ==
    \/ Read \/ EndAsking \/ EndArchive
    \/ \E t \in Threads : AskParent(t) \/ LearnParent(t)
ServiceStep ==
    \/ Start \/ Spawn \/ Bind \/ Attach
    \/ \E r \in Roots : SaveRoot(r)
    \/ SaveRootFails \/ StartFails
    \/ ReaderFails \/ TickFails \/ BeginStop \/ Terminate \/ DrainFails \/ CloseListener \/ FinishStop \/ Crash
NativeStep ==
    \E t \in Threads :
        Create(t) \/ TellParent(t) \/ \E n \in 0..MaxTotal : TellCounter(t, n)

Next == ListenerStep \/ ServiceStep \/ NativeStep

Spec == Init /\ [][Next]_vars
=============================================================================
