----------------------------- MODULE NativeRoots -----------------------------
(***************************************************************************)
(* The native thread (root) of each named task, and how the service gets   *)
(* it (service.py: ensure_thread, _bootstrap_thread).                      *)
(*                                                                         *)
(* Codex keeps an empty thread in memory only, so a new root gets one      *)
(* initialization entry, which makes it resumable.  The entry has no id:   *)
(* sent twice it is there twice.  A root may be replaced only while it has *)
(* never had input.  ensure_thread runs under a lock of its own for each   *)
(* task; ensuring says which of its awaits it is at.  Each change of       *)
(* runtime.json is saved before the next await.                            *)
(*                                                                         *)
(* The native server is external: what it does with a request, and that a  *)
(* request whose answer was given up may still take effect, is taken from  *)
(* the errors and time-outs that the service prepares for.                 *)
(***************************************************************************)
EXTENDS FiniteSets, Integers, Sequences, TLC

CONSTANTS
    Keys,          \* names of tasks
    Inputs,        \* requests (intent ids)
    None,
    MaxRoots       \* bound: native threads started

ASSUME RootsAssumption ==
    /\ IsFiniteSet(Keys) /\ IsFiniteSet(Inputs)
    /\ None \notin Inputs /\ MaxRoots \in Nat

VARIABLES
    tasks,       \* runtime.json tasks; None when there is no such task
    intents,     \* runtime.json intents; None when there is no such intent
    ensuring,    \* where ensure_thread of each task is
    born,        \* native: threads started so far; a root is its number
    loaded,      \* native: roots in the memory of the server
    rollout,     \* native: roots with a history on disk
    injecting,   \* native: initialization entries under way to each root
    fate,        \* native: what became of each input
    other,       \* native: a turn without an input of ours: "none", "goal", "client"
    work,        \* native: a Goal or a queue: "none", "free" to go on, "held" by a stop
    heard,       \* native: roots with a turn/started not yet delivered
    entries,     \* history: initialization entries in each root
    dropped      \* history: roots that were replaced

runtimeVars == <<tasks, intents, ensuring>>
threadVars == <<born, loaded, rollout, injecting, entries>>
turnVars == <<fate, other, work, heard>>
rootVars == <<runtimeVars, threadVars, turnVars, dropped>>

Roots == 1..MaxRoots
Points == {"no", "look", "start", "init"}
Task == [root : Roots, paused : BOOLEAN, auto : BOOLEAN, owed : BOOLEAN, used : BOOLEAN,
         boot : {"pending", "sending", "unknown", "ready"}]
Intent == [root : Roots, auto : BOOLEAN, late : BOOLEAN,
           status : {"sending", "queued", "accepted", "unknown", "ended"}]
Unresolved == {"sending", "queued", "accepted", "unknown"}

ASSUME NoneAssumption == None \notin Task /\ None \notin Intent

RootsTypeOK ==
    /\ tasks \in [Keys -> Task \cup {None}]
    /\ intents \in [Inputs -> Intent \cup {None}]
    /\ ensuring \in [Keys -> Points]
    /\ born \in 0..MaxRoots
    /\ loaded \subseteq 1..born /\ rollout \subseteq 1..born
    /\ injecting \in [Roots -> 0..2]
    /\ fate \in [Inputs -> {"none", "wire", "queued", "running", "over", "lost"}]
    /\ other \in [Roots -> {"none", "goal", "client"}]
    /\ work \in [Roots -> {"none", "free", "held"}]
    /\ heard \subseteq 1..born /\ dropped \subseteq 1..born
    /\ entries \in [Roots -> Nat]

RootsInit ==
    /\ tasks = [k \in Keys |-> None]
    /\ intents = [i \in Inputs |-> None]
    /\ ensuring = [k \in Keys |-> "no"]
    /\ born = 0 /\ loaded = {} /\ rollout = {}
    /\ injecting = [r \in Roots |-> 0]
    /\ fate = [i \in Inputs |-> "none"]
    /\ other = [r \in Roots |-> "none"]
    /\ work = [r \in Roots |-> "none"]
    /\ heard = {} /\ dropped = {}
    /\ entries = [r \in Roots |-> 0]

Known == {k \in Keys : tasks[k] # None}
RootOf(k) == IF tasks[k] = None THEN 0 ELSE tasks[k].root
On(r) == {i \in Inputs : intents[i] # None /\ intents[i].root = r}
Running(r) == {i \in On(r) : fate[i] = "running"}
Active(r) == other[r] # "none" \/ Running(r) # {}

\* _thread_has_input: input was seen in the root, or an intent names it.
HasInput(k) == tasks[k] # None /\ (tasks[k].used \/ On(RootOf(k)) # {})

With(record, field, value) == [record EXCEPT ![field] = value]
Set(k, field, value) == tasks' = [tasks EXCEPT ![k] = With(@, field, value)]
At(k, point) == ensuring[k] = point
Goes(k, point) == ensuring' = [ensuring EXCEPT ![k] = point]

-----------------------------------------------------------------------------
(* ensure_thread of one task.  outcome is what its caller learns: "waits"  *)
(* while there is an await to come, "done", "absent" for the error "no     *)
(* rollout found", "raises" for any other.                                 *)

EnsureBegins(k) ==
    /\ At(k, "no") /\ Goes(k, "look")
    /\ UNCHANGED <<tasks, intents, threadVars, turnVars, dropped>>

Leaves(k, outcome) == Goes(k, "no") /\ outcome # "waits"

\* thread_read, and for an unloaded root thread_resume of the same id.
Present(k) == RootOf(k) \in loaded \cup rollout
Loads(k) == loaded' = loaded \cup {RootOf(k)}

\* The root can be resumed: whatever became of its initialization, it is ready.
LookReady(k, outcome) ==
    /\ At(k, "look") /\ RootOf(k) \in rollout
    /\ Loads(k) /\ Set(k, "boot", "ready")
    /\ outcome = "done" /\ Leaves(k, outcome)
    /\ UNCHANGED <<intents, born, rollout, injecting, entries, turnVars, dropped>>

\* Mutant of MaySend: an entry whose answer was lost is sent again.
MaySendAgain(k) == ~HasInput(k) /\ ~Active(RootOf(k))

\* An entry is sent only when none was, and nobody has used the thread.
MaySend(k) == tasks[k].boot = "pending" /\ ~HasInput(k) /\ ~Active(RootOf(k))

\* "sending" is saved before the request is made.
Sends(k) ==
    /\ Set(k, "boot", "sending")
    /\ injecting' = [injecting EXCEPT ![RootOf(k)] = @ + 1]
    /\ Goes(k, "init")

\* A loaded root without history: an earlier start of it got no further.
LookEmpty(k, outcome) ==
    /\ At(k, "look") /\ RootOf(k) \in loaded \ rollout
    /\ IF MaySend(k)
       THEN outcome = "waits" /\ Sends(k)
       ELSE outcome = "raises" /\ Leaves(k, outcome) /\ UNCHANGED <<tasks, injecting>>
    /\ UNCHANGED <<intents, born, loaded, rollout, entries, turnVars, dropped>>

\* An absent root may be replaced only if nothing was ever sent to it.
Replaceable(k) == tasks[k] = None \/ (~HasInput(k) /\ tasks[k].boot = "pending")

LookAbsent(k, outcome) ==
    /\ At(k, "look") /\ ~Present(k)
    /\ IF Replaceable(k)
       THEN outcome = "waits" /\ Goes(k, "start")
       ELSE outcome = "absent" /\ Leaves(k, outcome)
    /\ UNCHANGED <<tasks, intents, threadVars, turnVars, dropped>>

\* Mutant of Alias: the task keeps the id of the root it had.
AliasStale(k, boot) ==
    [root |-> RootOf(k), used |-> FALSE, boot |-> boot, paused |-> FALSE, auto |-> FALSE, owed |-> FALSE]

\* The new alias, with the flags of the old one as they are now.
Alias(k, boot) ==
    [root |-> born + 1, used |-> FALSE, boot |-> boot,
     paused |-> tasks[k] # None /\ tasks[k].paused,
     auto |-> tasks[k] # None /\ tasks[k].auto,
     owed |-> tasks[k] # None /\ tasks[k].owed]

Aliases(k, boot) ==
    /\ At(k, "start") /\ born < MaxRoots /\ born' = born + 1
    /\ ~HasInput(k)
    /\ tasks' = [tasks EXCEPT ![k] = Alias(k, boot)]
    /\ dropped' = IF tasks[k] = None THEN dropped ELSE dropped \cup {RootOf(k)}

(***************************************************************************)
(* thread_start returned: the new alias is saved, then that its entry is   *)
(* being sent.  No await lies between, but the service may end there.      *)
(* (That input was seen in the old root meanwhile, an error then, cannot   *)
(* be: it is not loaded, and an input of ours needs ensure_thread.)        *)
(***************************************************************************)
Started(k, outcome) ==
    /\ Aliases(k, "sending")
    /\ loaded' = loaded \cup {born'} /\ injecting' = [injecting EXCEPT ![born'] = @ + 1]
    /\ outcome = "waits" /\ Goes(k, "init")
    /\ UNCHANGED <<intents, rollout, entries, turnVars>>

\* The entry was acknowledged, and the same root can be resumed.
Initialized(k, outcome) ==
    /\ At(k, "init") /\ RootOf(k) \in rollout /\ injecting[RootOf(k)] = 0
    /\ Set(k, "boot", "ready")
    /\ outcome = "done" /\ Leaves(k, outcome)
    /\ UNCHANGED <<intents, threadVars, turnVars, dropped>>

\* An await of ensure_thread fails or times out; what was asked for may still happen.
EnsureFails(k) ==
    /\ ensuring[k] \in {"look", "start", "init"}
    /\ IF At(k, "init") THEN Set(k, "boot", "unknown") ELSE UNCHANGED tasks
    /\ Goes(k, "no")
    /\ UNCHANGED <<intents, threadVars, turnVars, dropped>>

Ensures(k, outcome) ==
    \/ LookReady(k, outcome) \/ LookEmpty(k, outcome) \/ LookAbsent(k, outcome)
    \/ Started(k, outcome) \/ Initialized(k, outcome)

-----------------------------------------------------------------------------
(* The native server (external). *)

EntryArrives(r) ==
    /\ r \in loaded /\ injecting[r] > 0
    /\ injecting' = [injecting EXCEPT ![r] = @ - 1] /\ rollout' = rollout \cup {r}
    /\ entries' = [entries EXCEPT ![r] = @ + 1]
    /\ UNCHANGED <<runtimeVars, born, loaded, turnVars, dropped>>

(***************************************************************************)
(* A turn begins in root r, makes its history and is announced.  The news  *)
(* is only that the root has had input: an intent that names it says so.   *)
(***************************************************************************)
Announces(r) ==
    /\ rollout' = rollout \cup {r}
    /\ heard' = IF On(r) = {} THEN heard \cup {r} ELSE heard

\* An input that was requested, or that waited in a queue nobody holds.
TurnStarts(i) ==
    /\ fate[i] \in {"wire", "queued"}
    /\ LET r == intents[i].root
       IN  /\ r \in loaded /\ ~Active(r)
           /\ fate[i] = "queued" => work[r] = "free"
           /\ Announces(r)
    /\ fate' = [fate EXCEPT ![i] = "running"]
    /\ UNCHANGED <<runtimeVars, born, loaded, injecting, entries, other, work, dropped>>

\* The agent sets itself a Goal.
GoalSet(r) ==
    /\ Running(r) # {} /\ work[r] = "none"
    /\ work' = [work EXCEPT ![r] = "free"]
    /\ UNCHANGED <<runtimeVars, threadVars, fate, other, heard, dropped>>

\* A turn of ours, or of the Goal, ends; nothing may be left to go on with.
TurnEnds(r) ==
    /\ Running(r) # {} \/ other[r] = "goal"
    /\ fate' = [i \in Inputs |-> IF i \in Running(r) THEN "over" ELSE fate[i]]
    /\ other' = [other EXCEPT ![r] = "none"]
    /\ \/ UNCHANGED work
       \/ /\ \A i \in On(r) : fate[i] # "queued"
          /\ work' = [work EXCEPT ![r] = "none"]
    /\ UNCHANGED <<runtimeVars, threadVars, heard, dropped>>

GoalGoesOn(r) ==
    /\ r \in loaded /\ work[r] = "free" /\ ~Active(r)
    /\ other' = [other EXCEPT ![r] = "goal"]
    /\ Announces(r)
    /\ UNCHANGED <<runtimeVars, born, loaded, injecting, entries, fate, work, dropped>>

\* Somebody types into the thread with another client.
StrangerStarts(r) ==
    /\ r \in loaded /\ ~Active(r)
    /\ other' = [other EXCEPT ![r] = "client"]
    /\ Announces(r)
    /\ UNCHANGED <<runtimeVars, born, loaded, injecting, entries, fate, work, dropped>>

StrangerEnds(r) ==
    /\ other[r] = "client"
    /\ other' = [other EXCEPT ![r] = "none"]
    /\ UNCHANGED <<runtimeVars, threadVars, fate, work, heard, dropped>>

(***************************************************************************)
(* What stop_tree achieves before it returns: nothing of the root runs,    *)
(* and its Goal and queue are held.                                        *)
(***************************************************************************)
StopsTrees(stopped) ==
    /\ fate' = [i \in Inputs |->
                  IF \E r \in stopped : i \in Running(r) THEN "over" ELSE fate[i]]
    /\ other' = [r \in Roots |-> IF r \in stopped THEN "none" ELSE other[r]]
    /\ work' = [r \in Roots |->
                  IF r \in stopped /\ work[r] = "free" THEN "held" ELSE work[r]]

-----------------------------------------------------------------------------
(* Notifications. *)

\* turn/started: the root has had input, whoever gave it (_on_notification).
HearStart(r) ==
    /\ r \in heard /\ heard' = heard \ {r}
    /\ tasks' = [k \in Keys |->
                   IF k \in Known /\ RootOf(k) = r THEN With(tasks[k], "used", TRUE)
                   ELSE tasks[k]]
    /\ UNCHANGED <<intents, ensuring, threadVars, fate, other, work, dropped>>

\* The turn of an intent was found, and then that it is over (_record_events, reconcile).
HearEnd(i) ==
    /\ fate[i] = "over" /\ intents[i].status \in Unresolved
    /\ intents' = [intents EXCEPT ![i] = With(@, "status", "ended")]
    /\ UNCHANGED <<tasks, ensuring, threadVars, turnVars, dropped>>

-----------------------------------------------------------------------------

(***************************************************************************)
(* The service ends at any point, and its successor has reclaimed the      *)
(* native server (_recover_orphan) and begun anew: only what was saved and *)
(* what Codex has on disk is left.  An entry under way may still have been *)
(* written; turns are over, Goals and queues held.                         *)
(***************************************************************************)
RootsRestart ==
    /\ ensuring' = [k \in Keys |-> "no"]
    /\ loaded' = {} /\ heard' = {}
    /\ injecting' = [r \in Roots |-> 0]
    /\ \E written \in {w \in [Roots -> 0..2] : \A r \in Roots : w[r] <= injecting[r]} :
         /\ rollout' = rollout \cup {r \in Roots : written[r] > 0}
         /\ entries' = [r \in Roots |-> entries[r] + written[r]]
    /\ fate' = [i \in Inputs |-> IF fate[i] = "wire" THEN "lost"
                                 ELSE IF fate[i] = "running" THEN "over" ELSE fate[i]]
    /\ other' = [r \in Roots |-> "none"]
    /\ work' = [r \in Roots |-> IF work[r] = "free" THEN "held" ELSE work[r]]
    /\ \/ \E k \in Keys : Aliases(k, "pending")
       \/ UNCHANGED <<tasks, born, dropped>>
    /\ UNCHANGED intents
=============================================================================
