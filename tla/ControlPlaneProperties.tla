----------------------- MODULE ControlPlaneProperties -----------------------
(***************************************************************************)
(* What must hold of the tasks, whoever asks for what in which order.      *)
(***************************************************************************)
EXTENDS ControlPlane

(***************************************************************************)
(* RootsKept: through lost answers, restarts and a thread asked for by     *)
(* several callers, no root gets a second initialization entry, and no     *)
(* root that may have had input, an entry or a history is ever replaced    *)
(* (_bootstrap_thread, ensure_thread).                                     *)
(***************************************************************************)
RootsKept ==
    /\ \A r \in Roots : entries[r] <= 1
    /\ \A r \in dropped : r \notin rollout /\ injecting[r] = 0 /\ On(r) = {}

(***************************************************************************)
(* WithinCapacity: no more tasks than max_active_tasks do automatic input  *)
(* at a time, though the status of each is read at another moment, answers *)
(* are lost and turns begin late (is_busy, submit).                        *)
(***************************************************************************)
WithinCapacity ==
    Cardinality({r \in Roots : \E i \in Running(r) : intents[i].auto}) <= MaxActive

(***************************************************************************)
(* FlagsHold: when a pause of a task, or of everything, is the last that   *)
(* took hold, the task, or autonomy, is paused: a resume that was under    *)
(* way, a root that is replaced or a restart does not undo it (pause,      *)
(* resume, ensure_thread).                                                 *)
(***************************************************************************)
FlagsHold ==
    /\ \A k \in Keys : asked[k] = "pause" => k \in Known /\ tasks[k].paused
    /\ askedAll = "pause" => autonomy

(***************************************************************************)
(* PausedIsQuiet: work of the service goes on in a paused task, and with a *)
(* spent quota in an automatic one, only while its stop is yet to come, or *)
(* it is being resumed; and after a pause of everything no automatic input *)
(* runs in a task that did not exist then.  It is not said of an input     *)
(* whose answer was given up before it began, nor of a task whose resume   *)
(* failed after it had started the native work (pause, resume,             *)
(* _mark_resource_pauses, _stop_resource_paused_tasks).                    *)
(***************************************************************************)
OnTime(r) == \A i \in On(r) : ~intents[i].late
Works(k) == OnTime(RootOf(k)) /\ (other[RootOf(k)] = "goal" \/ Running(RootOf(k)) # {})
StopComing(k) == stops[k] # "no" \/ tasks[k].owed \/ halting

PausedIsQuiet ==
    \A k \in Known \ half :
        Works(k) =>
            /\ tasks[k].paused /\ ~BeingResumed(k) => StopComing(k)
            /\ looked /\ told = "spent" /\ tasks[k].auto => StopComing(k)
            /\ askedAll = "pause" /\ asked[k] = "none" =>
                 \A i \in Running(RootOf(k)) : ~intents[i].auto

(***************************************************************************)
(* PauseHolds: what was paused last stays paused, and is quiet or about to *)
(* be, through resumes under way, restarts and a quota that runs out.      *)
(***************************************************************************)
PauseHolds == FlagsHold /\ PausedIsQuiet
=============================================================================
