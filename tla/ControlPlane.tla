---------------------------- MODULE ControlPlane ----------------------------
(***************************************************************************)
(* Who may work: admission of inputs, capacity, pause, resume and resource *)
(* pauses over several tasks (service.py: submit, is_busy, pause, resume,  *)
(* refresh_resources, _mark_resource_pauses, _stop_resource_paused_tasks,  *)
(* _on_notification), on top of the native roots.  A step runs from one    *)
(* await to the next.                                                      *)
(*                                                                         *)
(* submit and resume hold the admission lock, and with it the input lock   *)
(* of their task: desk is the one of them that is going on.  A pause saves *)
(* its flags at once and then waits for the input lock, or is waiting when *)
(* a resume ends: stops says which tasks have a stop coming.  Tasks here   *)
(* have no policy; PolicyService is about those that have.                 *)
(***************************************************************************)
EXTENDS NativeRoots

CONSTANTS
    Main,          \* the permanent task: its interruption pauses everything
    MaxActive,     \* config.max_active_tasks
    MaxCalls       \* bound: what comes from outside, by the number of tasks

ASSUME ControlAssumption == Main \in Keys /\ MaxActive \in Nat \ {0} /\ MaxCalls \in [1..Cardinality(Keys) -> Nat]

VARIABLES
    autonomy,    \* settings.autonomy_paused
    spent,       \* quota_blocks: an exhausted quota is on record
    desk,        \* the submit or resume that holds the admission lock
    stops,       \* pauses that have yet to stop the native work of a task
    halting,     \* the main task was interrupted: a pause of everything has yet to come
    calls,       \* history: how much has come from outside (Call)
    told,        \* history: what was last said of the quota in so many words
    looked,      \* history: this service has looked at the quota
    asked,       \* history: the last pause or resume that took hold of each task
    askedAll,    \* history: the last one that took hold of everything
    half         \* history: tasks whose resume failed after it had released native work

deskVars == <<autonomy, spent, desk, stops, halting>>
historyVars == <<calls, told, looked, asked, askedAll, half>>
vars == <<rootVars, deskVars, historyVars>>

Free == [op |-> "free"]
Ask == {"none", "pause", "resume"}
Submitting == [op : {"submit"}, at : {"probe", "lock", "ensure", "read", "answer"},
               key : Keys, waits : Keys, input : Inputs, auto : BOOLEAN,
               unread : SUBSET Keys, seen : SUBSET Roots, names : SUBSET (Keys \X Roots)]
Resuming == [op : {"resume"}, at : {"lock", "ensure", "native", "last"},
             key : Keys, waits : Keys, todo : SUBSET Keys, all : BOOLEAN,
             void : BOOLEAN, stale : SUBSET Keys]

TypeOK ==
    /\ RootsTypeOK
    /\ autonomy \in BOOLEAN /\ spent \in BOOLEAN
    /\ desk \in Submitting \cup Resuming \cup {Free}
    /\ stops \in [Keys -> {"no", "due", "pause", "owed"}] /\ halting \in BOOLEAN
    /\ calls \in Nat
    /\ told \in {"ok", "spent"} /\ looked \in BOOLEAN
    /\ asked \in [Keys -> Ask] /\ askedAll \in Ask /\ half \subseteq Keys

Init ==
    /\ RootsInit
    /\ autonomy = FALSE /\ spent = FALSE /\ desk = Free
    /\ stops = [k \in Keys |-> "no"] /\ halting = FALSE
    /\ calls = 0 /\ told = "ok" /\ looked = FALSE
    /\ asked = [k \in Keys |-> "none"] /\ askedAll = "none" /\ half = {}

(***************************************************************************)
(* The bound on all that nothing in the model brings about, calls,         *)
(* answers, events and failures.  The permanent task is the first.         *)
(***************************************************************************)
InPlay ==
    {Main} \cup {k \in Keys : tasks[k] # None \/ ensuring[k] # "no"
                              \/ (desk.op # "free" /\ desk.key = k)}
Call == calls < MaxCalls[Cardinality(InPlay)] /\ calls' = calls + 1
Joins(k) == calls <= MaxCalls[Cardinality(InPlay \cup {k})]

IsFree == desk.op = "free"
Submits(at) == desk.op = "submit" /\ desk.at = at
Resumes(at) == desk.op = "resume" /\ desk.at = at
Steps(at) == desk' = With(desk, "at", at)
Quits == desk' = Free

\* The input lock of task k, which a resume takes for one task after the other.
InputFree(k) == ~(desk.op # "free" /\ desk.key = k)
InLine(k) == stops[k] \in {"pause", "owed"}    \* the lock is first come, first served
BeingResumed(k) == desk.op = "resume" /\ desk.key = k      \* _resuming

-----------------------------------------------------------------------------
(* Pauses.  A pause of a task, or of all, makes void what a resume in      *)
(* flight has yet to do (_pause_revision, _task_pause_revisions).          *)

Fences(keys, everything) ==
    desk' = IF desk.op = "resume"
            THEN With(With(desk, "stale", desk.stale \cup keys), "void", desk.void \/ everything)
            ELSE desk

Flagged(keys, owed) ==
    [k \in Keys |->
        IF k \in keys THEN With(With(tasks[k], "paused", TRUE), "owed", tasks[k].owed \/ owed)
        ELSE tasks[k]]
Flags(keys, owed) == tasks' = Flagged(keys, owed)

Coming(keys, why) ==
    stops' = [k \in Keys |-> IF k \in keys /\ ~InLine(k) THEN why ELSE stops[k]]

Notes(keys, ask) == asked' = [k \in Keys |-> IF k \in keys THEN ask ELSE asked[k]]

\* pause(target)
Pause(k) ==
    /\ k \in Known /\ Call
    /\ Flags({k}, FALSE) /\ Coming({k}, "pause") /\ Fences({k}, FALSE)
    /\ Notes({k}, "pause")
    /\ UNCHANGED <<intents, ensuring, threadVars, turnVars, dropped, autonomy, spent, halting,
                   told, looked, askedAll, half>>

\* pause(None): the tasks that exist now; it also follows an interruption of the main task.
PauseAll ==
    /\ Call /\ autonomy' = TRUE /\ halting' \in {halting, FALSE}
    /\ Flags(Known, FALSE) /\ Coming(Known, "due") /\ Fences({}, TRUE)
    /\ Notes(Known, "pause") /\ askedAll' = "pause"
    /\ UNCHANGED <<intents, ensuring, threadVars, turnVars, dropped, spent,
                   told, looked, half>>

(***************************************************************************)
(* stop_tree of a pause, under the input lock.  A root that was loaded by  *)
(* an earlier server is resumed to be stopped.  With it an owed stop is    *)
(* paid.  A stop that fails ends the service (Restart).                    *)
(***************************************************************************)
StopDone(k) ==
    /\ stops[k] # "no" /\ k \in Known /\ InputFree(k)
    /\ LET r == RootOf(k)
       IN  /\ Present(k) \/ ~HasInput(k)
           /\ loaded' = IF r \in rollout THEN loaded \cup {r} ELSE loaded
           /\ StopsTrees({r})
    /\ Set(k, "owed", tasks[k].owed /\ stops[k] # "owed")
    /\ stops' = [stops EXCEPT ![k] = "no"]
    /\ half' = half \ {k}
    /\ UNCHANGED <<intents, ensuring, born, rollout, injecting, entries, heard, 
                   dropped, autonomy, spent, desk, halting, calls, told, looked, asked, askedAll>>

(***************************************************************************)
(* Somebody interrupts a turn with another client: the pause is saved with *)
(* the notification (_mark_native_interrupt), and its stop follows; that   *)
(* of the main task is a pause of everything.                              *)
(***************************************************************************)
Interrupted(k) ==
    /\ k \in Known /\ Running(RootOf(k)) # {} /\ Call
    /\ fate' = [i \in Inputs |-> IF i \in Running(RootOf(k)) THEN "over" ELSE fate[i]]
    /\ IF tasks[k].paused /\ ~BeingResumed(k)
       THEN UNCHANGED <<tasks, stops, halting, desk, autonomy, asked>>
       ELSE /\ Flags({k}, FALSE) /\ Notes({k}, "pause")
            /\ IF k = Main
               THEN Fences({}, TRUE) /\ autonomy' = TRUE /\ halting' = TRUE /\ UNCHANGED stops
               ELSE Fences({k}, FALSE) /\ Coming({k}, "due") /\ UNCHANGED <<autonomy, halting>>
    /\ UNCHANGED <<intents, ensuring, threadVars, other, work, heard, dropped, spent,
                   told, looked, askedAll, half>>

-----------------------------------------------------------------------------
(* Resources. *)

\* Automatic tasks that run, or are about to (_mark_resource_pauses).
Marked ==
    {k \in Known : tasks[k].auto /\ (~tasks[k].paused \/ BeingResumed(k)) /\ ~tasks[k].owed}

\* can_dispatch decides whether there is anything to mark.
ToMark(blocked) == IF blocked THEN Marked ELSE {}

(***************************************************************************)
(* What an answer says of the quota: every window has some left, one is    *)
(* exhausted, or it does not say (_account_state, _block_cleared).         *)
(***************************************************************************)
Answers == {"ok", "spent", "silent"}

\* record_rate_limits: only an explicit field sets or clears a block.
Recorded(answer) ==
    spent' = IF answer = "silent" THEN spent ELSE answer = "spent"

(***************************************************************************)
(* An answer of refresh_resources, or a notification.  The block is in     *)
(* SQLite before the marks are in runtime.json (Restart).                  *)
(***************************************************************************)
Report(answer) ==
    /\ Call /\ Recorded(answer)
    /\ told' = IF answer = "silent" THEN told ELSE answer
    /\ looked' = TRUE
    /\ LET keys == ToMark(spent')
       IN  Flags(keys, TRUE) /\ Fences(keys, FALSE) /\ Notes(keys, "pause")
    /\ UNCHANGED <<intents, ensuring, threadVars, turnVars, dropped, autonomy, stops, halting,
                   askedAll, half>>

\* _stop_resource_paused_tasks: the pause that an owed stop needs.
Sweep(k) ==
    /\ k \in Known /\ tasks[k].owed /\ stops[k] # "owed"
    /\ Flags({k}, FALSE) /\ Fences({k}, FALSE) /\ Notes({k}, "pause")
    /\ stops' = [stops EXCEPT ![k] = "owed"]
    /\ UNCHANGED <<intents, ensuring, threadVars, turnVars, dropped, autonomy, spent, halting,
                   calls, told, looked, askedAll, half>>

-----------------------------------------------------------------------------
(* ensure_thread, for the desk and for `alice chat` of any task.           *)

DeskLocks ==
    /\ desk.op # "free" /\ desk.at = "lock"
    /\ EnsureBegins(desk.waits)
    /\ Steps("ensure")
    /\ UNCHANGED <<autonomy, spent, stops, halting, historyVars>>

Thread(k) ==
    /\ ~(desk.op # "free" /\ desk.at \in {"lock", "ensure"} /\ desk.waits = k)
    /\ Joins(k) /\ EnsureBegins(k) /\ Call
    /\ UNCHANGED <<deskVars, told, looked, asked, askedAll, half>>

ForDesk(k) == desk.op # "free" /\ desk.at = "ensure" /\ desk.waits = k

ThreadEnsured(k) ==
    /\ ~At(k, "no") /\ ~ForDesk(k)
    /\ \E outcome \in {"waits", "done", "absent", "raises"} : Ensures(k, outcome)
    /\ UNCHANGED <<deskVars, historyVars>>

EnsureGivesUp(k) ==
    /\ Call /\ EnsureFails(k)
    /\ desk' = IF ForDesk(k) THEN Free ELSE desk
    /\ UNCHANGED <<autonomy, spent, stops, halting, told, looked, asked, askedAll, half>>

\* is_busy loads a task that is not paused; its root may be another one then.
Hydrates == desk.op = "submit" /\ desk.waits \in desk.unread

Renamed(k) == {n \in desk.names : n[1] # k} \cup {<<k, tasks'[k].root>>}

DeskEnsures(k) ==
    /\ ForDesk(k)
    /\ \/ Ensures(k, "waits") /\ UNCHANGED desk
       \/ /\ Ensures(k, "done")
          /\ IF Hydrates THEN desk' = With(With(desk, "names", Renamed(k)), "at", "probe")
             ELSE Steps(IF desk.op = "submit" THEN "read" ELSE "native")
       \/ /\ Ensures(k, "absent")
          /\ IF Hydrates THEN desk' = With(With(desk, "unread", desk.unread \ {k}), "at", "probe")
             ELSE Quits
       \/ Ensures(k, "raises") /\ Quits
    /\ UNCHANGED <<autonomy, spent, stops, halting, historyVars>>

-----------------------------------------------------------------------------
(* submit.  An automatic input first asks is_busy, which reads the status  *)
(* of one task after the other.                                            *)

OnlyDesk == UNCHANGED <<rootVars, autonomy, spent, stops, halting, historyVars>>

\* Mutant of Reserved: an input whose fate is unknown keeps no place.
ReservedKnown ==
    {intents[i].root : i \in {i \in Inputs : intents[i] # None
                                /\ intents[i].status \in {"sending", "queued", "accepted"}}}

\* Roots of inputs that are not resolved: their turns may not be visible yet.
Reserved ==
    {intents[i].root : i \in {i \in Inputs : intents[i] # None
                                /\ intents[i].status \in Unresolved}}

Named == {<<k, RootOf(k)>> : k \in Known}

\* What refuses an automatic input of task k at once.
RefusedNow(k) ==
    autonomy \/ spent \/ (k \in Known /\ (tasks[k].paused \/ RootOf(k) \in Reserved))

SubmitBegins(k, i, auto) ==
    /\ IsFree /\ ~InLine(k) /\ intents[i] = None /\ Joins(k)
    /\ auto => ~RefusedNow(k)
    /\ desk' = [op |-> "submit", at |-> IF auto THEN "probe" ELSE "lock",
                key |-> k, waits |-> k, input |-> i, auto |-> auto,
                unread |-> IF auto THEN Known ELSE {},
                seen |-> Reserved, names |-> Named]
    /\ OnlyDesk

ProbeReads(k) ==
    /\ Submits("probe") /\ k \in desk.unread
    /\ LET r == RootOf(k)
       IN  desk' =
             IF r \in loaded /\ Active(r) /\ k = desk.key THEN Free
             ELSE IF r \in loaded /\ Active(r)
             THEN With(With(desk, "unread", desk.unread \ {k}), "seen", desk.seen \cup {r})
             ELSE IF r \in loaded \/ tasks[k].paused THEN With(desk, "unread", desk.unread \ {k})
             ELSE With(With(desk, "waits", k), "at", "lock")
    /\ OnlyDesk

\* A task that was created meanwhile was not counted.
ProbeEnds ==
    /\ Submits("probe") /\ desk.unread = {}
    /\ desk' = IF Cardinality(desk.seen) >= MaxActive \/ desk.names # Named THEN Free
               ELSE With(With(desk, "waits", desk.key), "at", "lock")
    /\ OnlyDesk

\* A request fails before anything was sent.
SubmitFails ==
    /\ Submits("probe") \/ Submits("read")
    /\ Call /\ Quits
    /\ UNCHANGED <<rootVars, autonomy, spent, stops, halting, told, looked, asked, askedAll, half>>

\* What is looked at again after the last await before the input is sent.
Deferred(k) ==
    tasks[k].paused \/ (desk.auto /\ (autonomy \/ spent \/ Active(RootOf(k))))

SubmitDeferred == Submits("read") /\ Deferred(desk.key) /\ Quits /\ OnlyDesk

(***************************************************************************)
(* The intent and the origin of the root's work are saved, then the input  *)
(* goes out: as a turn, or to the queue of a thread that is active.        *)
(***************************************************************************)
SubmitSends ==
    /\ Submits("read") /\ ~Deferred(desk.key)
    /\ LET k == desk.key
           i == desk.input
           r == RootOf(k)
       IN  /\ intents' = [intents EXCEPT ![i] =
                            [root |-> r, auto |-> desk.auto, late |-> FALSE, status |-> "sending"]]
           /\ Set(k, "auto", desk.auto \/ tasks[k].auto)
           /\ \/ ~Active(r) /\ fate' = [fate EXCEPT ![i] = "wire"] /\ UNCHANGED work
              \/ Active(r) /\ fate' = [fate EXCEPT ![i] = "lost"] /\ UNCHANGED work
              \/ /\ Active(r) /\ fate' = [fate EXCEPT ![i] = "queued"]
                 /\ work' = [work EXCEPT ![r] = IF @ = "none" THEN "free" ELSE @]
    /\ Steps("answer")
    /\ UNCHANGED <<ensuring, threadVars, other, heard, dropped,
                   autonomy, spent, stops, halting, historyVars>>

Acknowledged ==
    /\ Submits("answer") /\ fate[desk.input] \in {"queued", "running", "over"}
    /\ intents' = [intents EXCEPT ![desk.input] = With(@, "status",
                     IF @.status = "ended" THEN "ended"
                     ELSE IF fate[desk.input] = "queued" THEN "queued" ELSE "accepted")]
    /\ Quits
    /\ UNCHANGED <<tasks, ensuring, threadVars, turnVars, dropped, autonomy, spent, stops, halting, historyVars>>

\* Even a turn that has ended is unknown again, unless it failed.
Unanswered ==
    /\ Submits("answer") /\ Call
    /\ \E status \in {"unknown", intents[desk.input].status} :
         /\ status \in {"unknown", "ended"}
         /\ intents' = [intents EXCEPT ![desk.input] = With(With(@, "status", status), "late", TRUE)]
    /\ \/ UNCHANGED fate
       \/ fate[desk.input] = "wire" /\ fate' = [fate EXCEPT ![desk.input] = "lost"]
    /\ Quits
    /\ UNCHANGED <<tasks, ensuring, threadVars, other, work, heard, dropped,
                   autonomy, spent, stops, halting, told, looked, asked, askedAll, half>>

-----------------------------------------------------------------------------
(* resume of one task, or of all that are paused. *)

ResumeBegins(k, todo, all) ==
    /\ IsFree /\ ~InLine(k) /\ Joins(k) /\ Call
    /\ desk' = [op |-> "resume", at |-> "lock", key |-> k, waits |-> k, todo |-> todo,
                all |-> all, void |-> FALSE, stale |-> {}]
    /\ Notes({k} \cup todo, "resume")
    /\ askedAll' = IF all THEN "resume" ELSE askedAll
    /\ UNCHANGED <<rootVars, autonomy, spent, stops, halting, told, looked, half>>

PausedKeys == {k \in Known : tasks[k].paused}
ResumeOne(k) == ResumeBegins(k, {}, FALSE)
ResumeAll(k) == k \in PausedKeys /\ ResumeBegins(k, PausedKeys \ {k}, TRUE)

\* Nothing is paused but autonomy itself.
ResumeAutonomy ==
    /\ IsFree /\ PausedKeys = {} /\ Call
    /\ autonomy' = FALSE /\ askedAll' = "resume"
    /\ UNCHANGED <<rootVars, spent, desk, stops, halting, told, looked, asked, half>>

\* Mutant of Superseded: only a pause of everything supersedes a resume.
SupersededByAll == desk.void

\* A pause since the resume began, of this task or of everything.
Superseded == desk.void \/ desk.key \in desk.stale

\* check(): it is made after each await; resources are marked first.
Rejects ==
    Superseded \/ (spent /\ desk.key \in Known /\ tasks[desk.key].auto)

Checks ==
    /\ Notes(ToMark(spent), "pause")
    /\ UNCHANGED <<autonomy, spent, stops, halting, calls, told, looked, askedAll>>

ResumeRejected ==
    /\ desk.op = "resume" /\ desk.at # "ensure" /\ Rejects
    /\ Flags(ToMark(spent), TRUE) /\ Checks /\ Quits
    /\ UNCHANGED <<intents, ensuring, threadVars, turnVars, dropped, half>>

Marking(at) ==
    desk' = With(With(desk, "stale", desk.stale \cup ToMark(spent)), "at", at)

\* The native queue is started and the paused Goal made active, if there are any.
Released(r) == work' = [work EXCEPT ![r] = IF @ = "held" THEN "free" ELSE @]

ResumeReleases ==
    /\ Resumes("native") /\ ~Rejects
    /\ Released(RootOf(desk.key))
    /\ Flags(ToMark(spent), TRUE) /\ Checks /\ Marking("last")
    /\ UNCHANGED <<intents, ensuring, threadVars, fate, other, heard, dropped, half>>

(***************************************************************************)
(* A request of the resume fails, and whether it took effect is not known. *)
(* The task stays paused, but native work that was released goes on.       *)
(***************************************************************************)
ResumeFails ==
    /\ Resumes("native") \/ Resumes("last")
    /\ Call
    /\ \/ Resumes("native") /\ UNCHANGED <<work, half>>
       \/ /\ IF Resumes("native") THEN Released(RootOf(desk.key)) ELSE UNCHANGED work
          /\ half' = half \cup {desk.key}
    /\ Quits
    /\ UNCHANGED <<runtimeVars, threadVars, fate, other, heard, dropped,
                   autonomy, spent, stops, halting, told, looked, asked, askedAll>>

\* The task runs again; then the next one, or autonomy, unless everything was paused.
ResumeEnds ==
    /\ Resumes("last") /\ ~Rejects
    /\ tasks' = [Flagged(ToMark(spent), TRUE) EXCEPT ![desk.key] = With(@, "paused", FALSE)]
    /\ Notes(ToMark(spent), "pause")
    /\ half' = half \ {desk.key}
    /\ IF desk.todo = {}
       THEN Quits /\ autonomy' = (autonomy /\ ~desk.all)
       ELSE /\ UNCHANGED autonomy
            /\ \E k \in desk.todo :
                 /\ ~InLine(k)
                 /\ desk' = [op |-> "resume", at |-> "lock", key |-> k, waits |-> k,
                             todo |-> desk.todo \ {k}, all |-> desk.all, void |-> desk.void,
                             stale |-> desk.stale \cup ToMark(spent)]
    /\ UNCHANGED <<intents, ensuring, threadVars, turnVars, dropped,
                   spent, stops, halting, calls, told, looked, askedAll>>

-----------------------------------------------------------------------------

(***************************************************************************)
(* The service ends, by a stop that could not be proved, by any other      *)
(* failure or killed, and the next one starts with autonomy paused.  A     *)
(* block of the quota may be on record without the pauses it calls for.    *)
(***************************************************************************)
Restart ==
    /\ Call
    /\ RootsRestart
    /\ autonomy' = TRUE /\ desk' = Free
    /\ stops' = [k \in Keys |-> "no"] /\ halting' = FALSE
    /\ looked' = FALSE /\ half' = {}
    /\ \/ UNCHANGED <<spent, told>>
       \/ spent' = TRUE /\ told' = "spent"
    /\ UNCHANGED <<asked, askedAll>>

Native ==
    \/ \E r \in 1..born : EntryArrives(r) \/ TurnEnds(r) \/ GoalGoesOn(r) \/ StrangerEnds(r)
    \/ \E i \in Inputs : TurnStarts(i)

Hears ==
    \/ \E r \in 1..born : HearStart(r)
    \/ \E i \in Inputs : HearEnd(i)

Next ==
    \/ (Native \/ Hears) /\ UNCHANGED <<deskVars, historyVars>>
    \/ \E k \in Keys :
         \/ Pause(k) \/ StopDone(k) \/ Interrupted(k) \/ Sweep(k)
         \/ Thread(k) \/ ThreadEnsured(k) \/ DeskEnsures(k) \/ EnsureGivesUp(k)
         \/ ProbeReads(k) \/ ResumeOne(k) \/ ResumeAll(k)
         \/ \E i \in Inputs, auto \in BOOLEAN : SubmitBegins(k, i, auto)
    \/ \E r \in 1..born :
         (StrangerStarts(r) \/ GoalSet(r)) /\ Call /\ UNCHANGED <<deskVars, told, looked, asked, askedAll, half>>
    \/ PauseAll
    \/ \E answer \in Answers : Report(answer)
    \/ DeskLocks \/ ProbeEnds
    \/ SubmitFails \/ SubmitDeferred \/ SubmitSends \/ Acknowledged \/ Unanswered
    \/ ResumeAutonomy \/ ResumeReleases \/ ResumeRejected \/ ResumeFails \/ ResumeEnds
    \/ Restart

Spec == Init /\ [][Next]_vars
=============================================================================
