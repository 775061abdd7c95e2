------------------------- MODULE ControlPlaneProofs -------------------------
(***************************************************************************)
(* What is proved of the native roots and of the control plane, for any    *)
(* number of tasks, inputs and roots, and for any bound on what comes from *)
(* outside.                                                                *)
(***************************************************************************)
EXTENDS ControlPlaneProperties, FiniteSetTheorems, TLAPS

-----------------------------------------------------------------------------
(* The inductive invariant of the native roots. *)

\* No two tasks have a root in common, and none has one that was replaced.
RootsOwned ==
    /\ \A k \in Known : tasks[k].root \in (1..born) \ dropped
    /\ \A j, k \in Known : tasks[j].root = tasks[k].root => j = k

\* An entry is under way or written at most once, and never before "sending" is on record.
EntriesOnce ==
    /\ \A r \in Roots : entries[r] + injecting[r] <= 1
    /\ \A r \in Roots : r > born => entries[r] = 0 /\ injecting[r] = 0
    /\ \A k \in Known : tasks[k].boot = "pending" =>
           entries[tasks[k].root] = 0 /\ injecting[tasks[k].root] = 0

\* The root that is about to be replaced cannot come back; one that was is gone for good.
ReplacedUnused ==
    /\ \A k \in Known : At(k, "start") =>
           tasks[k].boot = "pending" /\ tasks[k].root \notin loaded \cup rollout
    /\ \A r \in dropped : r \notin loaded \cup rollout /\ injecting[r] = 0 /\ On(r) = {}

\* An initialization belongs to a task, and a turn of ours to an intent.
Founded ==
    /\ \A k \in Keys : At(k, "init") => k \in Known
    /\ \A i \in Inputs : fate[i] # "none" => intents[i] # None
    /\ \A i \in Inputs : intents[i] # None => intents[i].root \in 1..born

RootsInv == RootsTypeOK /\ RootsOwned /\ EntriesOnce /\ ReplacedUnused /\ Founded

-----------------------------------------------------------------------------
(* The inductive invariant of the desk. *)

Stops == {"no", "due", "pause", "owed"}
DeskTypeOK ==
    /\ autonomy \in BOOLEAN /\ spent \in BOOLEAN
    /\ desk \in Submitting \cup Resuming \cup {Free}
    /\ stops \in [Keys -> Stops] /\ halting \in BOOLEAN
    /\ calls \in Nat
    /\ told \in {"ok", "spent"} /\ looked \in BOOLEAN
    /\ asked \in [Keys -> Ask] /\ askedAll \in Ask /\ half \subseteq Keys

\* What the desk has read of a task that it goes on with is still there.
DeskFounded ==
    /\ Submits("read") \/ Resumes("native") \/ Resumes("last") => desk.key \in Known
    /\ desk.op = "submit" => desk.unread \subseteq Known
    /\ desk.op # "free" /\ desk.at \in {"lock", "ensure"} => desk.waits = desk.key \/ Hydrates
    /\ Submits("answer") => intents[desk.input] # None

DeskInv == DeskTypeOK /\ DeskFounded

-----------------------------------------------------------------------------
(* The inductive invariant of the capacity. *)

EndedIsOver ==
    \A i \in Inputs : intents[i] # None /\ intents[i].status = "ended" => fate[i] = "over"

\* A submit counts every root that an earlier input holds, until it sends its own.
ReservedSeen == desk.op = "submit" /\ desk.at # "answer" => Reserved \subseteq desk.seen

\* Past its probe an automatic submit has room for one more.
PastProbe ==
    /\ desk.op = "submit" /\ desk.auto
    /\ desk.at = "read" \/ (desk.at \in {"lock", "ensure"} /\ ~Hydrates)
RoomLeft == PastProbe => Cardinality(desk.seen) < MaxActive

\* The roots with an automatic input that may run, the one being answered included.
Counted == {i \in Inputs : intents[i] # None /\ intents[i].auto
                           /\ (intents[i].status \in Unresolved
                               \/ (Submits("answer") /\ desk.input = i))}
AutoRoots == {intents[i].root : i \in Counted}
AutoBounded == Cardinality(AutoRoots) <= MaxActive

CapacityInv == EndedIsOver /\ ReservedSeen /\ RoomLeft /\ AutoBounded

-----------------------------------------------------------------------------
(* The inductive invariant of the flags: a resume knows what was paused since it began. *)

FencesKnown ==
    desk.op = "resume" =>
        /\ \A k \in {desk.key} \cup desk.todo : asked[k] = "pause" => desk.void \/ k \in desk.stale
        /\ desk.all /\ askedAll = "pause" => desk.void

FlagsInv == FlagsHold /\ FencesKnown

ControlInv == RootsInv /\ DeskInv /\ CapacityInv /\ FlagsInv

-----------------------------------------------------------------------------
(* The inductive invariant of what goes on in a paused task. *)

\* Nothing of the service goes on in a root, and nothing will.
Idle(r) ==
    /\ other[r] # "goal" /\ work[r] # "free"
    /\ \A i \in On(r) : fate[i] \notin {"wire", "running"}

\* The resume of a task has released its native work.
Releasing(k) == Resumes("last") /\ desk.key = k

\* An input is sent once, for the task whose lock is held, and before its answer nobody gives it up.
SentOnce ==
    /\ desk.op = "submit" /\ desk.at # "answer" => intents[desk.input] = None
    /\ Submits("answer") => desk.key \in Known /\ intents[desk.input].root = tasks[desk.key].root
    /\ \A i \in Inputs : fate[i] = "wire" => intents[i].late \/ (Submits("answer") /\ desk.input = i)
    /\ \A r \in Roots : r > born => other[r] = "none" /\ work[r] = "none"

\* A paused task is idle or will be stopped, unless it is being released.
PausedCalm(k) ==
    tasks[k].paused /\ ~Releasing(k) /\ OnTime(RootOf(k)) => StopComing(k) \/ Idle(RootOf(k))
PausedIdle == \A k \in Known \ half : PausedCalm(k)

\* What supersedes a resume brings a stop, and the stop waits for the resume.
StopsFollow ==
    /\ Resumes("last") /\ Superseded => StopComing(desk.key)
    /\ desk.op = "resume" /\ InLine(desk.key) => Superseded
    /\ \A k \in Keys : stops[k] # "no" => k \in Known
    /\ \A k \in Known : stops[k] = "owed" => tasks[k].paused

\* With a spent quota every automatic task is paused or owes a stop, and none is released.
SpentStops ==
    /\ spent = (told = "spent")
    /\ looked /\ spent => \A k \in Known : tasks[k].auto => tasks[k].owed \/ tasks[k].paused
    /\ Resumes("last") /\ looked /\ spent /\ tasks[desk.key].auto => StopComing(desk.key)

\* A task that came after a pause of everything has had no automatic input.
NewcomersOwn ==
    askedAll = "pause" => \A k \in Known : asked[k] = "none" =>
        \A i \in On(RootOf(k)) : ~intents[i].auto

QuietInv == SentOnce /\ PausedIdle /\ StopsFollow /\ SpentStops /\ NewcomersOwn

-----------------------------------------------------------------------------
(* Lemmas about records with one field changed. *)

LEMMA TaskWith ==
    ASSUME NEW t \in Task, NEW b \in BOOLEAN
    PROVE  \A f \in {"paused", "owed", "auto", "used"} :
               /\ With(t, f, b) \in Task
               /\ With(t, f, b).root = t.root /\ With(t, f, b).boot = t.boot
BY DEF With, Task

LEMMA TaskFlagged ==
    ASSUME NEW t \in Task, NEW b \in BOOLEAN
    PROVE  LET u == With(With(t, "paused", TRUE), "owed", b)
           IN  u \in Task /\ u.paused /\ u.root = t.root /\ u.boot = t.boot /\ u.auto = t.auto
BY DEF With, Task

LEMMA TaskBooted ==
    ASSUME NEW t \in Task, NEW boot \in {"pending", "sending", "unknown", "ready"}
    PROVE  /\ With(t, "boot", boot) \in Task /\ With(t, "boot", boot).boot = boot
           /\ With(t, "boot", boot).root = t.root /\ With(t, "boot", boot).paused = t.paused
           /\ With(t, "boot", boot).owed = t.owed /\ With(t, "boot", boot).auto = t.auto
BY DEF With, Task

LEMMA IntentWith ==
    ASSUME NEW n \in Intent, NEW status \in Unresolved \cup {"ended"}
    PROVE  /\ With(n, "status", status) \in Intent /\ With(n, "status", status).status = status
           /\ With(n, "status", status).root = n.root /\ With(n, "status", status).auto = n.auto
           /\ With(n, "status", status).late = n.late
           /\ With(With(n, "status", status), "late", TRUE).late
           /\ With(With(n, "status", status), "late", TRUE) \in Intent
           /\ With(With(n, "status", status), "late", TRUE).status = status
           /\ With(With(n, "status", status), "late", TRUE).root = n.root
           /\ With(With(n, "status", status), "late", TRUE).auto = n.auto
BY DEF With, Intent, Unresolved

LEMMA MarkedKnown == Marked \subseteq Known /\ ToMark(spent) \subseteq Known /\ ToMark(spent') \subseteq Known
BY DEF Marked, ToMark, Known

-----------------------------------------------------------------------------
(* Type correctness and the roots: steps that neither start nor initialize one. *)

\* Tasks may change what is known of them, but not the root and its initialization.
KeepsRoots ==
    /\ tasks' \in [Keys -> Task \cup {None}]
    /\ \A k \in Keys : tasks'[k] = None <=> tasks[k] = None
    /\ \A k \in Known : tasks'[k].root = tasks[k].root /\ tasks'[k].boot = tasks[k].boot

\* An intent keeps its root, and a new one takes that of a task.
KeepsIntents ==
    /\ intents' \in [Inputs -> Intent \cup {None}]
    /\ \A i \in Inputs : intents[i] # None => intents'[i] # None
    /\ \A i \in Inputs : intents'[i] # None =>
           \/ intents[i] # None /\ intents'[i].root = intents[i].root
           \/ \E k \in Known : intents'[i].root = tasks[k].root

\* Turns come and go, but an input has no fate before its intent.
Fates == {"none", "wire", "queued", "running", "over", "lost"}
TurnsTyped ==
    /\ fate' \in [Inputs -> Fates]
    /\ other' \in [Roots -> {"none", "goal", "client"}]
    /\ work' \in [Roots -> {"none", "free", "held"}]
    /\ heard' \subseteq 1..born
    /\ \A i \in Inputs : fate'[i] # "none" => fate[i] # "none" \/ intents'[i] # None

LEMMA KnownFacts ==
    ASSUME RootsInv
    PROVE  /\ born \in Nat /\ 1..born \subseteq Roots
           /\ \A k \in Known : k \in Keys /\ tasks[k] \in Task /\ tasks[k].root = RootOf(k)
                               /\ tasks[k].root \in 1..born
           /\ \A k \in Keys \ Known : tasks[k] = None /\ RootOf(k) = 0
           /\ \A k \in Keys : RootOf(k) \in loaded \cup rollout \cup heard => k \in Known
<1>1. born \in 0..MaxRoots
  BY DEF RootsInv, RootsTypeOK
<1>2. born \in Nat /\ 1..born \subseteq Roots
  BY <1>1, RootsAssumption DEF Roots
<1>3. \A k \in Known : k \in Keys /\ tasks[k] \in Task /\ tasks[k].root = RootOf(k) /\ tasks[k].root \in 1..born
  BY DEF RootsInv, RootsTypeOK, RootsOwned, Known, RootOf
<1>4. \A k \in Keys \ Known : tasks[k] = None /\ RootOf(k) = 0
  BY DEF Known, RootOf
<1>5. loaded \cup rollout \cup heard \subseteq 1..born
  BY DEF RootsInv, RootsTypeOK
<1>6. 0 \notin 1..born
  BY <1>2
<1> QED
  BY <1>2, <1>3, <1>4, <1>5, <1>6

LEMMA RootsFrame ==
    ASSUME RootsInv, KeepsRoots, KeepsIntents, TurnsTyped,
           loaded' \subseteq loaded \cup rollout, rollout' \subseteq loaded \cup rollout,
           UNCHANGED <<ensuring, born, injecting, entries, dropped>>
    PROVE  RootsInv'
<1>k. Known' = Known
  BY DEF KeepsRoots, Known
<1>1. RootsTypeOK'
  BY DEF RootsInv, RootsTypeOK, KeepsRoots, KeepsIntents, TurnsTyped, Fates
<1>2. RootsOwned'
  BY <1>k DEF RootsInv, RootsOwned, KeepsRoots
<1>3. EntriesOnce'
  BY <1>k DEF RootsInv, EntriesOnce, KeepsRoots
<1>4. ReplacedUnused'
  <2>1. \A k \in Known : At(k, "start") =>
            tasks'[k].boot = "pending" /\ tasks'[k].root \notin loaded' \cup rollout'
    BY DEF RootsInv, ReplacedUnused, KeepsRoots
  <2>2. ASSUME NEW r \in dropped
        PROVE  r \notin loaded' \cup rollout' /\ injecting[r] = 0 /\ On(r)' = {}
    <3>1. r \notin loaded \cup rollout /\ injecting[r] = 0 /\ On(r) = {}
      BY <2>2 DEF RootsInv, ReplacedUnused
    <3>2. \A i \in Inputs : intents'[i] # None => intents'[i].root # r
      BY <2>2, <3>1 DEF KeepsIntents, On, RootsInv, RootsOwned
    <3> QED
      BY <3>1, <3>2 DEF On
  <2> QED
    BY <1>k, <2>1, <2>2 DEF ReplacedUnused, At
<1>5. Founded'
  <2>1. \A i \in Inputs : intents'[i] # None => intents'[i].root \in 1..born
    BY DEF RootsInv, Founded, RootsOwned, KeepsIntents
  <2> QED
    BY <1>k, <2>1 DEF RootsInv, Founded, KeepsIntents, TurnsTyped, At
<1> QED
  BY <1>1, <1>2, <1>3, <1>4, <1>5 DEF RootsInv

-----------------------------------------------------------------------------
(* ensure_thread. *)

\* What ensure_thread leaves alone.
LEMMA EnsureFrame ==
    ASSUME RootsInv, UNCHANGED <<intents, turnVars>>
    PROVE  KeepsIntents /\ TurnsTyped
BY DEF RootsInv, RootsTypeOK, KeepsIntents, TurnsTyped, Fates, turnVars

LEMMA TasksSetBoot ==
    ASSUME RootsInv, NEW k \in Known, NEW boot \in {"pending", "sending", "unknown", "ready"},
           Set(k, "boot", boot)
    PROVE  /\ tasks' \in [Keys -> Task \cup {None}] /\ Known' = Known
           /\ tasks'[k] \in Task /\ tasks'[k].boot = boot /\ tasks'[k].root = tasks[k].root
           /\ tasks'[k].owed = tasks[k].owed /\ tasks'[k].auto = tasks[k].auto
           /\ \A j \in Keys \ {k} : tasks'[j] = tasks[j]
           /\ \A j \in Known : tasks'[j].root = tasks[j].root /\ tasks'[j].paused = tasks[j].paused
           /\ \A j \in Known : tasks'[j].boot = "pending" => (j = k /\ boot = "pending") \/ tasks[j].boot = "pending"
<1>1. tasks \in [Keys -> Task \cup {None}] /\ k \in Keys /\ tasks[k] \in Task
  BY KnownFacts DEF RootsInv, RootsTypeOK
<1>2. /\ With(tasks[k], "boot", boot) \in Task /\ With(tasks[k], "boot", boot).boot = boot
      /\ With(tasks[k], "boot", boot).root = tasks[k].root
      /\ With(tasks[k], "boot", boot).paused = tasks[k].paused
      /\ With(tasks[k], "boot", boot).owed = tasks[k].owed
      /\ With(tasks[k], "boot", boot).auto = tasks[k].auto
  BY <1>1, TaskBooted
<1>3. /\ tasks' \in [Keys -> Task \cup {None}] /\ tasks'[k] = With(tasks[k], "boot", boot)
      /\ \A j \in Keys \ {k} : tasks'[j] = tasks[j]
  BY <1>1, <1>2 DEF Set
<1>4. Known' = Known
  BY <1>1, <1>2, <1>3, NoneAssumption DEF Known
<1> QED
  BY <1>2, <1>3, <1>4 DEF Known

\* A task at rest or at its look: nothing but the record of its initialization changes.
LEMMA BootKeepsRoots ==
    ASSUME RootsInv, NEW k \in Keys, NEW point \in {"no", "look"}, Goes(k, point),
           \/ UNCHANGED tasks
           \/ k \in Known /\ ~At(k, "start") /\ \E boot \in {"unknown", "ready"} : Set(k, "boot", boot),
           UNCHANGED <<intents, turnVars, born, rollout, injecting, entries, dropped>>,
           loaded' \subseteq loaded \cup rollout
    PROVE  RootsInv'
<1>f. KeepsIntents /\ TurnsTyped
  BY EnsureFrame
<1>1. /\ tasks' \in [Keys -> Task \cup {None}] /\ Known' = Known
      /\ \A j \in Known : tasks'[j].root = tasks[j].root
      /\ \A j \in Known : tasks'[j].boot = "pending" => tasks[j].boot = "pending"
      /\ \A j \in Known \ {k} : tasks'[j] = tasks[j]
  <2>1. CASE UNCHANGED tasks
    BY <2>1 DEF RootsInv, RootsTypeOK, Known
  <2>2. CASE k \in Known /\ \E boot \in {"unknown", "ready"} : Set(k, "boot", boot)
    BY <2>2, TasksSetBoot DEF Known
  <2> QED
    BY <2>1, <2>2
<1>2. /\ ensuring' \in [Keys -> Points] /\ ensuring'[k] = point
      /\ \A j \in Keys \ {k} : ensuring'[j] = ensuring[j]
  BY DEF RootsInv, RootsTypeOK, Goes, Points
<1>3. RootsTypeOK'
  BY <1>1, <1>2, <1>f DEF RootsInv, RootsTypeOK, TurnsTyped, Fates, KeepsIntents, turnVars
<1>4. RootsOwned' /\ EntriesOnce'
  BY <1>1 DEF RootsInv, RootsOwned, EntriesOnce
<1>5. ReplacedUnused'
  BY <1>1, <1>2 DEF RootsInv, ReplacedUnused, At, On, Known
<1>6. Founded'
  BY <1>1, <1>2 DEF RootsInv, Founded, At, turnVars
<1> QED
  BY <1>3, <1>4, <1>5, <1>6 DEF RootsInv

LEMMA BeginKeepsRoots ==
    ASSUME RootsInv, NEW k \in Keys, EnsureBegins(k)
    PROVE  RootsInv'
BY BootKeepsRoots DEF EnsureBegins, threadVars

LEMMA FailKeepsRoots ==
    ASSUME RootsInv, NEW k \in Keys, EnsureFails(k)
    PROVE  RootsInv'
<1>1. \/ UNCHANGED tasks
      \/ k \in Known /\ ~At(k, "start") /\ Set(k, "boot", "unknown")
  BY DEF EnsureFails, RootsInv, Founded, At
<1> QED
  BY <1>1, BootKeepsRoots DEF EnsureFails, threadVars

\* LookAbsent: what is about to be replaced cannot be resumed, and nothing was sent to it.
LEMMA AbsentKeepsRoots ==
    ASSUME RootsInv, NEW k \in Keys, NEW outcome, LookAbsent(k, outcome)
    PROVE  RootsInv'
<1>1. CASE ~Replaceable(k)
  BY <1>1, BootKeepsRoots DEF LookAbsent, Leaves, threadVars
<1>2. CASE Replaceable(k)
  <2>1. /\ Goes(k, "start") /\ ~Present(k) /\ UNCHANGED <<tasks, intents, threadVars, turnVars, dropped>>
    BY <1>2 DEF LookAbsent
  <2>2. /\ ensuring' \in [Keys -> Points] /\ ensuring'[k] = "start"
        /\ \A j \in Keys \ {k} : ensuring'[j] = ensuring[j]
    BY <2>1 DEF RootsInv, RootsTypeOK, Goes, Points
  <2>3. k \in Known => tasks[k].boot = "pending" /\ tasks[k].root \notin loaded \cup rollout
    BY <1>2, <2>1, KnownFacts DEF Replaceable, Present, Known
  <2>4. RootsTypeOK' /\ RootsOwned' /\ EntriesOnce'
    BY <2>1, <2>2 DEF RootsInv, RootsTypeOK, RootsOwned, EntriesOnce, Known, threadVars, turnVars
  <2>5. ReplacedUnused'
    BY <2>1, <2>2, <2>3 DEF RootsInv, ReplacedUnused, At, On, Known, threadVars
  <2>6. Founded'
    BY <2>1, <2>2 DEF RootsInv, Founded, At, Known, threadVars, turnVars
  <2> QED
    BY <2>4, <2>5, <2>6 DEF RootsInv
<1> QED
  BY <1>1, <1>2

LEMMA ReadyKeepsRoots ==
    ASSUME RootsInv, NEW k \in Keys, NEW outcome, LookReady(k, outcome)
    PROVE  RootsInv'
<1>1. k \in Known /\ ~At(k, "start") /\ Set(k, "boot", "ready") /\ RootOf(k) \in loaded \cup rollout
  BY KnownFacts DEF LookReady, At
<1>2. loaded' \subseteq loaded \cup rollout
  BY <1>1 DEF LookReady, Loads
<1> QED
  BY <1>1, <1>2, BootKeepsRoots DEF LookReady, Leaves

LEMMA InitializedKeepsRoots ==
    ASSUME RootsInv, NEW k \in Keys, NEW outcome, Initialized(k, outcome)
    PROVE  RootsInv'
<1>1. k \in Known /\ ~At(k, "start") /\ Set(k, "boot", "ready")
  BY DEF Initialized, RootsInv, Founded, At
<1> QED
  BY <1>1, BootKeepsRoots DEF Initialized, Leaves, threadVars

\* LookEmpty: the first entry is on record before it goes out.
LEMMA EmptyKeepsRoots ==
    ASSUME RootsInv, NEW k \in Keys, NEW outcome, LookEmpty(k, outcome)
    PROVE  RootsInv'
<1>1. CASE ~MaySend(k)
  BY <1>1, BootKeepsRoots DEF LookEmpty, Leaves, turnVars
<1>2. CASE MaySend(k)
  <2>1. /\ k \in Known /\ tasks[k].boot = "pending" /\ RootOf(k) = tasks[k].root /\ RootOf(k) \in Roots
        /\ RootOf(k) \in loaded
    BY <1>2, KnownFacts DEF LookEmpty, MaySend
  <2>2. /\ Sends(k)
        /\ UNCHANGED <<intents, born, loaded, rollout, entries, turnVars, dropped>>
    BY <1>2 DEF LookEmpty
  <2>3. /\ tasks' \in [Keys -> Task \cup {None}] /\ Known' = Known
        /\ tasks'[k].boot = "sending"
        /\ \A j \in Known : tasks'[j].root = tasks[j].root
        /\ \A j \in Known : tasks'[j].boot = "pending" => j # k /\ tasks[j].boot = "pending"
        /\ \A j \in Keys \ {k} : tasks'[j] = tasks[j]
    BY <2>1, <2>2, TasksSetBoot DEF Sends
  <2>4. /\ injecting \in [Roots -> 0..2] /\ injecting[RootOf(k)] = 0 /\ entries[RootOf(k)] = 0
    BY <2>1 DEF RootsInv, RootsTypeOK, EntriesOnce
  <2>5. /\ injecting' \in [Roots -> 0..2] /\ injecting'[RootOf(k)] = 1
        /\ \A r \in Roots \ {RootOf(k)} : injecting'[r] = injecting[r]
    BY <2>1, <2>2, <2>4 DEF Sends
  <2>6. /\ ensuring' \in [Keys -> Points] /\ ensuring'[k] = "init"
        /\ \A j \in Keys \ {k} : ensuring'[j] = ensuring[j]
    BY <2>2 DEF RootsInv, RootsTypeOK, Sends, Goes, Points
  <2>7. RootsTypeOK'
    BY <2>2, <2>3, <2>5, <2>6 DEF RootsInv, RootsTypeOK, turnVars
  <2>8. RootsOwned'
    BY <2>2, <2>3 DEF RootsInv, RootsOwned
  <2>9. EntriesOnce'
    <3>1. \A r \in Roots : entries[r] + injecting'[r] <= 1
      BY <2>4, <2>5 DEF RootsInv, EntriesOnce
    <3>2. \A r \in Roots : r > born => entries[r] = 0 /\ injecting'[r] = 0
      BY <2>1, <2>5, KnownFacts DEF RootsInv, EntriesOnce, RootsTypeOK
    <3>3. \A j \in Known : tasks'[j].boot = "pending" => tasks'[j].root # RootOf(k)
      BY <2>1, <2>3 DEF RootsInv, RootsOwned
    <3>4. \A j \in Known : tasks'[j].boot = "pending" =>
              entries[tasks'[j].root] = 0 /\ injecting'[tasks'[j].root] = 0
      BY <2>3, <2>5, <3>3, KnownFacts DEF RootsInv, EntriesOnce
    <3> QED
      BY <2>2, <2>3, <3>1, <3>2, <3>4 DEF EntriesOnce
  <2>10. ReplacedUnused'
    <3>1. \A j \in Known : ensuring'[j] = "start" =>
              tasks'[j].boot = "pending" /\ tasks'[j].root \notin loaded \cup rollout
      BY <2>3, <2>6 DEF RootsInv, ReplacedUnused, At, Known
    <3>2. \A r \in dropped : r # RootOf(k) /\ r \in Roots
      BY <2>1, KnownFacts DEF RootsInv, RootsOwned, RootsTypeOK
    <3>3. \A r \in dropped : r \notin loaded \cup rollout /\ injecting'[r] = 0 /\ On(r) = {}
      BY <2>5, <3>2 DEF RootsInv, ReplacedUnused
    <3> QED
      BY <2>2, <2>3, <3>1, <3>3 DEF ReplacedUnused, At, On
  <2>11. Founded'
    BY <2>1, <2>2, <2>3, <2>6 DEF RootsInv, Founded, At, turnVars
  <2> QED
    BY <2>7, <2>8, <2>9, <2>10, <2>11 DEF RootsInv
<1> QED
  BY <1>1, <1>2

\* A new alias: the root it replaces was never used and cannot come back.
LEMMA AliasFacts ==
    ASSUME RootsInv, NEW k \in Keys, NEW boot \in {"pending", "sending"}, Aliases(k, boot)
    PROVE  /\ born' = born + 1 /\ born + 1 \in Roots
           /\ tasks' \in [Keys -> Task \cup {None}] /\ Known' = Known \cup {k}
           /\ tasks'[k].root = born + 1 /\ tasks'[k].boot = boot
           /\ k \in Known => /\ tasks'[k].paused = tasks[k].paused
                            /\ tasks'[k].owed = tasks[k].owed /\ tasks'[k].auto = tasks[k].auto
                            /\ On(tasks[k].root) = {}
           /\ k \notin Known => ~tasks'[k].paused /\ ~tasks'[k].owed /\ ~tasks'[k].auto
           /\ \A j \in Keys \ {k} : tasks'[j] = tasks[j]
           /\ \A j \in Known : tasks[j].root # born + 1
           /\ dropped' \subseteq 1..born
           /\ \A j \in Known \ {k} : tasks[j].root \notin dropped'
           /\ \A r \in dropped' : r \notin loaded \cup rollout /\ injecting[r] = 0 /\ On(r) = {}
           /\ entries[born + 1] = 0 /\ injecting[born + 1] = 0
<1>1. born \in 0..MaxRoots /\ born < MaxRoots /\ MaxRoots \in Nat
  BY RootsAssumption DEF Aliases, RootsInv, RootsTypeOK
<1>2. born' = born + 1 /\ born + 1 \in Roots /\ born + 1 > born
  BY <1>1 DEF Aliases, Roots
<1>3. tasks \in [Keys -> Task \cup {None}] /\ (tasks[k] = None \/ tasks[k] \in Task)
  BY DEF RootsInv, RootsTypeOK
<1>4. /\ Alias(k, boot) \in Task /\ Alias(k, boot).root = born + 1 /\ Alias(k, boot).boot = boot
      /\ k \in Known => /\ Alias(k, boot).paused = tasks[k].paused
                       /\ Alias(k, boot).owed = tasks[k].owed /\ Alias(k, boot).auto = tasks[k].auto
      /\ k \notin Known => ~Alias(k, boot).paused /\ ~Alias(k, boot).owed /\ ~Alias(k, boot).auto
  <2>1. CASE tasks[k] = None
    BY <1>2, <2>1 DEF Alias, Task, Known
  <2>2. CASE tasks[k] # None /\ tasks[k] \in Task
    BY <1>2, <2>2 DEF Alias, Task, Known
  <2> QED
    BY <1>3, <2>1, <2>2
<1>5. /\ tasks' \in [Keys -> Task \cup {None}] /\ tasks'[k] = Alias(k, boot)
      /\ \A j \in Keys \ {k} : tasks'[j] = tasks[j]
  BY <1>3, <1>4 DEF Aliases
<1>6. Known' = Known \cup {k}
  BY <1>4, <1>5, NoneAssumption DEF Known
<1>7. \A j \in Known : tasks[j].root # born + 1
  BY <1>1, KnownFacts
<1>8. CASE tasks[k] = None
  <2>1. dropped' = dropped /\ k \notin Known
    BY <1>8 DEF Aliases, Known
  <2> QED
    BY <1>2, <1>4, <1>5, <1>6, <1>7, <2>1
       DEF RootsInv, RootsTypeOK, RootsOwned, EntriesOnce, ReplacedUnused
<1>9. CASE tasks[k] # None
  <2>1. k \in Known /\ RootOf(k) = tasks[k].root /\ dropped' = dropped \cup {tasks[k].root}
    BY <1>9 DEF Aliases, Known, RootOf
  <2>2. /\ tasks[k].root \in 1..born /\ tasks[k].root \notin loaded \cup rollout
        /\ injecting[tasks[k].root] = 0 /\ On(tasks[k].root) = {}
    BY <1>9, <2>1, KnownFacts DEF Aliases, HasInput, RootsInv, ReplacedUnused, EntriesOnce
  <2> QED
    BY <1>2, <1>4, <1>5, <1>6, <1>7, <2>1, <2>2
       DEF RootsInv, RootsTypeOK, RootsOwned, EntriesOnce, ReplacedUnused
<1> QED
  BY <1>8, <1>9

LEMMA StartedKeepsRoots ==
    ASSUME RootsInv, NEW k \in Keys, NEW outcome, Started(k, outcome)
    PROVE  RootsInv'
<1>a. Aliases(k, "sending")
  BY DEF Started
<1>1. /\ born' = born + 1 /\ born + 1 \in Roots
      /\ tasks' \in [Keys -> Task \cup {None}] /\ Known' = Known \cup {k}
      /\ tasks'[k].root = born + 1 /\ tasks'[k].boot = "sending"
      /\ \A j \in Keys \ {k} : tasks'[j] = tasks[j]
      /\ \A j \in Known : tasks[j].root # born + 1
      /\ dropped' \subseteq 1..born
      /\ \A j \in Known \ {k} : tasks[j].root \notin dropped'
      /\ \A r \in dropped' : r \notin loaded \cup rollout /\ injecting[r] = 0 /\ On(r) = {}
      /\ entries[born + 1] = 0 /\ injecting[born + 1] = 0
  BY <1>a, AliasFacts
<1>2. born \in Nat /\ 1..born \subseteq 1..(born + 1) /\ born + 1 \notin 1..born /\ born + 1 \in 0..MaxRoots
  BY <1>1, KnownFacts DEF Roots
<1>3. /\ ensuring' \in [Keys -> Points] /\ ensuring'[k] = "init"
      /\ \A j \in Keys \ {k} : ensuring'[j] = ensuring[j]
  BY DEF RootsInv, RootsTypeOK, Started, Goes, Points
<1>4. /\ injecting' \in [Roots -> 0..2] /\ injecting'[born + 1] = 1
      /\ \A r \in Roots \ {born + 1} : injecting'[r] = injecting[r]
      /\ loaded' = loaded \cup {born + 1}
      /\ UNCHANGED <<intents, rollout, entries, turnVars>>
  BY <1>1 DEF RootsInv, RootsTypeOK, Started
<1>5. RootsTypeOK'
  BY <1>1, <1>2, <1>3, <1>4 DEF RootsInv, RootsTypeOK, turnVars
<1>6. RootsOwned'
  <2>1. \A j \in Known \ {k} : tasks'[j].root \in (1..(born + 1)) \ dropped'
    BY <1>1, <1>2 DEF RootsInv, RootsOwned, Known
  <2>2. tasks'[k].root \in (1..(born + 1)) \ dropped'
    BY <1>1, <1>2
  <2>3. \A i, j \in Known' : tasks'[i].root = tasks'[j].root => i = j
    BY <1>1 DEF RootsInv, RootsOwned, Known
  <2> QED
    BY <1>1, <2>1, <2>2, <2>3 DEF RootsOwned
<1>7. EntriesOnce'
  <2>1. \A r \in Roots : entries[r] + injecting'[r] <= 1
    BY <1>1, <1>4 DEF RootsInv, EntriesOnce
  <2>2. \A r \in Roots : r > born + 1 => entries[r] = 0 /\ injecting'[r] = 0
    BY <1>2, <1>4 DEF RootsInv, EntriesOnce, Roots
  <2>3. \A j \in Known' : tasks'[j].boot = "pending" =>
            entries[tasks'[j].root] = 0 /\ injecting'[tasks'[j].root] = 0
    <3> SUFFICES ASSUME NEW j \in Known', tasks'[j].boot = "pending"
                 PROVE  entries[tasks'[j].root] = 0 /\ injecting'[tasks'[j].root] = 0
      OBVIOUS
    <3>1. j # k /\ j \in Known /\ tasks'[j] = tasks[j]
      BY <1>1 DEF Known
    <3> QED
      BY <1>1, <1>4, <3>1, KnownFacts DEF RootsInv, EntriesOnce
  <2> QED
    BY <1>1, <1>4, <2>1, <2>2, <2>3 DEF EntriesOnce
<1>8. ReplacedUnused'
  <2>1. ASSUME NEW j \in Known', ensuring'[j] = "start"
        PROVE  tasks'[j].boot = "pending" /\ tasks'[j].root \notin loaded' \cup rollout'
    <3>1. j # k /\ j \in Known /\ tasks'[j] = tasks[j] /\ ensuring[j] = "start"
      BY <1>1, <1>3, <2>1 DEF Known
    <3> QED
      BY <1>1, <1>4, <3>1 DEF RootsInv, ReplacedUnused, At
  <2>2. \A r \in dropped' : r \notin loaded' \cup rollout' /\ injecting'[r] = 0 /\ On(r) = {}
    BY <1>1, <1>2, <1>4, KnownFacts
  <2> QED
    BY <1>4, <2>1, <2>2 DEF ReplacedUnused, At, On
<1>9. Founded'
  BY <1>1, <1>2, <1>3, <1>4 DEF RootsInv, Founded, At, turnVars
<1> QED
  BY <1>5, <1>6, <1>7, <1>8, <1>9 DEF RootsInv

LEMMA EnsuresKeepsRoots ==
    ASSUME RootsInv, NEW k \in Keys, NEW outcome, Ensures(k, outcome)
    PROVE  RootsInv'
BY ReadyKeepsRoots, EmptyKeepsRoots, AbsentKeepsRoots, StartedKeepsRoots, InitializedKeepsRoots DEF Ensures

-----------------------------------------------------------------------------
(* The native server, and a restart. *)

LEMMA EntryKeepsRoots ==
    ASSUME RootsInv, NEW r \in 1..born, EntryArrives(r)
    PROVE  RootsInv'
<1>1. r \in Roots /\ r \in loaded /\ injecting[r] > 0 /\ injecting \in [Roots -> 0..2] /\ entries \in [Roots -> Nat]
  BY KnownFacts DEF EntryArrives, RootsInv, RootsTypeOK
<1>2. /\ injecting' \in [Roots -> 0..2] /\ injecting'[r] = injecting[r] - 1
      /\ entries' \in [Roots -> Nat] /\ entries'[r] = entries[r] + 1
      /\ \A s \in Roots \ {r} : injecting'[s] = injecting[s] /\ entries'[s] = entries[s]
      /\ rollout' = rollout \cup {r}
      /\ UNCHANGED <<runtimeVars, born, loaded, turnVars, dropped>>
  BY <1>1 DEF EntryArrives
<1>3. RootsTypeOK' /\ RootsOwned' /\ Founded'
  BY <1>1, <1>2 DEF RootsInv, RootsTypeOK, RootsOwned, Founded, Known, At, runtimeVars, turnVars
<1>4. EntriesOnce'
  <2>1. \A s \in Roots : entries'[s] + injecting'[s] <= 1
    BY <1>1, <1>2 DEF RootsInv, EntriesOnce
  <2>2. \A s \in Roots : s > born => entries'[s] = 0 /\ injecting'[s] = 0
    BY <1>1, <1>2, KnownFacts DEF RootsInv, EntriesOnce
  <2>3. \A k \in Known : tasks[k].boot = "pending" =>
            entries'[tasks[k].root] = 0 /\ injecting'[tasks[k].root] = 0
    BY <1>1, <1>2, KnownFacts DEF RootsInv, EntriesOnce
  <2> QED
    BY <1>2, <2>1, <2>2, <2>3 DEF EntriesOnce, Known, runtimeVars
<1>5. ReplacedUnused'
  <2>1. r \notin dropped /\ \A k \in Known : At(k, "start") => tasks[k].root # r
    BY <1>1 DEF RootsInv, ReplacedUnused
  <2>2. dropped \subseteq Roots
    BY KnownFacts DEF RootsInv, RootsTypeOK
  <2> QED
    BY <1>1, <1>2, <2>1, <2>2 DEF RootsInv, ReplacedUnused, Known, At, On, runtimeVars
<1> QED
  BY <1>3, <1>4, <1>5 DEF RootsInv

LEMMA RestartKeepsRoots ==
    ASSUME RootsInv, RootsRestart
    PROVE  RootsInv'
<1>1. PICK written \in [Roots -> 0..2] :
        /\ \A r \in Roots : written[r] <= injecting[r]
        /\ rollout' = rollout \cup {r \in Roots : written[r] > 0}
        /\ entries' = [r \in Roots |-> entries[r] + written[r]]
  BY DEF RootsRestart
<1>2. /\ injecting \in [Roots -> 0..2] /\ entries \in [Roots -> Nat]
      /\ injecting' \in [Roots -> 0..2] /\ entries' \in [Roots -> Nat]
      /\ \A r \in Roots : injecting'[r] = 0 /\ entries'[r] = entries[r] + written[r]
      /\ \A r \in Roots : entries'[r] <= 1
      /\ \A r \in Roots : injecting[r] = 0 => written[r] = 0 /\ entries'[r] = entries[r]
      /\ \A r \in Roots : injecting[r] = 0 /\ r \in rollout' => r \in rollout
  BY <1>1 DEF RootsInv, RootsTypeOK, EntriesOnce, RootsRestart
<1>3. /\ fate' \in [Inputs -> Fates] /\ \A i \in Inputs : fate'[i] # "none" => fate[i] # "none"
      /\ other' \in [Roots -> {"none", "goal", "client"}]
      /\ work' \in [Roots -> {"none", "free", "held"}]
      /\ ensuring' \in [Keys -> Points] /\ \A k \in Keys : ensuring'[k] = "no"
      /\ loaded' = {} /\ heard' = {} /\ intents' = intents
  BY DEF RootsInv, RootsTypeOK, RootsRestart, Fates, Points
<1>4. \A r \in Roots : r > born => injecting[r] = 0 /\ entries[r] = 0
  BY DEF RootsInv, EntriesOnce
<1>5. rollout' \subseteq 1..born
  <2>1. rollout \subseteq 1..born /\ \A r \in Roots : r > born \/ r \in 1..born
    BY KnownFacts DEF RootsInv, RootsTypeOK, Roots
  <2>2. \A r \in rollout' : r \in rollout \/ (r \in Roots /\ injecting[r] # 0)
    BY <1>1, <1>2
  <2> QED
    BY <1>4, <2>1, <2>2
<1>6. ASSUME NEW k \in Known, tasks[k].boot = "pending"
      PROVE  /\ tasks[k].root \in Roots /\ entries'[tasks[k].root] = 0
             /\ tasks[k].root \in rollout' => tasks[k].root \in rollout
  BY <1>2, <1>6, KnownFacts DEF RootsInv, EntriesOnce
<1>7. CASE UNCHANGED <<tasks, born, dropped>>
  <2>1. dropped \subseteq Roots
    BY KnownFacts DEF RootsInv, RootsTypeOK
  <2>2. RootsTypeOK' /\ RootsOwned' /\ Founded'
    BY <1>2, <1>3, <1>5, <1>7 DEF RootsInv, RootsTypeOK, RootsOwned, Founded, Known, At, Fates
  <2>3. EntriesOnce'
    BY <1>2, <1>4, <1>6, <1>7, KnownFacts DEF EntriesOnce, Known
  <2>4. ReplacedUnused'
    BY <1>2, <1>3, <1>7, <2>1 DEF RootsInv, ReplacedUnused, Known, At, On
  <2> QED
    BY <2>2, <2>3, <2>4 DEF RootsInv
<1>8. ASSUME NEW k \in Keys, Aliases(k, "pending")
      PROVE  RootsInv'
  <2>1. /\ born' = born + 1 /\ born + 1 \in Roots
        /\ tasks' \in [Keys -> Task \cup {None}] /\ Known' = Known \cup {k}
        /\ tasks'[k].root = born + 1 /\ tasks'[k].boot = "pending"
        /\ \A j \in Keys \ {k} : tasks'[j] = tasks[j]
        /\ \A j \in Known : tasks[j].root # born + 1
        /\ dropped' \subseteq 1..born
        /\ \A j \in Known \ {k} : tasks[j].root \notin dropped'
        /\ \A r \in dropped' : r \notin loaded \cup rollout /\ injecting[r] = 0 /\ On(r) = {}
        /\ entries[born + 1] = 0 /\ injecting[born + 1] = 0
    BY <1>8, AliasFacts
  <2>2. born \in Nat /\ 1..born \subseteq 1..(born + 1) /\ born + 1 \notin 1..born /\ born + 1 \in 0..MaxRoots
    BY <2>1, KnownFacts DEF Roots
  <2>3. RootsTypeOK'
    BY <1>2, <1>3, <1>5, <2>1, <2>2 DEF RootsInv, RootsTypeOK, Fates
  <2>4. RootsOwned'
    <3>1. \A j \in Known \ {k} : tasks'[j].root \in (1..(born + 1)) \ dropped'
      BY <2>1, <2>2 DEF RootsInv, RootsOwned, Known
    <3>2. tasks'[k].root \in (1..(born + 1)) \ dropped'
      BY <2>1, <2>2
    <3>3. \A i, j \in Known' : tasks'[i].root = tasks'[j].root => i = j
      BY <2>1 DEF RootsInv, RootsOwned, Known
    <3> QED
      BY <2>1, <3>1, <3>2, <3>3 DEF RootsOwned
  <2>5. EntriesOnce'
    <3>1. \A r \in Roots : r > born + 1 => entries'[r] = 0
      BY <1>2, <1>4, <2>2 DEF Roots
    <3>2. ASSUME NEW j \in Known', tasks'[j].boot = "pending"
          PROVE  entries'[tasks'[j].root] = 0 /\ tasks'[j].root \in Roots
      <4>1. CASE j = k
        BY <1>2, <2>1, <4>1
      <4>2. CASE j # k
        BY <1>6, <2>1, <3>2, <4>2, KnownFacts DEF Known
      <4> QED
        BY <4>1, <4>2
    <3> QED
      BY <1>2, <2>1, <3>1, <3>2 DEF EntriesOnce
  <2>6. ReplacedUnused'
    <3>1. dropped' \subseteq Roots
      BY <2>1, KnownFacts
    <3> QED
      BY <1>2, <1>3, <2>1, <3>1 DEF ReplacedUnused, At, On, Known
  <2>7. Founded'
    BY <1>3, <2>1, <2>2 DEF RootsInv, Founded, At
  <2> QED
    BY <2>3, <2>4, <2>5, <2>6, <2>7 DEF RootsInv
<1> QED
  BY <1>7, <1>8 DEF RootsRestart

-----------------------------------------------------------------------------
(* What the parts of a step leave alone. *)

\* The flags of a pause, and the marks of a resource pause.
LEMMA FlaggedKeeps ==
    ASSUME RootsInv, NEW keys \in SUBSET Known, NEW owed \in BOOLEAN
    PROVE  /\ Flagged(keys, owed) \in [Keys -> Task \cup {None}]
           /\ \A k \in Keys \ keys : Flagged(keys, owed)[k] = tasks[k]
           /\ \A k \in keys : /\ Flagged(keys, owed)[k] \in Task
                             /\ Flagged(keys, owed)[k].paused
                             /\ Flagged(keys, owed)[k].root = tasks[k].root
                             /\ Flagged(keys, owed)[k].boot = tasks[k].boot
                             /\ Flagged(keys, owed)[k].auto = tasks[k].auto
<1>1. tasks \in [Keys -> Task \cup {None}] /\ keys \subseteq Keys
  BY DEF RootsInv, RootsTypeOK, Known
<1>2. ASSUME NEW k \in keys
      PROVE  LET u == With(With(tasks[k], "paused", TRUE), "owed", tasks[k].owed \/ owed)
             IN  u \in Task /\ u.paused /\ u.root = tasks[k].root /\ u.boot = tasks[k].boot /\ u.auto = tasks[k].auto
  <2>1. tasks[k] \in Task
    BY <1>2, KnownFacts
  <2>2. (tasks[k].owed \/ owed) \in BOOLEAN
    OBVIOUS
  <2> QED
    BY <2>1, <2>2, TaskFlagged
<1> QED
  BY <1>1, <1>2 DEF Flagged

\* Tasks keep their roots, and a paused one stays paused.
StayPaused == \A k \in Known : tasks[k].paused => tasks'[k].paused

LEMMA FlagsKeep ==
    ASSUME RootsInv, NEW keys \in SUBSET Known, NEW owed \in BOOLEAN, Flags(keys, owed)
    PROVE  KeepsRoots /\ StayPaused /\ \A k \in keys : tasks'[k].paused
<1>1. \A k \in keys : tasks[k] \in Task
  BY KnownFacts
<1> QED
  BY <1>1, FlaggedKeeps, NoneAssumption DEF Flags, KeepsRoots, StayPaused, RootsInv, RootsTypeOK, Known

LEMMA SetKeeps ==
    ASSUME RootsInv, NEW k \in Known, NEW f \in {"owed", "auto", "used"}, NEW b \in BOOLEAN, Set(k, f, b)
    PROVE  KeepsRoots /\ StayPaused
<1>1. tasks \in [Keys -> Task \cup {None}] /\ k \in Keys /\ tasks[k] \in Task
  BY KnownFacts DEF RootsInv, RootsTypeOK
<1>2. /\ With(tasks[k], f, b) \in Task /\ With(tasks[k], f, b).root = tasks[k].root
      /\ With(tasks[k], f, b).boot = tasks[k].boot /\ With(tasks[k], f, b).paused = tasks[k].paused
  <2>1. /\ With(tasks[k], f, b) \in Task /\ With(tasks[k], f, b).root = tasks[k].root
        /\ With(tasks[k], f, b).boot = tasks[k].boot
    BY <1>1 DEF With, Task
  <2>2. With(tasks[k], f, b).paused = tasks[k].paused
    BY <1>1 DEF With, Task
  <2> QED
    BY <2>1, <2>2
<1>3. /\ tasks' \in [Keys -> Task \cup {None}] /\ tasks'[k] = With(tasks[k], f, b)
      /\ \A j \in Keys \ {k} : tasks'[j] = tasks[j]
  BY <1>1, <1>2 DEF Set
<1> QED
  BY <1>1, <1>2, <1>3, NoneAssumption DEF KeepsRoots, StayPaused, Known

LEMMA TasksKeep ==
    ASSUME RootsInv, UNCHANGED tasks
    PROVE  KeepsRoots /\ StayPaused
BY DEF RootsInv, RootsTypeOK, KeepsRoots, StayPaused

LEMMA IntentsKeep ==
    ASSUME RootsInv, UNCHANGED intents
    PROVE  KeepsIntents
BY DEF RootsInv, RootsTypeOK, KeepsIntents

LEMMA TurnsKeep ==
    ASSUME RootsInv, UNCHANGED turnVars
    PROVE  TurnsTyped
BY DEF RootsInv, RootsTypeOK, TurnsTyped, Fates, turnVars

\* What ensure_thread of task k does to the tasks.
LEMMA EnsureTasks ==
    ASSUME RootsInv, NEW k \in Keys, NEW outcome, Ensures(k, outcome)
    PROVE  /\ Known \subseteq Known' /\ StayPaused /\ UNCHANGED <<intents, fate>>
           /\ outcome = "done" => k \in Known /\ tasks'[k].root \in Roots
<1>1. CASE LookReady(k, outcome) \/ Initialized(k, outcome)
  <2>1. k \in Known /\ Set(k, "boot", "ready") /\ UNCHANGED <<intents, fate>>
    BY <1>1, KnownFacts DEF LookReady, Initialized, RootsInv, Founded, turnVars
  <2> QED
    BY <2>1, TasksSetBoot, KnownFacts DEF StayPaused
<1>2. CASE LookEmpty(k, outcome)
  <2>1. outcome # "done" /\ UNCHANGED <<intents, fate>>
    BY <1>2 DEF LookEmpty, turnVars
  <2>2. CASE UNCHANGED tasks
    BY <2>1, <2>2 DEF StayPaused, Known
  <2>3. CASE ~UNCHANGED tasks
    <3>1. k \in Known /\ Set(k, "boot", "sending")
      BY <1>2, <2>3, KnownFacts DEF LookEmpty, Sends
    <3> QED
      BY <2>1, <3>1, TasksSetBoot DEF StayPaused
  <2> QED
    BY <2>2, <2>3
<1>3. CASE LookAbsent(k, outcome)
  BY <1>3 DEF LookAbsent, turnVars, StayPaused, Known
<1>4. CASE Started(k, outcome)
  <2>1. Aliases(k, "sending") /\ outcome # "done" /\ UNCHANGED <<intents, fate>>
    BY <1>4 DEF Started, turnVars
  <2> QED
    BY <2>1, AliasFacts DEF StayPaused, Known
<1> QED
  BY <1>1, <1>2, <1>3, <1>4 DEF Ensures

LEMMA BeginFailTasks ==
    ASSUME RootsInv, NEW k \in Keys, EnsureBegins(k) \/ EnsureFails(k)
    PROVE  Known \subseteq Known' /\ StayPaused /\ UNCHANGED <<intents, fate>>
<1>1. UNCHANGED <<intents, fate>>
  BY DEF EnsureBegins, EnsureFails, turnVars
<1>2. CASE UNCHANGED tasks
  BY <1>1, <1>2 DEF StayPaused, Known
<1>3. CASE ~UNCHANGED tasks
  <2>1. k \in Known /\ Set(k, "boot", "unknown")
    BY <1>3 DEF EnsureBegins, EnsureFails, RootsInv, Founded
  <2> QED
    BY <1>1, <2>1, TasksSetBoot DEF StayPaused
<1> QED
  BY <1>2, <1>3

-----------------------------------------------------------------------------
(* The roots: the steps of the native server, of the desk and of a pause. *)

LEMMA TurnsKeepRoots ==
    ASSUME RootsInv, KeepsRoots, KeepsIntents, TurnsTyped, UNCHANGED <<ensuring, threadVars, dropped>>
    PROVE  RootsInv'
BY RootsFrame DEF threadVars

\* A turn begins in a root that is loaded.
LEMMA AnnounceKeepsRoots ==
    ASSUME RootsInv, NEW r \in loaded, Announces(r),
           fate' \in [Inputs -> Fates], \A i \in Inputs : fate'[i] # "none" => fate[i] # "none",
           other' \in [Roots -> {"none", "goal", "client"}],
           UNCHANGED <<runtimeVars, born, loaded, injecting, entries, work, dropped>>
    PROVE  RootsInv'
<1>1. KeepsRoots /\ KeepsIntents
  BY TasksKeep, IntentsKeep DEF runtimeVars
<1>2. r \in 1..born
  BY DEF RootsInv, RootsTypeOK
<1>3. TurnsTyped
  BY <1>2 DEF RootsInv, RootsTypeOK, TurnsTyped, Announces
<1> QED
  BY <1>1, <1>3, RootsFrame DEF Announces, runtimeVars

LEMMA NativeKeepsRoots ==
    ASSUME RootsInv, Native
    PROVE  RootsInv'
<1>1. ASSUME NEW i \in Inputs, TurnStarts(i)
      PROVE  RootsInv'
  BY <1>1, AnnounceKeepsRoots DEF TurnStarts, RootsInv, RootsTypeOK, Fates
<1>2. ASSUME NEW r \in 1..born, GoalGoesOn(r) \/ StrangerStarts(r)
      PROVE  RootsInv'
  BY <1>2, AnnounceKeepsRoots DEF GoalGoesOn, StrangerStarts, RootsInv, RootsTypeOK, Fates
<1>3. ASSUME NEW r \in 1..born, TurnEnds(r) \/ StrangerEnds(r)
      PROVE  RootsInv'
  <2>1. r \in Roots
    BY KnownFacts
  <2>2. fate' \in [Inputs -> Fates] /\ \A i \in Inputs : fate'[i] # "none" => fate[i] # "none"
    BY <1>3 DEF TurnEnds, StrangerEnds, RootsInv, RootsTypeOK, Fates, Running, On
  <2>3. TurnsTyped
    BY <1>3, <2>1, <2>2 DEF TurnEnds, StrangerEnds, RootsInv, RootsTypeOK, TurnsTyped
  <2> QED
    BY <1>3, <2>3, TurnsKeepRoots, TasksKeep, IntentsKeep DEF TurnEnds, StrangerEnds, runtimeVars
<1> QED
  BY <1>1, <1>2, <1>3, EntryKeepsRoots DEF Native

LEMMA OutsideKeepsRoots ==
    ASSUME RootsInv, NEW r \in 1..born, StrangerStarts(r) \/ GoalSet(r)
    PROVE  RootsInv'
<1>1. CASE StrangerStarts(r)
  BY <1>1, AnnounceKeepsRoots DEF StrangerStarts, RootsInv, RootsTypeOK, Fates
<1>2. CASE GoalSet(r)
  <2>1. TurnsTyped
    BY <1>2 DEF GoalSet, RootsInv, RootsTypeOK, TurnsTyped, Fates
  <2> QED
    BY <1>2, <2>1, TurnsKeepRoots, TasksKeep, IntentsKeep DEF GoalSet, runtimeVars
<1> QED
  BY <1>1, <1>2

LEMMA HearKeepsRoots ==
    ASSUME RootsInv, Hears
    PROVE  RootsInv'
<1>1. ASSUME NEW r \in 1..born, HearStart(r)
      PROVE  RootsInv'
  <2>1. /\ tasks \in [Keys -> Task \cup {None}]
        /\ \A k \in Known : tasks[k] \in Task /\ With(tasks[k], "used", TRUE) \in Task
                            /\ With(tasks[k], "used", TRUE).root = tasks[k].root
                            /\ With(tasks[k], "used", TRUE).boot = tasks[k].boot
    BY KnownFacts, TaskWith DEF RootsInv, RootsTypeOK
  <2>2. KeepsRoots
    BY <1>1, <2>1, NoneAssumption DEF HearStart, KeepsRoots, Known
  <2>3. TurnsTyped
    BY <1>1 DEF HearStart, RootsInv, RootsTypeOK, TurnsTyped, Fates
  <2> QED
    BY <1>1, <2>2, <2>3, IntentsKeep, TurnsKeepRoots DEF HearStart
<1>2. ASSUME NEW i \in Inputs, HearEnd(i)
      PROVE  RootsInv'
  <2>1. intents \in [Inputs -> Intent \cup {None}] /\ intents[i] \in Intent
    BY <1>2 DEF HearEnd, RootsInv, RootsTypeOK, Founded
  <2>2. With(intents[i], "status", "ended") \in Intent /\ With(intents[i], "status", "ended").root = intents[i].root
    BY <2>1, IntentWith
  <2>3. KeepsIntents
    BY <1>2, <2>1, <2>2, NoneAssumption DEF HearEnd, KeepsIntents
  <2> QED
    BY <1>2, <2>3, TasksKeep, TurnsKeep, TurnsKeepRoots DEF HearEnd
<1> QED
  BY <1>1, <1>2 DEF Hears

\* A step that changes neither tasks, intents nor anything native.
LEMMA IdleKeepsRoots ==
    ASSUME RootsInv, UNCHANGED rootVars
    PROVE  RootsInv'
BY TasksKeep, IntentsKeep, TurnsKeep, TurnsKeepRoots DEF rootVars, runtimeVars

LEMMA MarkKeepsRoots ==
    ASSUME RootsInv, NEW keys \in SUBSET Known, NEW owed \in BOOLEAN, Flags(keys, owed),
           UNCHANGED <<intents, ensuring, threadVars, turnVars, dropped>>
    PROVE  RootsInv'
BY FlagsKeep, IntentsKeep, TurnsKeep, TurnsKeepRoots

\* The turns of a root are over, and its work is held.
LEMMA StopDoneKeepsRoots ==
    ASSUME RootsInv, NEW k \in Keys, StopDone(k)
    PROVE  RootsInv'
<1>1. k \in Known /\ Set(k, "owed", tasks[k].owed /\ stops[k] # "owed") /\ tasks[k].owed \in BOOLEAN
  BY KnownFacts DEF StopDone, Task
<1>2. KeepsRoots
  BY <1>1, SetKeeps
<1>3. TurnsTyped
  <2>1. /\ fate' \in [Inputs -> Fates] /\ \A i \in Inputs : fate'[i] # "none" => fate[i] # "none"
    BY DEF StopDone, StopsTrees, RootsInv, RootsTypeOK, Fates, Running, On
  <2>2. other' \in [Roots -> {"none", "goal", "client"}] /\ work' \in [Roots -> {"none", "free", "held"}]
    BY DEF StopDone, StopsTrees, RootsInv, RootsTypeOK
  <2> QED
    BY <2>1, <2>2 DEF TurnsTyped, StopDone, RootsInv, RootsTypeOK
<1> QED
  BY <1>2, <1>3, IntentsKeep, RootsFrame DEF StopDone

LEMMA InterruptedKeepsRoots ==
    ASSUME RootsInv, NEW k \in Keys, Interrupted(k)
    PROVE  RootsInv'
<1>1. KeepsRoots
  <2>1. k \in Known
    BY DEF Interrupted
  <2> QED
    BY <2>1, TasksKeep, FlagsKeep DEF Interrupted
<1>2. TurnsTyped
  <2>1. /\ fate' \in [Inputs -> Fates] /\ \A i \in Inputs : fate'[i] # "none" => fate[i] # "none"
    BY DEF Interrupted, RootsInv, RootsTypeOK, Fates, Running, On
  <2> QED
    BY <2>1 DEF TurnsTyped, Interrupted, RootsInv, RootsTypeOK
<1> QED
  BY <1>1, <1>2, IntentsKeep, TurnsKeepRoots DEF Interrupted

-----------------------------------------------------------------------------
(* The desk: a submit or a resume with one field changed. *)

LEMMA SubmitWith ==
    ASSUME NEW d \in Submitting
    PROVE  /\ d.op = "submit" /\ d.auto \in BOOLEAN /\ d.unread \subseteq Keys /\ d.seen \subseteq Roots
           /\ d.key \in Keys /\ d.waits \in Keys /\ d.input \in Inputs
           /\ \A at \in {"probe", "lock", "ensure", "read", "answer"} :
                  LET u == With(d, "at", at)
                  IN  u \in Submitting /\ u.at = at /\ u.key = d.key /\ u.waits = d.waits /\ u.input = d.input
                      /\ u.auto = d.auto /\ u.unread = d.unread /\ u.seen = d.seen /\ u.op = "submit"
           /\ \A unread \in SUBSET Keys :
                  LET u == With(d, "unread", unread)
                  IN  u \in Submitting /\ u.at = d.at /\ u.key = d.key /\ u.waits = d.waits /\ u.input = d.input
                      /\ u.auto = d.auto /\ u.unread = unread /\ u.seen = d.seen /\ u.op = "submit"
           /\ \A seen \in SUBSET Roots :
                  LET u == With(d, "seen", seen)
                  IN  u \in Submitting /\ u.at = d.at /\ u.key = d.key /\ u.waits = d.waits /\ u.input = d.input
                      /\ u.auto = d.auto /\ u.unread = d.unread /\ u.seen = seen /\ u.op = "submit"
           /\ \A k \in Keys :
                  LET u == With(d, "waits", k)
                  IN  u \in Submitting /\ u.at = d.at /\ u.key = d.key /\ u.waits = k /\ u.input = d.input
                      /\ u.auto = d.auto /\ u.unread = d.unread /\ u.seen = d.seen /\ u.op = "submit"
           /\ \A names \in SUBSET (Keys \X Roots) :
                  LET u == With(d, "names", names)
                  IN  u \in Submitting /\ u.at = d.at /\ u.key = d.key /\ u.waits = d.waits /\ u.input = d.input
                      /\ u.auto = d.auto /\ u.unread = d.unread /\ u.seen = d.seen /\ u.op = "submit"
BY DEF With, Submitting

LEMMA ResumeWith ==
    ASSUME NEW d \in Resuming
    PROVE  /\ d.op = "resume" /\ d.all \in BOOLEAN /\ d.void \in BOOLEAN
           /\ d.stale \subseteq Keys /\ d.todo \subseteq Keys /\ d.key \in Keys /\ d.waits \in Keys
           /\ \A at \in {"lock", "ensure", "native", "last"} :
                  LET u == With(d, "at", at)
                  IN  u \in Resuming /\ u.at = at /\ u.key = d.key /\ u.waits = d.waits /\ u.todo = d.todo
                      /\ u.all = d.all /\ u.void = d.void /\ u.stale = d.stale /\ u.op = "resume"
           /\ \A stale \in SUBSET Keys :
                  LET u == With(d, "stale", stale)
                  IN  u \in Resuming /\ u.at = d.at /\ u.key = d.key /\ u.waits = d.waits /\ u.todo = d.todo
                      /\ u.all = d.all /\ u.void = d.void /\ u.stale = stale /\ u.op = "resume"
           /\ \A void \in BOOLEAN :
                  LET u == With(d, "void", void)
                  IN  u \in Resuming /\ u.at = d.at /\ u.key = d.key /\ u.waits = d.waits /\ u.todo = d.todo
                      /\ u.all = d.all /\ u.void = void /\ u.stale = d.stale /\ u.op = "resume"
BY DEF With, Resuming

-----------------------------------------------------------------------------
(* Steps that begin no input and end no resume. *)

DeskTypes == Submitting \cup Resuming \cup {Free}

\* The desk stands still, or what holds it ends, or a resume goes on with more that it must not undo.
DeskStands ==
    /\ desk' \in DeskTypes
    /\ \/ desk' = desk
       \/ desk'.op = "free"
       \/ /\ desk.op = "resume" /\ desk'.op = "resume"
          /\ desk'.at = desk.at \/ (desk.at = "native" /\ desk'.at = "last")
          /\ desk'.key = desk.key /\ desk'.waits = desk.waits
          /\ desk'.todo = desk.todo /\ desk'.all = desk.all
          /\ desk.void => desk'.void
          /\ desk.stale \subseteq desk'.stale

\* An intent that is there stays, and is ended only when its turn is over.
IntentsSettle ==
    /\ \A i \in Inputs : intents'[i] = None <=> intents[i] = None
    /\ \A i \in Inputs : intents[i] # None =>
           /\ intents'[i].root = intents[i].root /\ intents'[i].auto = intents[i].auto
           /\ intents'[i].status = intents[i].status
              \/ (intents'[i].status = "ended" /\ fate'[i] = "over")
    /\ \A i \in Inputs : fate[i] = "over" => fate'[i] = "over"

LEMMA FencesStand ==
    ASSUME desk \in DeskTypes, NEW keys \in SUBSET Keys, NEW everything \in BOOLEAN, Fences(keys, everything)
    PROVE  /\ DeskStands
           /\ desk'.op = "resume" => (everything => desk'.void) /\ keys \subseteq desk'.stale
<1>1. CASE desk.op # "resume"
  BY <1>1 DEF Fences, DeskStands
<1>2. CASE desk.op = "resume"
  <2>1. desk \in Resuming
    BY <1>2 DEF DeskTypes, Submitting, Free
  <2> DEFINE u == With(desk, "stale", desk.stale \cup keys)
             b == desk.void \/ everything
             v == With(u, "void", b)
  <2>2. desk.stale \cup keys \in SUBSET Keys /\ b \in BOOLEAN
    BY <2>1, ResumeWith
  <2>5. desk' = v
    BY <1>2 DEF Fences
  <2>6. /\ everything => b
        /\ desk.void => b
    OBVIOUS
  <2>3. /\ u \in Resuming /\ u.at = desk.at /\ u.key = desk.key /\ u.waits = desk.waits /\ u.todo = desk.todo
        /\ u.all = desk.all /\ u.stale = desk.stale \cup keys
    BY <2>1, <2>2, ResumeWith
  <2> HIDE DEF u, b
  <2>4. /\ v \in Resuming /\ v.at = desk.at /\ v.key = desk.key /\ v.waits = desk.waits /\ v.todo = desk.todo
        /\ v.all = desk.all /\ v.stale = desk.stale \cup keys /\ v.void = b
        /\ v.op = "resume"
    BY <2>2, <2>3, ResumeWith
  <2> HIDE DEF v
  <2> QED
    BY <1>2, <2>4, <2>5, <2>6 DEF DeskStands, DeskTypes
<1> QED
  BY <1>1, <1>2

LEMMA StandsFounded ==
    ASSUME DeskInv, DeskStands, Known \subseteq Known',
           \A i \in Inputs : intents'[i] = None => intents[i] = None
    PROVE  DeskFounded'
<1>1. CASE desk' = desk
  <2>1. Submits("answer") => desk.input \in Inputs
    BY DEF DeskInv, DeskTypeOK, Submits, Submitting, Resuming, Free
  <2> QED
    BY <1>1, <2>1 DEF DeskInv, DeskFounded, Submits, Resumes, Hydrates
<1>2. CASE desk'.op = "free"
  BY <1>2 DEF DeskFounded, Submits, Resumes
<1>3. CASE desk.op = "resume" /\ desk'.op = "resume" /\ DeskStands
  <2>1. desk.at \in {"native", "last"} => desk.key \in Known
    BY <1>3 DEF DeskInv, DeskFounded, Resumes
  <2>2. desk.at \in {"lock", "ensure"} => desk.waits = desk.key
    BY <1>3 DEF DeskInv, DeskFounded, Hydrates
  <2>3. desk'.at = desk.at \/ (desk.at = "native" /\ desk'.at = "last")
    BY <1>3 DEF DeskStands
  <2>4. desk'.key = desk.key /\ desk'.waits = desk.waits
    BY <1>3 DEF DeskStands
  <2> QED
    BY <1>3, <2>1, <2>2, <2>3, <2>4 DEF DeskFounded, Submits, Resumes
<1> QED
  BY <1>1, <1>2, <1>3 DEF DeskStands

LEMMA RootsFinite == IsFiniteSet(Roots)
BY FS_Interval, RootsAssumption DEF Roots

LEMMA AutoRootsFinite ==
    ASSUME RootsInv
    PROVE  AutoRoots \subseteq Roots /\ IsFiniteSet(AutoRoots) /\ Cardinality(AutoRoots) \in Nat
<1>1. AutoRoots \subseteq Roots
  BY DEF AutoRoots, Counted, RootsInv, RootsTypeOK, Intent
<1> QED
  BY <1>1, RootsFinite, FS_Subset, FS_CardinalityType

\* With fewer roots that may run nothing is exceeded.
LEMMA FewerBounded ==
    ASSUME RootsInv, AutoBounded, AutoRoots' \subseteq AutoRoots
    PROVE  AutoBounded'
<1>1. IsFiniteSet(AutoRoots') /\ Cardinality(AutoRoots') <= Cardinality(AutoRoots)
  BY AutoRootsFinite, FS_Subset
<1>2. Cardinality(AutoRoots') \in Nat /\ Cardinality(AutoRoots) \in Nat /\ MaxActive \in Nat
  BY <1>1, AutoRootsFinite, FS_CardinalityType, ControlAssumption
<1> QED
  BY <1>1, <1>2 DEF AutoBounded

LEMMA SettleFewer ==
    ASSUME IntentsSettle, Submits("answer")' => Submits("answer") /\ desk'.input = desk.input
    PROVE  AutoRoots' \subseteq AutoRoots /\ Reserved' \subseteq Reserved
<1>1. ASSUME NEW i \in Counted'
      PROVE  i \in Counted /\ intents'[i].root = intents[i].root
  BY <1>1 DEF Counted, IntentsSettle, Unresolved
<1>2. ASSUME NEW i \in Inputs, intents'[i] # None, intents'[i].status \in Unresolved
      PROVE  intents[i] # None /\ intents[i].status \in Unresolved /\ intents'[i].root = intents[i].root
  BY <1>2 DEF IntentsSettle, Unresolved
<1>3. AutoRoots' \subseteq AutoRoots
  BY <1>1 DEF AutoRoots
<1> QED
  BY <1>2, <1>3 DEF Reserved

LEMMA SettleEnded ==
    ASSUME EndedIsOver, IntentsSettle
    PROVE  EndedIsOver'
BY DEF EndedIsOver, IntentsSettle

LEMMA CapacityFrame ==
    ASSUME RootsInv, CapacityInv, DeskStands, IntentsSettle
    PROVE  CapacityInv'
<1>1. desk' = desk \/ desk'.op # "submit"
  BY DEF DeskStands
<1>2. AutoRoots' \subseteq AutoRoots /\ Reserved' \subseteq Reserved
  BY <1>1, SettleFewer DEF Submits
<1>3. AutoBounded' /\ EndedIsOver'
  BY <1>2, FewerBounded, SettleEnded DEF CapacityInv
<1>4. ReservedSeen'
  BY <1>1, <1>2 DEF CapacityInv, ReservedSeen
<1>5. RoomLeft'
  BY <1>1 DEF CapacityInv, RoomLeft, PastProbe, Hydrates
<1> QED
  BY <1>3, <1>4, <1>5 DEF CapacityInv

\* Nothing is asked for, and nothing that is paused runs again.
LEMMA QuietStep ==
    ASSUME ControlInv, RootsInv', Known \subseteq Known', StayPaused, IntentsSettle,
           desk' = desk \/ desk' = Free,
           UNCHANGED <<autonomy, spent, halting, told, looked, asked, askedAll>>,
           calls' \in Nat, stops' \in [Keys -> Stops],
           half' \subseteq Keys
    PROVE  ControlInv'
<1>1. DeskStands
  BY DEF DeskStands, DeskTypes, ControlInv, DeskInv, DeskTypeOK, Free
<1>2. DeskInv'
  BY <1>1, StandsFounded DEF ControlInv, DeskInv, DeskTypeOK, DeskTypes, DeskStands, IntentsSettle
<1>3. CapacityInv'
  BY <1>1, CapacityFrame DEF ControlInv
<1>4. FlagsHold'
  BY DEF ControlInv, FlagsInv, FlagsHold, StayPaused
<1>5. FencesKnown'
  BY DEF ControlInv, FlagsInv, FencesKnown, Free
<1> QED
  BY <1>2, <1>3, <1>4, <1>5 DEF ControlInv, FlagsInv

\* keys are paused, and a resume under way learns of it.
LEMMA MarkStep ==
    ASSUME ControlInv, RootsInv', NEW keys \in SUBSET Known,
           KeepsRoots, StayPaused, \A k \in keys : tasks'[k].paused, Notes(keys, "pause"),
           IntentsSettle, DeskStands,
           desk'.op = "resume" => desk'.void \/ keys \subseteq desk'.stale,
           \/ UNCHANGED askedAll
           \/ askedAll' = "pause" /\ autonomy' /\ (desk'.op = "resume" => desk'.void),
           autonomy' \in BOOLEAN, autonomy => autonomy', spent' \in BOOLEAN,
           halting' \in BOOLEAN, told' \in {"ok", "spent"}, looked' \in BOOLEAN,
           calls' \in Nat, stops' \in [Keys -> Stops],
           half' \subseteq Keys
    PROVE  ControlInv'
<1>1. Known' = Known
  BY DEF KeepsRoots, Known
<1>2. asked' \in [Keys -> Ask] /\ \A k \in Keys : asked'[k] = "pause" => k \in keys \/ asked[k] = "pause"
  BY DEF Notes, Ask, ControlInv, DeskInv, DeskTypeOK
<1>3. DeskInv'
  <2>1. DeskFounded'
    BY <1>1, StandsFounded DEF ControlInv, IntentsSettle
  <2> QED
    BY <1>2, <2>1 DEF ControlInv, DeskInv, DeskTypeOK, DeskTypes, DeskStands, Ask
<1>4. CapacityInv'
  BY CapacityFrame DEF ControlInv
<1>5. FlagsHold'
  BY <1>1, <1>2 DEF ControlInv, FlagsInv, FlagsHold, StayPaused
<1>6. FencesKnown'
  <2> SUFFICES ASSUME desk'.op = "resume"
               PROVE  /\ \A k \in {desk'.key} \cup desk'.todo :
                             asked'[k] = "pause" => desk'.void \/ k \in desk'.stale
                      /\ desk'.all /\ askedAll' = "pause" => desk'.void
    BY DEF FencesKnown
  <2>1. /\ desk.op = "resume" /\ desk'.key = desk.key /\ desk'.todo = desk.todo /\ desk'.all = desk.all
        /\ desk.void => desk'.void
        /\ desk.stale \subseteq desk'.stale
    BY DEF DeskStands
  <2>2. desk.key \in Keys /\ desk.todo \subseteq Keys
    BY <2>1 DEF ControlInv, DeskInv, DeskTypeOK, Submitting, Resuming, Free
  <2>3. /\ \A k \in {desk.key} \cup desk.todo : asked[k] = "pause" => desk.void \/ k \in desk.stale
        /\ desk.all /\ askedAll = "pause" => desk.void
    BY <2>1 DEF ControlInv, FlagsInv, FencesKnown
  <2> QED
    BY <1>2, <2>1, <2>2, <2>3
<1> QED
  BY <1>3, <1>4, <1>5, <1>6 DEF ControlInv, FlagsInv

-----------------------------------------------------------------------------
(* The steps one by one: those that ask for nothing. *)

LEMMA SameSettles ==
    ASSUME UNCHANGED intents, \A i \in Inputs : fate[i] = "over" => fate'[i] = "over"
    PROVE  IntentsSettle
BY DEF IntentsSettle

LEMMA CallCounts ==
    ASSUME DeskInv, Call
    PROVE  calls' \in Nat
BY DEF DeskInv, DeskTypeOK, Call

LEMMA NativeStep ==
    ASSUME ControlInv, Native \/ Hears, UNCHANGED <<deskVars, historyVars>>
    PROVE  ControlInv'
<1>1. RootsInv'
  BY NativeKeepsRoots, HearKeepsRoots DEF ControlInv
<1>2. /\ UNCHANGED <<autonomy, spent, halting, told, looked, asked, askedAll, desk>>
      /\ calls' \in Nat /\ stops' \in [Keys -> Stops] /\ half' \subseteq Keys
  BY DEF deskVars, historyVars, ControlInv, DeskInv, DeskTypeOK
<1>3. Known \subseteq Known' /\ StayPaused
  <2>1. CASE UNCHANGED tasks
    BY <2>1 DEF Known, StayPaused
  <2>2. ASSUME NEW r \in 1..born, HearStart(r)
        PROVE  Known \subseteq Known' /\ StayPaused
    <3>1. \A k \in Known : /\ With(tasks[k], "used", TRUE) \in Task
                           /\ With(tasks[k], "used", TRUE).paused = tasks[k].paused
      BY KnownFacts DEF With, Task, ControlInv
    <3> QED
      BY <2>2, <3>1, NoneAssumption DEF HearStart, Known, StayPaused
  <2> QED
    BY <2>1, <2>2 DEF Native, Hears, EntryArrives, TurnEnds, GoalGoesOn, StrangerEnds, TurnStarts,
       HearEnd, runtimeVars
<1>4. IntentsSettle
  <2>1. ASSUME NEW i \in Inputs, HearEnd(i)
        PROVE  IntentsSettle
    <3>1. intents \in [Inputs -> Intent \cup {None}] /\ intents[i] \in Intent
      BY <2>1 DEF HearEnd, ControlInv, RootsInv, RootsTypeOK, Founded
    <3>2. LET n == With(intents[i], "status", "ended")
          IN  n \in Intent /\ n.status = "ended" /\ n.root = intents[i].root /\ n.auto = intents[i].auto
      BY <3>1, IntentWith
    <3> QED
      BY <2>1, <3>1, <3>2, NoneAssumption DEF HearEnd, IntentsSettle, turnVars
  <2>2. ASSUME NEW i \in Inputs, TurnStarts(i)
        PROVE  IntentsSettle
    BY <2>2, SameSettles DEF TurnStarts, runtimeVars, ControlInv, RootsInv, RootsTypeOK
  <2>3. ASSUME NEW r \in 1..born, TurnEnds(r)
        PROVE  IntentsSettle
    BY <2>3, SameSettles DEF TurnEnds, runtimeVars
  <2>4. ASSUME NEW r \in 1..born, EntryArrives(r) \/ GoalGoesOn(r) \/ StrangerEnds(r) \/ HearStart(r)
        PROVE  IntentsSettle
    BY <2>4, SameSettles DEF EntryArrives, GoalGoesOn, StrangerEnds, HearStart, runtimeVars, turnVars
  <2> QED
    BY <2>1, <2>2, <2>3, <2>4 DEF Native, Hears
<1> QED
  BY <1>1, <1>2, <1>3, <1>4, QuietStep

LEMMA OutsideStep ==
    ASSUME ControlInv, NEW r \in 1..born, StrangerStarts(r) \/ GoalSet(r), Call,
           UNCHANGED <<deskVars, told, looked, asked, askedAll, half>>
    PROVE  ControlInv'
<1>1. RootsInv'
  BY OutsideKeepsRoots DEF ControlInv
<1>2. UNCHANGED <<tasks, intents, fate>>
  BY DEF StrangerStarts, GoalSet, runtimeVars
<1>3. Known \subseteq Known' /\ StayPaused /\ IntentsSettle
  BY <1>2, SameSettles DEF Known, StayPaused
<1>4. calls' \in Nat
  BY CallCounts DEF ControlInv
<1>5. /\ UNCHANGED <<autonomy, spent, halting, told, looked, asked, askedAll, desk>>
      /\ stops' \in [Keys -> Stops] /\ half' \subseteq Keys
  BY DEF deskVars, ControlInv, DeskInv, DeskTypeOK
<1> QED
  BY <1>1, <1>3, <1>4, <1>5, QuietStep

LEMMA StopStep ==
    ASSUME ControlInv, NEW k \in Keys, StopDone(k)
    PROVE  ControlInv'
<1>1. RootsInv'
  BY StopDoneKeepsRoots DEF ControlInv
<1>2. KeepsRoots /\ StayPaused
  <2>1. k \in Known /\ Set(k, "owed", tasks[k].owed /\ stops[k] # "owed") /\ tasks[k].owed \in BOOLEAN
    BY KnownFacts DEF StopDone, Task, ControlInv
  <2> QED
    BY <2>1, SetKeeps DEF ControlInv
<1>3. IntentsSettle
  BY SameSettles DEF StopDone, StopsTrees
<1>4. /\ UNCHANGED <<autonomy, spent, halting, told, looked, asked, askedAll, desk>> /\ calls' \in Nat
      /\ stops' \in [Keys -> Stops] /\ half' \subseteq Keys
  BY DEF StopDone, ControlInv, DeskInv, DeskTypeOK, Stops
<1>5. Known \subseteq Known'
  BY <1>2 DEF KeepsRoots, Known
<1> QED
  BY <1>1, <1>2, <1>3, <1>4, <1>5, QuietStep

LEMMA ThreadStep ==
    ASSUME ControlInv, NEW k \in Keys, Thread(k) \/ ThreadEnsured(k) \/ EnsureGivesUp(k)
    PROVE  ControlInv'
<1>1. \/ EnsureBegins(k) \/ EnsureFails(k)
      \/ \E outcome \in {"waits", "done", "absent", "raises"} : Ensures(k, outcome)
  BY DEF Thread, ThreadEnsured, EnsureGivesUp
<1>2. RootsInv'
  BY <1>1, BeginKeepsRoots, FailKeepsRoots, EnsuresKeepsRoots DEF ControlInv
<1>3. Known \subseteq Known' /\ StayPaused /\ UNCHANGED <<intents, fate>>
  BY <1>1, EnsureTasks, BeginFailTasks DEF ControlInv
<1>4. IntentsSettle
  BY <1>3, SameSettles
<1>5. calls' \in Nat
  BY CallCounts DEF Thread, ThreadEnsured, EnsureGivesUp, historyVars, ControlInv, DeskInv, DeskTypeOK
<1>6. /\ UNCHANGED <<autonomy, spent, halting, told, looked, asked, askedAll>>
      /\ desk' = desk \/ desk' = Free
      /\ stops' \in [Keys -> Stops] /\ half' \subseteq Keys
  BY DEF Thread, ThreadEnsured, EnsureGivesUp, deskVars, historyVars, ControlInv, DeskInv, DeskTypeOK
<1> QED
  BY <1>2, <1>3, <1>4, <1>5, <1>6, QuietStep

\* A submit is given up, or a resume, before it has changed anything here.
LEMMA QuitStep ==
    ASSUME ControlInv, SubmitFails \/ SubmitDeferred \/ ResumeFails
    PROVE  ControlInv'
<1>1. UNCHANGED <<runtimeVars, threadVars, fate, other, heard, dropped>>
  BY DEF SubmitFails, SubmitDeferred, OnlyDesk, ResumeFails, rootVars, turnVars
<1>2. RootsInv'
  <2>1. work' \in [Roots -> {"none", "free", "held"}]
    BY DEF SubmitFails, SubmitDeferred, OnlyDesk, ResumeFails, rootVars, turnVars, Released,
       ControlInv, RootsInv, RootsTypeOK
  <2>2. TurnsTyped
    BY <1>1, <2>1 DEF TurnsTyped, ControlInv, RootsInv, RootsTypeOK, Fates
  <2> QED
    BY <1>1, <2>2, TasksKeep, IntentsKeep, TurnsKeepRoots DEF runtimeVars, ControlInv
<1>3. Known \subseteq Known' /\ StayPaused /\ IntentsSettle
  BY <1>1, SameSettles DEF runtimeVars, Known, StayPaused
<1>4. calls' \in Nat
  BY CallCounts DEF SubmitFails, SubmitDeferred, OnlyDesk, ResumeFails, historyVars, ControlInv, DeskInv, DeskTypeOK
<1>5. half' \subseteq Keys
  <2>1. ASSUME ResumeFails
        PROVE  desk.key \in Keys
    BY <2>1 DEF ResumeFails, Resumes, ControlInv, DeskInv, DeskTypeOK, Submitting, Resuming, Free
  <2> QED
    BY <2>1 DEF SubmitFails, SubmitDeferred, OnlyDesk, ResumeFails, historyVars, ControlInv, DeskInv, DeskTypeOK
<1>6. /\ UNCHANGED <<autonomy, spent, halting, told, looked, asked, askedAll>>
      /\ desk' = Free /\ stops' \in [Keys -> Stops]
  BY DEF SubmitFails, SubmitDeferred, OnlyDesk, ResumeFails, Quits, historyVars, ControlInv, DeskInv, DeskTypeOK
<1> QED
  BY <1>2, <1>3, <1>4, <1>5, <1>6, QuietStep

-----------------------------------------------------------------------------
(* The steps of a pause, and of the resources. *)

LEMMA ComingTyped ==
    ASSUME DeskInv, NEW keys \in SUBSET Keys, NEW why \in Stops, Coming(keys, why)
    PROVE  stops' \in [Keys -> Stops]
BY DEF DeskInv, DeskTypeOK, Coming

LEMMA PauseStep ==
    ASSUME ControlInv, NEW k \in Keys, Pause(k)
    PROVE  ControlInv'
<1>1. /\ {k} \in SUBSET Known /\ Flags({k}, FALSE) /\ Fences({k}, FALSE) /\ Notes({k}, "pause")
      /\ Coming({k}, "pause") /\ Call
      /\ UNCHANGED <<intents, ensuring, threadVars, turnVars, dropped>>
      /\ UNCHANGED <<autonomy, spent, halting, told, looked, askedAll, half>>
  BY DEF Pause
<1>2. RootsInv' /\ KeepsRoots /\ StayPaused /\ \A j \in {k} : tasks'[j].paused
  BY <1>1, MarkKeepsRoots, FlagsKeep DEF ControlInv
<1>3. DeskStands /\ (desk'.op = "resume" => {k} \subseteq desk'.stale)
  BY <1>1, FencesStand DEF ControlInv, DeskInv, DeskTypeOK, DeskTypes
<1>4. IntentsSettle
  BY <1>1, SameSettles DEF turnVars
<1>5. calls' \in Nat /\ stops' \in [Keys -> Stops]
  BY <1>1, CallCounts, ComingTyped DEF ControlInv, Stops
<1> QED
  BY <1>1, <1>2, <1>3, <1>4, <1>5, MarkStep DEF ControlInv, DeskInv, DeskTypeOK

LEMMA PauseAllStep ==
    ASSUME ControlInv, PauseAll
    PROVE  ControlInv'
<1>1. /\ Known \in SUBSET Known /\ Flags(Known, FALSE) /\ Fences({}, TRUE) /\ Notes(Known, "pause")
      /\ Coming(Known, "due") /\ Call /\ autonomy' = TRUE /\ askedAll' = "pause"
      /\ UNCHANGED <<intents, ensuring, threadVars, turnVars, dropped>>
      /\ UNCHANGED <<spent, told, looked, half>> /\ halting' \in {halting, FALSE}
  BY DEF PauseAll
<1>2. RootsInv' /\ KeepsRoots /\ StayPaused /\ \A j \in Known : tasks'[j].paused
  BY <1>1, MarkKeepsRoots, FlagsKeep DEF ControlInv
<1>3. DeskStands /\ (desk'.op = "resume" => desk'.void)
  BY <1>1, FencesStand DEF ControlInv, DeskInv, DeskTypeOK, DeskTypes
<1>4. IntentsSettle
  BY <1>1, SameSettles DEF turnVars
<1>5. calls' \in Nat /\ stops' \in [Keys -> Stops]
  BY <1>1, CallCounts, ComingTyped DEF ControlInv, Known, Stops
<1> QED
  BY <1>1, <1>2, <1>3, <1>4, <1>5, MarkStep DEF ControlInv, DeskInv, DeskTypeOK

LEMMA InterruptedStep ==
    ASSUME ControlInv, NEW k \in Keys, Interrupted(k)
    PROVE  ControlInv'
<1>1. /\ k \in Known /\ Call
      /\ UNCHANGED <<intents, ensuring, threadVars, other, work, heard, dropped>>
      /\ UNCHANGED <<spent, told, looked, askedAll, half>>
      /\ \A i \in Inputs : fate[i] = "over" => fate'[i] = "over"
  BY DEF Interrupted
<1>2. RootsInv'
  BY InterruptedKeepsRoots DEF ControlInv
<1>3. IntentsSettle
  BY <1>1, SameSettles
<1>4. calls' \in Nat
  BY <1>1, CallCounts DEF ControlInv
<1>5. CASE tasks[k].paused /\ ~BeingResumed(k)
  <2>1. UNCHANGED <<tasks, stops, halting, desk, autonomy, asked>>
    BY <1>5 DEF Interrupted
  <2>2. Known \subseteq Known' /\ StayPaused
    BY <2>1 DEF Known, StayPaused
  <2> QED
    BY <1>1, <1>2, <1>3, <1>4, <2>1, <2>2, QuietStep DEF ControlInv, DeskInv, DeskTypeOK
<1>6. CASE ~(tasks[k].paused /\ ~BeingResumed(k))
  <2>1. /\ Flags({k}, FALSE) /\ Notes({k}, "pause")
        /\ IF k = Main
           THEN Fences({}, TRUE) /\ autonomy' = TRUE /\ halting' = TRUE /\ UNCHANGED stops
           ELSE Fences({k}, FALSE) /\ Coming({k}, "due") /\ UNCHANGED <<autonomy, halting>>
    BY <1>6 DEF Interrupted
  <2>2. KeepsRoots /\ StayPaused /\ \A j \in {k} : tasks'[j].paused
    BY <1>1, <2>1, FlagsKeep DEF ControlInv
  <2>3. DeskStands /\ (desk'.op = "resume" => desk'.void \/ {k} \subseteq desk'.stale)
    BY <2>1, FencesStand DEF ControlInv, DeskInv, DeskTypeOK, DeskTypes
  <2>4. stops' \in [Keys -> Stops]
    <3>1. UNCHANGED stops \/ (Coming({k}, "due") /\ {k} \in SUBSET Keys /\ "due" \in Stops)
      BY <2>1 DEF Stops
    <3> QED
      BY <3>1, ComingTyped DEF ControlInv, DeskInv, DeskTypeOK
  <2>5. autonomy' \in BOOLEAN /\ (autonomy => autonomy') /\ halting' \in BOOLEAN
    BY <2>1 DEF ControlInv, DeskInv, DeskTypeOK
  <2>6. {k} \in SUBSET Known
    BY <1>1
  <2> QED
    BY <1>1, <1>2, <1>3, <1>4, <2>1, <2>2, <2>3, <2>4, <2>5, <2>6, MarkStep DEF ControlInv, DeskInv, DeskTypeOK
<1> QED
  BY <1>5, <1>6

LEMMA ReportStep ==
    ASSUME ControlInv, NEW answer \in Answers, Report(answer)
    PROVE  ControlInv'
<1> DEFINE keys == ToMark(spent')
<1>1. /\ keys \in SUBSET Known /\ keys \in SUBSET Keys /\ Flags(keys, TRUE) /\ Fences(keys, FALSE) /\ Notes(keys, "pause")
      /\ Call
      /\ UNCHANGED <<intents, ensuring, threadVars, turnVars, dropped>>
      /\ UNCHANGED <<autonomy, stops, halting, askedAll, half>>
  BY MarkedKnown DEF Report, Known
<1>2. spent' \in BOOLEAN /\ told' \in {"ok", "spent"} /\ looked' \in BOOLEAN
  BY DEF Report, Recorded, Answers, ControlInv, DeskInv, DeskTypeOK
<1> HIDE DEF keys
<1>3. RootsInv' /\ KeepsRoots /\ StayPaused /\ \A j \in keys : tasks'[j].paused
  BY <1>1, MarkKeepsRoots, FlagsKeep DEF ControlInv
<1>4. DeskStands /\ (desk'.op = "resume" => keys \subseteq desk'.stale)
  BY <1>1, FencesStand DEF ControlInv, DeskInv, DeskTypeOK, DeskTypes
<1>5. IntentsSettle
  BY <1>1, SameSettles DEF turnVars
<1>6. calls' \in Nat
  BY <1>1, CallCounts DEF ControlInv
<1> QED
  BY <1>1, <1>2, <1>3, <1>4, <1>5, <1>6, MarkStep DEF ControlInv, DeskInv, DeskTypeOK

LEMMA SweepStep ==
    ASSUME ControlInv, NEW k \in Keys, Sweep(k)
    PROVE  ControlInv'
<1>1. /\ {k} \in SUBSET Known /\ Flags({k}, FALSE) /\ Fences({k}, FALSE) /\ Notes({k}, "pause")
      /\ UNCHANGED <<intents, ensuring, threadVars, turnVars, dropped>>
      /\ UNCHANGED <<autonomy, spent, halting, calls, told, looked, askedAll, half>>
  BY DEF Sweep
<1>2. RootsInv' /\ KeepsRoots /\ StayPaused /\ \A j \in {k} : tasks'[j].paused
  BY <1>1, MarkKeepsRoots, FlagsKeep DEF ControlInv
<1>3. DeskStands /\ (desk'.op = "resume" => {k} \subseteq desk'.stale)
  BY <1>1, FencesStand DEF ControlInv, DeskInv, DeskTypeOK, DeskTypes
<1>4. IntentsSettle
  BY <1>1, SameSettles DEF turnVars
<1>5. stops' \in [Keys -> Stops]
  BY DEF Sweep, ControlInv, DeskInv, DeskTypeOK, Stops
<1> QED
  BY <1>1, <1>2, <1>3, <1>4, <1>5, MarkStep DEF ControlInv, DeskInv, DeskTypeOK

LEMMA RejectedStep ==
    ASSUME ControlInv, ResumeRejected
    PROVE  ControlInv'
<1>1. /\ ToMark(spent) \in SUBSET Known /\ Flags(ToMark(spent), TRUE) /\ Notes(ToMark(spent), "pause")
      /\ desk' = Free
      /\ UNCHANGED <<intents, ensuring, threadVars, turnVars, dropped>>
      /\ UNCHANGED <<autonomy, spent, stops, halting, calls, told, looked, askedAll, half>>
  BY MarkedKnown DEF ResumeRejected, Checks, Quits
<1>2. RootsInv' /\ KeepsRoots /\ StayPaused /\ \A j \in ToMark(spent) : tasks'[j].paused
  BY <1>1, MarkKeepsRoots, FlagsKeep DEF ControlInv
<1>3. DeskStands /\ desk'.op # "resume"
  BY <1>1 DEF DeskStands, DeskTypes, Free
<1>4. IntentsSettle
  BY <1>1, SameSettles DEF turnVars
<1> QED
  BY <1>1, <1>2, <1>3, <1>4, MarkStep DEF ControlInv, DeskInv, DeskTypeOK

LEMMA ReleasesStep ==
    ASSUME ControlInv, ResumeReleases
    PROVE  ControlInv'
<1>1. /\ ToMark(spent) \in SUBSET Known /\ ToMark(spent) \in SUBSET Keys
      /\ Flags(ToMark(spent), TRUE) /\ Notes(ToMark(spent), "pause")
      /\ Released(RootOf(desk.key)) /\ Marking("last") /\ Resumes("native")
      /\ UNCHANGED <<intents, ensuring, threadVars, fate, other, heard, dropped>>
      /\ UNCHANGED <<autonomy, spent, stops, halting, calls, told, looked, askedAll, half>>
  BY MarkedKnown DEF ResumeReleases, Checks, Known
<1>2. KeepsRoots /\ StayPaused /\ \A j \in ToMark(spent) : tasks'[j].paused
  BY <1>1, FlagsKeep DEF ControlInv
<1>3. TurnsTyped
  BY <1>1 DEF TurnsTyped, Released, ControlInv, RootsInv, RootsTypeOK, Fates
<1>4. RootsInv'
  BY <1>1, <1>2, <1>3, IntentsKeep, TurnsKeepRoots DEF ControlInv
<1>5. IntentsSettle
  BY <1>1, SameSettles
<1>6. DeskStands /\ ToMark(spent) \subseteq desk'.stale
  <2> DEFINE keys == ToMark(spent)
             u == With(desk, "stale", desk.stale \cup keys)
             v == With(u, "at", "last")
  <2>1. desk \in Resuming /\ desk.at = "native"
    BY <1>1 DEF Resumes, ControlInv, DeskInv, DeskTypeOK, Submitting, Free
  <2>2. desk' = v /\ keys \in SUBSET Keys
    BY <1>1 DEF Marking
  <2> HIDE DEF keys
  <2>3. desk.stale \cup keys \in SUBSET Keys
    BY <2>1, <2>2, ResumeWith
  <2>4. /\ u \in Resuming /\ u.key = desk.key /\ u.waits = desk.waits /\ u.todo = desk.todo
        /\ u.all = desk.all /\ u.void = desk.void /\ u.stale = desk.stale \cup keys
    BY <2>1, <2>3, ResumeWith
  <2> HIDE DEF u
  <2>5. /\ v \in Resuming /\ v.at = "last" /\ v.key = desk.key /\ v.waits = desk.waits /\ v.todo = desk.todo
        /\ v.all = desk.all /\ v.void = desk.void /\ v.stale = desk.stale \cup keys /\ v.op = "resume"
    BY <2>4, ResumeWith
  <2> HIDE DEF v
  <2>6. DeskStands /\ keys \subseteq desk'.stale
    BY <2>1, <2>2, <2>5, ResumeWith DEF DeskStands, DeskTypes
  <2> QED
    BY <2>6 DEF keys
<1> QED
  BY <1>1, <1>2, <1>4, <1>5, <1>6, MarkStep DEF ControlInv, DeskInv, DeskTypeOK

-----------------------------------------------------------------------------
(* The steps of a submit until its input is sent, and those of a resume until it releases the task. *)

\* A submit goes from one of its awaits to the next.
LEMMA SubmitMoves ==
    ASSUME ControlInv, RootsInv', Known \subseteq Known', StayPaused, UNCHANGED <<intents, fate>>,
           UNCHANGED <<autonomy, spent, stops, halting, historyVars>>,
           desk' \in Submitting, ~Submits("answer")', DeskFounded', ReservedSeen', RoomLeft'
    PROVE  ControlInv'
<1>1. IntentsSettle
  BY SameSettles
<1>2. CapacityInv'
  BY <1>1, SettleFewer, SettleEnded, FewerBounded DEF ControlInv, CapacityInv
<1>3. FlagsInv'
  BY SubmitWith DEF ControlInv, FlagsInv, FlagsHold, FencesKnown, StayPaused, historyVars
<1>4. DeskInv'
  BY DEF ControlInv, DeskInv, DeskTypeOK, historyVars
<1> QED
  BY <1>2, <1>3, <1>4 DEF ControlInv

\* A resume goes from one of its awaits to the next.
LEMMA ResumeMoves ==
    ASSUME ControlInv, RootsInv', Known \subseteq Known', StayPaused, UNCHANGED <<intents, fate>>,
           UNCHANGED <<autonomy, spent, stops, halting, historyVars>>,
           desk \in Resuming, desk' \in Resuming, DeskFounded', desk'.key = desk.key, desk'.todo = desk.todo,
           desk'.all = desk.all, desk'.void = desk.void, desk'.stale = desk.stale
    PROVE  ControlInv'
<1>1. IntentsSettle
  BY SameSettles
<1>2. desk.op = "resume" /\ desk'.op = "resume"
  BY ResumeWith
<1>3. CapacityInv'
  BY <1>1, <1>2, SettleFewer, SettleEnded, FewerBounded
     DEF ControlInv, CapacityInv, Submits, ReservedSeen, RoomLeft, PastProbe
<1>4. FlagsInv'
  BY <1>2 DEF ControlInv, FlagsInv, FlagsHold, FencesKnown, StayPaused, historyVars
<1>5. DeskInv'
  BY DEF ControlInv, DeskInv, DeskTypeOK, historyVars
<1> QED
  BY <1>3, <1>4, <1>5 DEF ControlInv

LEMMA OnlyDeskFacts ==
    ASSUME ControlInv, OnlyDesk
    PROVE  /\ RootsInv' /\ Known' = Known /\ StayPaused /\ UNCHANGED <<intents, fate>>
           /\ UNCHANGED <<autonomy, spent, stops, halting, historyVars>> /\ Reserved' = Reserved /\ IntentsSettle
<1>1. UNCHANGED <<tasks, intents, fate>>
  BY DEF OnlyDesk, rootVars, runtimeVars, turnVars
<1>2. RootsInv'
  BY IdleKeepsRoots DEF ControlInv, OnlyDesk
<1>3. IntentsSettle
  BY <1>1, SameSettles
<1> QED
  BY <1>1, <1>2, <1>3 DEF OnlyDesk, Known, StayPaused, Reserved

LEMMA SubmitBeginsStep ==
    ASSUME ControlInv, NEW k \in Keys, NEW i \in Inputs, NEW auto \in BOOLEAN, SubmitBegins(k, i, auto)
    PROVE  ControlInv'
<1>1. Reserved \subseteq Roots
  BY DEF Reserved, ControlInv, RootsInv, RootsTypeOK, Intent
<1>2. Named \subseteq Keys \X Roots /\ Known \subseteq Keys
  BY KnownFacts DEF Named, Known, ControlInv
<1>3. /\ desk' \in Submitting /\ desk'.op = "submit"
      /\ desk'.at = (IF auto THEN "probe" ELSE "lock") /\ desk'.key = k /\ desk'.waits = k
      /\ desk'.auto = auto /\ desk'.unread \subseteq Known /\ desk'.seen = Reserved
  BY <1>1, <1>2 DEF SubmitBegins, Submitting
<1>4. OnlyDesk
  BY DEF SubmitBegins
<1>5. /\ RootsInv' /\ Known' = Known /\ StayPaused /\ UNCHANGED <<intents, fate>>
      /\ UNCHANGED <<autonomy, spent, stops, halting, historyVars>> /\ Reserved' = Reserved
  BY <1>4, OnlyDeskFacts
<1>6. ~Submits("answer")' /\ ReservedSeen' /\ DeskFounded'
  BY <1>3, <1>5 DEF Submits, Resumes, ReservedSeen, DeskFounded
<1>7. RoomLeft'
  BY <1>3 DEF RoomLeft, PastProbe
<1> QED
  BY <1>3, <1>5, <1>6, <1>7, SubmitMoves

\* What a submit knows while it probes.
LEMMA ProbeFacts ==
    ASSUME ControlInv, Submits("probe")
    PROVE  desk \in Submitting /\ desk.unread \subseteq Known /\ desk.unread \subseteq Keys /\ Reserved \subseteq desk.seen
BY DEF Submits, ControlInv, DeskInv, DeskTypeOK, DeskFounded, Resuming, Free, CapacityInv, ReservedSeen, Known

LEMMA ProbeReadsStep ==
    ASSUME ControlInv, NEW k \in Keys, ProbeReads(k)
    PROVE  ControlInv'
<1>1. /\ RootsInv' /\ Known' = Known /\ StayPaused /\ UNCHANGED <<intents, fate>>
      /\ UNCHANGED <<autonomy, spent, stops, halting, historyVars>> /\ Reserved' = Reserved /\ IntentsSettle
  BY OnlyDeskFacts DEF ProbeReads
<1>2. /\ desk \in Submitting /\ desk.at = "probe" /\ desk.unread \subseteq Known /\ desk.unread \subseteq Keys
      /\ Reserved \subseteq desk.seen /\ k \in desk.unread /\ k \in Known
  BY ProbeFacts DEF ProbeReads, Submits
<1>3. RootOf(k) \in Roots
  BY <1>2, KnownFacts DEF ControlInv
<1> DEFINE a == With(desk, "unread", desk.unread \ {k})
           seen == desk.seen \cup {RootOf(k)}
           b == With(a, "seen", seen)
           c == With(desk, "waits", k)
           e == With(c, "at", "lock")
<1>4. /\ a \in Submitting /\ a.at = "probe" /\ a.unread = desk.unread \ {k} /\ a.seen = desk.seen /\ a.op = "submit"
  BY <1>2, SubmitWith
<1>5. /\ c \in Submitting /\ c.waits = k /\ c.unread = desk.unread /\ c.seen = desk.seen
  BY <1>2, SubmitWith
<1>6. desk' \in {Free, b, a, e}
  BY DEF ProbeReads
<1>7. seen \in SUBSET Roots /\ desk.seen \subseteq seen
  BY <1>2, <1>3, SubmitWith
<1> HIDE DEF a, c, seen
<1>8. /\ b \in Submitting /\ b.at = "probe" /\ b.unread = desk.unread \ {k}
      /\ b.seen = seen /\ b.op = "submit"
  BY <1>4, <1>7, SubmitWith
<1>9. /\ e \in Submitting /\ e.at = "lock" /\ e.waits = k /\ e.unread = desk.unread
      /\ e.seen = desk.seen /\ e.op = "submit"
  BY <1>5, SubmitWith
<1> HIDE DEF b, e
<1>10. CASE desk' \in {a, b, e}
  <2>1. desk' \in Submitting /\ ~Submits("answer")'
    BY <1>4, <1>8, <1>9, <1>10 DEF Submits
  <2>2. DeskFounded'
    BY <1>1, <1>2, <1>4, <1>8, <1>9, <1>10 DEF DeskFounded, Submits, Resumes, Hydrates
  <2>3. ReservedSeen' /\ RoomLeft'
    BY <1>1, <1>2, <1>4, <1>7, <1>8, <1>9, <1>10 DEF ReservedSeen, RoomLeft, PastProbe, Hydrates
  <2> QED
    BY <1>1, <2>1, <2>2, <2>3, SubmitMoves
<1>11. CASE desk' = Free
  BY <1>1, <1>11, QuietStep DEF historyVars, ControlInv, DeskInv, DeskTypeOK
<1> QED
  BY <1>6, <1>10, <1>11

LEMMA ProbeEndsStep ==
    ASSUME ControlInv, ProbeEnds
    PROVE  ControlInv'
<1>1. /\ RootsInv' /\ Known' = Known /\ StayPaused /\ UNCHANGED <<intents, fate>>
      /\ UNCHANGED <<autonomy, spent, stops, halting, historyVars>> /\ Reserved' = Reserved /\ IntentsSettle
  BY OnlyDeskFacts DEF ProbeEnds
<1>2. /\ desk \in Submitting /\ desk.at = "probe" /\ Reserved \subseteq desk.seen /\ desk.unread = {}
  BY ProbeFacts DEF ProbeEnds, Submits
<1> DEFINE c == With(desk, "waits", desk.key)
           e == With(c, "at", "lock")
<1>3. /\ c \in Submitting /\ c.key = desk.key /\ c.waits = desk.key /\ c.unread = {} /\ c.seen = desk.seen
  BY <1>2, SubmitWith
<1> HIDE DEF c
<1>4. /\ e \in Submitting /\ e.at = "lock" /\ e.key = desk.key /\ e.waits = desk.key /\ e.unread = {}
      /\ e.seen = desk.seen /\ e.op = "submit"
  BY <1>3, SubmitWith
<1>5. desk' = Free \/ (desk' = e /\ ~(Cardinality(desk.seen) >= MaxActive))
  BY DEF ProbeEnds, e, c
<1> HIDE DEF e
<1>6. CASE desk' = e /\ ~(Cardinality(desk.seen) >= MaxActive)
  <2>1. desk' \in Submitting /\ ~Submits("answer")' /\ DeskFounded' /\ ReservedSeen'
    BY <1>1, <1>2, <1>4, <1>6 DEF Submits, Resumes, DeskFounded, Hydrates, ReservedSeen
  <2>2. Cardinality(desk.seen) \in Nat
    BY <1>2, SubmitWith, RootsFinite, FS_Subset, FS_CardinalityType
  <2>3. RoomLeft'
    BY <1>4, <1>6, <2>2, ControlAssumption DEF RoomLeft
  <2> QED
    BY <1>1, <2>1, <2>3, SubmitMoves
<1>7. CASE desk' = Free
  BY <1>1, <1>7, QuietStep DEF historyVars, ControlInv, DeskInv, DeskTypeOK
<1> QED
  BY <1>5, <1>6, <1>7

\* Past its lock a submit, or a resume, waits for ensure_thread.
LEMMA DeskLocksStep ==
    ASSUME ControlInv, DeskLocks
    PROVE  ControlInv'
<1>0. desk.op # "free" /\ desk.at = "lock" /\ desk.waits \in Keys
  BY DEF DeskLocks, ControlInv, DeskInv, DeskTypeOK, Submitting, Resuming, Free
<1>1. RootsInv' /\ Known \subseteq Known' /\ StayPaused /\ UNCHANGED <<intents, fate>>
  BY <1>0, BeginKeepsRoots, BeginFailTasks DEF DeskLocks, ControlInv
<1>2. /\ UNCHANGED <<autonomy, spent, stops, halting, historyVars>> /\ desk' = With(desk, "at", "ensure")
      /\ Reserved' = Reserved
  BY <1>1 DEF DeskLocks, Steps, Reserved
<1>3. CASE desk \in Submitting
  <2>1. /\ desk' \in Submitting /\ desk'.at = "ensure" /\ desk'.key = desk.key /\ desk'.waits = desk.waits
        /\ desk'.auto = desk.auto /\ desk'.unread = desk.unread /\ desk'.seen = desk.seen
        /\ desk'.op = "submit" /\ desk.op = "submit"
    BY <1>2, <1>3, SubmitWith
  <2>2. ~Submits("answer")' /\ DeskFounded'
    BY <1>0, <1>1, <2>1 DEF Submits, Resumes, DeskFounded, Hydrates, ControlInv, DeskInv
  <2>3. ReservedSeen' /\ RoomLeft'
    BY <1>0, <1>2, <2>1 DEF ControlInv, CapacityInv, ReservedSeen, RoomLeft, PastProbe, Hydrates
  <2> QED
    BY <1>1, <1>2, <2>1, <2>2, <2>3, SubmitMoves
<1>4. CASE desk \in Resuming
  <2>1. /\ desk' \in Resuming /\ desk'.at = "ensure" /\ desk'.key = desk.key /\ desk'.waits = desk.waits
        /\ desk'.todo = desk.todo /\ desk'.all = desk.all /\ desk'.void = desk.void
        /\ desk'.stale = desk.stale /\ desk'.op = "resume" /\ desk.op = "resume"
    BY <1>2, <1>4, ResumeWith
  <2>2. DeskFounded'
    BY <1>0, <2>1 DEF Submits, Resumes, DeskFounded, Hydrates, ControlInv, DeskInv
  <2> QED
    BY <1>1, <1>2, <1>4, <2>1, <2>2, ResumeMoves
<1> QED
  BY <1>0, <1>3, <1>4 DEF ControlInv, DeskInv, DeskTypeOK, Free

LEMMA DeskEnsuresStep ==
    ASSUME ControlInv, NEW k \in Keys, DeskEnsures(k)
    PROVE  ControlInv'
<1>0. desk.op # "free" /\ desk.at = "ensure" /\ desk.waits = k
  BY DEF DeskEnsures, ForDesk
<1>1. PICK outcome \in {"waits", "done", "absent", "raises"} : Ensures(k, outcome)
  BY DEF DeskEnsures
<1>2. RootsInv' /\ Known \subseteq Known' /\ StayPaused /\ UNCHANGED <<intents, fate>>
  BY <1>1, EnsuresKeepsRoots, EnsureTasks DEF ControlInv
<1>3. UNCHANGED <<autonomy, spent, stops, halting, historyVars>> /\ Reserved' = Reserved
  BY <1>2 DEF DeskEnsures, Reserved
<1>4. IntentsSettle
  BY <1>2, SameSettles
<1>5. CASE desk' = desk \/ desk' = Free
  BY <1>2, <1>3, <1>4, <1>5, QuietStep DEF historyVars, ControlInv, DeskInv, DeskTypeOK
<1>6. CASE Hydrates /\ ~(desk' = desk \/ desk' = Free)
  <2>1. desk \in Submitting /\ desk.op = "submit" /\ desk.unread \subseteq Known /\ desk.unread \in SUBSET Keys
    BY <1>6 DEF Hydrates, ControlInv, DeskInv, DeskTypeOK, DeskFounded, Resuming, Free, Known
  <2>2. Reserved \subseteq desk.seen
    BY <1>0, <2>1 DEF ControlInv, CapacityInv, ReservedSeen
  <2>3. \/ Ensures(k, "done") /\ desk' = With(With(desk, "names", Renamed(k)), "at", "probe")
        \/ desk' = With(With(desk, "unread", desk.unread \ {k}), "at", "probe")
    BY <1>6 DEF DeskEnsures, Quits
  <2>4. /\ desk' \in Submitting /\ desk'.at = "probe" /\ desk'.op = "submit"
        /\ desk'.unread \subseteq desk.unread /\ desk'.seen = desk.seen
    <3>1. CASE Ensures(k, "done") /\ desk' = With(With(desk, "names", Renamed(k)), "at", "probe")
      <4> DEFINE names == Renamed(k)
                 u == With(desk, "names", names)
      <4>1. tasks'[k].root \in Roots
        BY <3>1, EnsureTasks DEF ControlInv
      <4>2. names \in SUBSET (Keys \X Roots)
        BY <2>1, <4>1 DEF Renamed, Submitting
      <4> HIDE DEF names
      <4>3. u \in Submitting /\ u.unread = desk.unread /\ u.seen = desk.seen
        BY <2>1, <4>2, SubmitWith
      <4>4. desk' = With(u, "at", "probe")
        BY <3>1 DEF names
      <4> HIDE DEF u
      <4> QED
        BY <4>3, <4>4, SubmitWith
    <3>2. CASE desk' = With(With(desk, "unread", desk.unread \ {k}), "at", "probe")
      <4> DEFINE u == With(desk, "unread", desk.unread \ {k})
      <4>1. desk.unread \ {k} \in SUBSET Keys
        BY <2>1
      <4>2. u \in Submitting /\ u.unread = desk.unread \ {k} /\ u.seen = desk.seen
        BY <2>1, <4>1, SubmitWith
      <4>3. desk' = With(u, "at", "probe")
        BY <3>2
      <4> HIDE DEF u
      <4> QED
        BY <4>2, <4>3, SubmitWith
    <3> QED
      BY <2>3, <3>1, <3>2
  <2>5. ~Submits("answer")' /\ DeskFounded'
    BY <1>2, <2>1, <2>4 DEF Submits, Resumes, DeskFounded
  <2>6. ReservedSeen' /\ RoomLeft'
    BY <1>3, <2>2, <2>4 DEF ReservedSeen, RoomLeft, PastProbe
  <2> QED
    BY <1>2, <1>3, <2>4, <2>5, <2>6, SubmitMoves
<1>7. CASE ~Hydrates /\ ~(desk' = desk \/ desk' = Free)
  <2>1. /\ Ensures(k, "done")
        /\ desk' = With(desk, "at", IF desk.op = "submit" THEN "read" ELSE "native")
    BY <1>7 DEF DeskEnsures, Steps, Quits
  <2>2. k \in Known /\ desk.key = k
    BY <1>0, <1>7, <2>1, EnsureTasks DEF ControlInv, DeskInv, DeskFounded
  <2>3. CASE desk \in Submitting
    <3>1. /\ desk' \in Submitting /\ desk'.at = "read" /\ desk'.key = desk.key /\ desk'.waits = desk.waits
          /\ desk'.auto = desk.auto /\ desk'.unread = desk.unread /\ desk'.seen = desk.seen
          /\ desk'.op = "submit" /\ desk.op = "submit"
      BY <2>1, <2>3, SubmitWith
    <3>2. ~Submits("answer")' /\ DeskFounded'
      BY <1>2, <2>2, <3>1 DEF Submits, Resumes, DeskFounded, Hydrates, ControlInv, DeskInv
    <3>3. ReservedSeen' /\ RoomLeft'
      BY <1>0, <1>3, <1>7, <3>1 DEF ControlInv, CapacityInv, ReservedSeen, RoomLeft, PastProbe, Hydrates
    <3> QED
      BY <1>2, <1>3, <3>1, <3>2, <3>3, SubmitMoves
  <2>4. CASE desk \in Resuming
    <3>1. /\ desk' \in Resuming /\ desk'.at = "native" /\ desk'.key = desk.key /\ desk'.waits = desk.waits
          /\ desk'.todo = desk.todo /\ desk'.all = desk.all /\ desk'.void = desk.void
          /\ desk'.stale = desk.stale /\ desk'.op = "resume" /\ desk.op = "resume"
      BY <2>1, <2>4, ResumeWith
    <3>2. DeskFounded'
      BY <1>2, <2>2, <3>1 DEF Submits, Resumes, DeskFounded
    <3> QED
      BY <1>2, <1>3, <2>4, <3>1, <3>2, ResumeMoves
  <2> QED
    BY <1>0, <2>3, <2>4 DEF ControlInv, DeskInv, DeskTypeOK, Free
<1> QED
  BY <1>5, <1>6, <1>7

-----------------------------------------------------------------------------
(* An input is sent, and answered or not. *)

LEMMA SendsStep ==
    ASSUME ControlInv, SubmitSends
    PROVE  ControlInv'
<1> DEFINE k == desk.key
           i == desk.input
           r == RootOf(k)
           new == [root |-> r, auto |-> desk.auto, late |-> FALSE, status |-> "sending"]
<1>1. /\ desk \in Submitting /\ desk.at = "read" /\ k \in Known /\ i \in Inputs /\ desk.auto \in BOOLEAN
      /\ Reserved \subseteq desk.seen
  BY DEF SubmitSends, Submits, ControlInv, DeskInv, DeskTypeOK, DeskFounded, Submitting, Resuming, Free,
     CapacityInv, ReservedSeen
<1>2. r \in Roots /\ r = tasks[k].root /\ tasks[k].auto \in BOOLEAN
  BY <1>1, KnownFacts DEF ControlInv, Task
<1>3. new \in Intent
  BY <1>1, <1>2 DEF Intent
<1>4. /\ intents' = [intents EXCEPT ![i] = new] /\ Set(k, "auto", desk.auto \/ tasks[k].auto)
      /\ desk' = With(desk, "at", "answer")
      /\ UNCHANGED <<ensuring, threadVars, other, heard, dropped, autonomy, spent, stops, halting, historyVars>>
  BY DEF SubmitSends, Steps
<1>5. /\ fate' \in [Inputs -> Fates] /\ \A j \in Inputs \ {i} : fate'[j] = fate[j]
      /\ work' \in [Roots -> {"none", "free", "held"}]
  BY <1>1, <1>2 DEF SubmitSends, ControlInv, RootsInv, RootsTypeOK, Fates
<1> HIDE DEF k, i, r, new
<1>6. /\ intents \in [Inputs -> Intent \cup {None}] /\ intents' \in [Inputs -> Intent \cup {None}]
      /\ intents'[i] = new /\ new # None /\ \A j \in Inputs \ {i} : intents'[j] = intents[j]
  BY <1>1, <1>3, <1>4, NoneAssumption DEF ControlInv, RootsInv, RootsTypeOK
<1>7. KeepsRoots /\ StayPaused
  BY <1>1, <1>2, <1>4, SetKeeps DEF ControlInv
<1>8. RootsInv'
  <2>1. new.root = tasks[k].root
    BY <1>2 DEF new
  <2>2. KeepsIntents
    BY <1>1, <1>6, <2>1 DEF KeepsIntents
  <2>3. TurnsTyped
    BY <1>4, <1>5, <1>6 DEF TurnsTyped, ControlInv, RootsInv, RootsTypeOK
  <2> QED
    BY <1>4, <1>7, <2>2, <2>3, TurnsKeepRoots DEF ControlInv
<1>9. /\ desk' \in Submitting /\ desk'.at = "answer" /\ desk'.op = "submit" /\ desk'.unread = desk.unread
      /\ desk'.input = i /\ desk'.auto = desk.auto /\ desk'.seen = desk.seen
  BY <1>1, <1>4, SubmitWith DEF i
<1>10. DeskInv'
  <2>1. Known \subseteq Known'
    BY <1>7 DEF KeepsRoots, Known
  <2>2. DeskFounded'
    BY <1>1, <1>6, <1>9, <2>1, SubmitWith DEF ControlInv, DeskInv, DeskFounded, Submits, Resumes
  <2> QED
    BY <1>4, <1>9, <2>2 DEF ControlInv, DeskInv, DeskTypeOK, historyVars
<1>11. AutoBounded'
  <2>1. ASSUME NEW j \in Counted', j # i
        PROVE  j \in Counted /\ intents'[j] = intents[j] /\ intents[j].status \in Unresolved
    BY <1>6, <1>9, <2>1 DEF Counted, Submits
  <2>2. new.auto = desk.auto /\ new.root = r
    BY DEF new
  <2>3. CASE ~desk.auto
    <3>1. i \notin Counted'
      BY <1>6, <2>2, <2>3 DEF Counted
    <3>2. AutoRoots' \subseteq AutoRoots
      BY <2>1, <3>1 DEF AutoRoots
    <3> QED
      BY <3>2, FewerBounded DEF ControlInv, CapacityInv
  <2>4. CASE desk.auto
    <3>1. \A j \in Counted' : intents'[j].root \in desk.seen \cup {r}
      <4> SUFFICES ASSUME NEW j \in Counted'
                   PROVE  intents'[j].root \in desk.seen \cup {r}
        OBVIOUS
      <4>1. CASE j = i
        BY <1>6, <2>2, <4>1
      <4>2. CASE j # i
        <5>1. j \in Inputs /\ intents[j] # None /\ intents[j].status \in Unresolved /\ intents'[j] = intents[j]
          BY <2>1, <4>2 DEF Counted
        <5> QED
          BY <1>1, <5>1 DEF Reserved
      <4> QED
        BY <4>1, <4>2
    <3>2. AutoRoots' \subseteq desk.seen \cup {r}
      BY <3>1 DEF AutoRoots
    <3>3. IsFiniteSet(desk.seen) /\ Cardinality(desk.seen) \in Nat
      BY <1>1, SubmitWith, RootsFinite, FS_Subset, FS_CardinalityType
    <3>4. Cardinality(desk.seen) < MaxActive
      BY <1>1, <1>9, <2>4, SubmitWith DEF ControlInv, CapacityInv, RoomLeft, PastProbe
    <3>5. IsFiniteSet(desk.seen \cup {r}) /\ Cardinality(desk.seen \cup {r}) <= Cardinality(desk.seen) + 1
      <4>1. CASE r \in desk.seen
        <5>1. desk.seen \cup {r} = desk.seen
          BY <4>1
        <5> QED
          BY <3>3, <5>1
      <4>2. CASE r \notin desk.seen
        BY <3>3, <4>2, FS_AddElement
      <4> QED
        BY <4>1, <4>2
    <3>6. IsFiniteSet(AutoRoots') /\ Cardinality(AutoRoots') <= Cardinality(desk.seen \cup {r})
      BY <3>2, <3>5, FS_Subset
    <3>7. Cardinality(AutoRoots') \in Nat /\ Cardinality(desk.seen \cup {r}) \in Nat /\ MaxActive \in Nat
      BY <3>5, <3>6, FS_CardinalityType, ControlAssumption
    <3> QED
      BY <3>3, <3>4, <3>5, <3>6, <3>7 DEF AutoBounded
  <2> QED
    BY <2>3, <2>4
<1>12. CapacityInv'
  <2>1. EndedIsOver'
    <3>1. new.status # "ended"
      BY DEF new
    <3> QED
      BY <1>5, <1>6, <3>1 DEF EndedIsOver, ControlInv, CapacityInv
  <2>2. ReservedSeen' /\ RoomLeft'
    BY <1>9 DEF ReservedSeen, RoomLeft, PastProbe
  <2> QED
    BY <1>11, <2>1, <2>2 DEF CapacityInv
<1>13. FlagsInv'
  BY <1>4, <1>7, <1>9 DEF ControlInv, FlagsInv, FlagsHold, FencesKnown, StayPaused, KeepsRoots, Known, historyVars
<1> QED
  BY <1>8, <1>10, <1>12, <1>13 DEF ControlInv

\* The answer to an input came, or was given up: its intent is counted as before.
LEMMA AnsweredStep ==
    ASSUME ControlInv, Acknowledged \/ Unanswered
    PROVE  ControlInv'
<1> DEFINE i == desk.input
<1>1. /\ Submits("answer") /\ i \in Inputs /\ intents[i] # None /\ intents[i] \in Intent
      /\ intents \in [Inputs -> Intent \cup {None}]
  <2>1. Submits("answer") /\ desk \in Submitting /\ intents[i] # None
    <3>1. Submits("answer")
      BY DEF Acknowledged, Unanswered
    <3> QED
      BY <3>1 DEF Submits, ControlInv, DeskInv, DeskTypeOK, DeskFounded, Resuming, Free
  <2>2. intents \in [Inputs -> Intent \cup {None}]
    BY DEF ControlInv, RootsInv, RootsTypeOK
  <2>3. i \in Inputs
    BY <2>1, SubmitWith
  <2> HIDE DEF i
  <2> QED
    BY <2>1, <2>2, <2>3
<1>2. /\ UNCHANGED <<tasks, ensuring, threadVars, other, work, heard, dropped, autonomy, spent, stops, halting>>
      /\ UNCHANGED <<told, looked, asked, askedAll, half>> /\ desk' = Free
  BY DEF Acknowledged, Unanswered, Quits, historyVars, turnVars
<1>3. calls' \in Nat
  BY CallCounts DEF Acknowledged, Unanswered, historyVars, ControlInv, DeskInv, DeskTypeOK
<1>4. fate' \in [Inputs -> Fates] /\ \A j \in Inputs : fate[j] = "over" => fate'[j] = "over"
  BY DEF Acknowledged, Unanswered, turnVars, ControlInv, RootsInv, RootsTypeOK, Fates
<1>5. PICK n \in Intent : /\ intents' = [intents EXCEPT ![i] = n]
                          /\ n.root = intents[i].root /\ n.auto = intents[i].auto
                          /\ n.status = "ended" => intents[i].status = "ended"
  <2>1. CASE Acknowledged
    <3> DEFINE status == IF intents[i].status = "ended" THEN "ended"
                         ELSE IF fate[i] = "queued" THEN "queued" ELSE "accepted"
    <3>1. intents' = [intents EXCEPT ![i] = With(intents[i], "status", status)]
      BY <1>1, <2>1 DEF Acknowledged
    <3>2. status \in Unresolved \cup {"ended"} /\ (status = "ended" => intents[i].status = "ended")
      BY DEF Unresolved
    <3> HIDE DEF status, i
    <3> DEFINE m == With(intents[i], "status", status)
    <3>3. m \in Intent /\ m.status = status /\ m.root = intents[i].root /\ m.auto = intents[i].auto
      BY <1>1, <3>2, IntentWith
    <3> HIDE DEF m
    <3> QED
      BY <3>1, <3>2, <3>3 DEF m
  <2>2. CASE Unanswered
    <3>1. PICK status \in {"unknown", intents[i].status} :
            /\ status \in {"unknown", "ended"}
            /\ intents' = [intents EXCEPT ![i] = With(With(intents[i], "status", status), "late", TRUE)]
      BY <1>1, <2>2 DEF Unanswered
    <3>2. status \in Unresolved \cup {"ended"} /\ (status = "ended" => intents[i].status = "ended")
      BY <3>1 DEF Unresolved
    <3> HIDE DEF i
    <3> QED
      BY <1>1, <3>1, <3>2, IntentWith
  <2> QED
    BY <2>1, <2>2
<1> HIDE DEF i
<1>6. /\ intents' \in [Inputs -> Intent \cup {None}] /\ intents'[i] = n /\ n # None
      /\ \A j \in Inputs \ {i} : intents'[j] = intents[j]
  BY <1>1, <1>5, NoneAssumption
<1>7. RootsInv'
  <2>1. KeepsIntents
    BY <1>1, <1>5, <1>6 DEF KeepsIntents
  <2>2. \A j \in Inputs : fate'[j] # "none" => fate[j] # "none" \/ intents'[j] # None
    BY DEF Acknowledged, Unanswered, turnVars, ControlInv, RootsInv, RootsTypeOK
  <2>3. TurnsTyped
    BY <1>2, <1>4, <2>2 DEF TurnsTyped, ControlInv, RootsInv, RootsTypeOK
  <2> QED
    BY <1>2, <2>1, <2>3, TasksKeep, TurnsKeepRoots DEF ControlInv
<1>8. DeskInv'
  BY <1>2, <1>3 DEF ControlInv, DeskInv, DeskTypeOK, DeskFounded, Free, Submits, Resumes
<1>9. CapacityInv'
  <2>1. EndedIsOver'
    BY <1>1, <1>4, <1>5, <1>6 DEF EndedIsOver, ControlInv, CapacityInv
  <2>2. ASSUME NEW j \in Counted'
        PROVE  j \in Counted /\ intents'[j].root = intents[j].root
    <3>1. CASE j = i
      BY <1>1, <1>5, <1>6, <2>2, <3>1 DEF Counted, i
    <3>2. CASE j # i
      BY <1>2, <1>6, <2>2, <3>2 DEF Counted, Submits, Free
    <3> QED
      BY <3>1, <3>2
  <2>3. AutoRoots' \subseteq AutoRoots
    BY <2>2 DEF AutoRoots
  <2>4. AutoBounded'
    BY <2>3, FewerBounded DEF ControlInv, CapacityInv
  <2> QED
    BY <1>2, <2>1, <2>4 DEF CapacityInv, ReservedSeen, RoomLeft, PastProbe, Free
<1>10. FlagsInv'
  BY <1>2 DEF ControlInv, FlagsInv, FlagsHold, FencesKnown, Free, Known
<1> QED
  BY <1>7, <1>8, <1>9, <1>10 DEF ControlInv

-----------------------------------------------------------------------------
(* A resume begins and ends. *)

LEMMA ResumeBeginsStep ==
    ASSUME ControlInv, NEW k \in Keys, NEW todo \in SUBSET Keys, NEW all \in BOOLEAN, ResumeBegins(k, todo, all)
    PROVE  ControlInv'
<1>1. /\ desk' \in Resuming /\ desk'.op = "resume" /\ desk'.at = "lock" /\ desk'.key = k /\ desk'.waits = k
      /\ desk'.todo = todo /\ desk'.all = all
  BY DEF ResumeBegins, Resuming
<1>2. /\ asked' = [j \in Keys |-> IF j \in {k} \cup todo THEN "resume" ELSE asked[j]]
      /\ askedAll' = (IF all THEN "resume" ELSE askedAll)
      /\ UNCHANGED <<autonomy, spent, stops, halting, told, looked, half>> /\ UNCHANGED rootVars
  BY DEF ResumeBegins, Notes
<1>3. RootsInv' /\ UNCHANGED <<tasks, intents, fate>>
  BY <1>2, IdleKeepsRoots DEF ControlInv, rootVars, runtimeVars, turnVars
<1>4. Known' = Known
  BY <1>3 DEF Known
<1>5. calls' \in Nat
  BY CallCounts DEF ResumeBegins, ControlInv
<1>6. DeskInv'
  <2>1. asked' \in [Keys -> Ask] /\ askedAll' \in Ask
    BY <1>2 DEF Ask, ControlInv, DeskInv, DeskTypeOK
  <2>2. DeskFounded'
    BY <1>1 DEF DeskFounded, Submits, Resumes
  <2> QED
    BY <1>1, <1>2, <1>5, <2>1, <2>2 DEF ControlInv, DeskInv, DeskTypeOK
<1>7. CapacityInv'
  <2>1. IntentsSettle
    BY <1>3, SameSettles
  <2> QED
    BY <1>1, <2>1, SettleFewer, SettleEnded, FewerBounded
       DEF ControlInv, CapacityInv, Submits, ReservedSeen, RoomLeft, PastProbe
<1>8. FlagsInv'
  <2>1. FlagsHold'
    BY <1>2, <1>3, <1>4 DEF ControlInv, FlagsInv, FlagsHold
  <2>2. FencesKnown'
    BY <1>1, <1>2 DEF FencesKnown
  <2> QED
    BY <2>1, <2>2 DEF FlagsInv
<1> QED
  BY <1>3, <1>6, <1>7, <1>8 DEF ControlInv

LEMMA AutonomyStep ==
    ASSUME ControlInv, ResumeAutonomy
    PROVE  ControlInv'
<1>1. /\ autonomy' = FALSE /\ askedAll' = "resume" /\ desk.op = "free"
      /\ UNCHANGED rootVars /\ UNCHANGED <<spent, desk, stops, halting, told, looked, asked, half>>
  BY DEF ResumeAutonomy, IsFree
<1>2. RootsInv' /\ UNCHANGED <<tasks, intents, fate>>
  BY <1>1, IdleKeepsRoots DEF ControlInv, rootVars, runtimeVars, turnVars
<1>3. calls' \in Nat
  BY CallCounts DEF ResumeAutonomy, ControlInv
<1>4. DeskInv'
  BY <1>1, <1>3 DEF ControlInv, DeskInv, DeskTypeOK, Ask, DeskFounded, Submits, Resumes
<1>5. CapacityInv'
  <2>1. DeskStands /\ IntentsSettle
    BY <1>1, <1>2, SameSettles DEF DeskStands, DeskTypes, ControlInv, DeskInv, DeskTypeOK
  <2> QED
    BY <2>1, CapacityFrame DEF ControlInv
<1>6. FlagsInv'
  BY <1>1, <1>2 DEF ControlInv, FlagsInv, FlagsHold, FencesKnown, Known
<1> QED
  BY <1>2, <1>4, <1>5, <1>6 DEF ControlInv

\* The task that runs again was not paused since, nor was autonomy.
LEMMA ResumeEndsStep ==
    ASSUME ControlInv, ResumeEnds
    PROVE  ControlInv'
<1> DEFINE k == desk.key
           keys == ToMark(spent)
           flagged == Flagged(keys, TRUE)
<1>1. desk \in Resuming /\ desk.at = "last" /\ k \in Known /\ desk.op = "resume"
  BY DEF ResumeEnds, Resumes, ControlInv, DeskInv, DeskTypeOK, DeskFounded, Submitting, Free
<1>2. /\ ~desk.void /\ k \notin desk.stale
      /\ k \notin keys /\ keys \in SUBSET Known /\ keys \in SUBSET Keys
  BY <1>1, MarkedKnown DEF ResumeEnds, Rejects, Superseded, ToMark, Marked, Known
<1>3. /\ tasks' = [flagged EXCEPT ![k] = With(flagged[k], "paused", FALSE)]
      /\ Notes(keys, "pause") /\ half' = half \ {k}
      /\ UNCHANGED <<intents, ensuring, threadVars, turnVars, dropped,
                     spent, stops, halting, calls, told, looked, askedAll>>
  BY <1>1, <1>2, FlaggedKeeps DEF ResumeEnds, ControlInv, Known
<1>4. \/ desk.todo = {} /\ desk' = Free /\ autonomy' = (autonomy /\ ~desk.all)
      \/ /\ UNCHANGED autonomy
         /\ \E j \in desk.todo :
              desk' = [op |-> "resume", at |-> "lock", key |-> j, waits |-> j,
                       todo |-> desk.todo \ {j}, all |-> desk.all, void |-> desk.void,
                       stale |-> desk.stale \cup keys]
  BY DEF ResumeEnds, Quits
<1>5. /\ flagged \in [Keys -> Task \cup {None}] /\ flagged[k] = tasks[k]
      /\ \A j \in keys : /\ flagged[j].paused /\ flagged[j] \in Task
                         /\ flagged[j].root = tasks[j].root /\ flagged[j].boot = tasks[j].boot
      /\ \A j \in Keys \ keys : flagged[j] = tasks[j]
  <2>1. RootsInv /\ k \in Keys
    BY <1>1, KnownFacts DEF ControlInv
  <2> HIDE DEF keys, k
  <2> QED
    BY <1>2, <2>1, FlaggedKeeps
<1> HIDE DEF keys, flagged, k
<1>6. /\ With(tasks[k], "paused", FALSE) \in Task
      /\ With(tasks[k], "paused", FALSE).root = tasks[k].root
      /\ With(tasks[k], "paused", FALSE).boot = tasks[k].boot
  BY <1>1, KnownFacts, TaskWith DEF ControlInv
<1>7. /\ tasks' \in [Keys -> Task \cup {None}] /\ k \in Keys
      /\ tasks'[k] \in Task /\ tasks'[k].root = tasks[k].root /\ tasks'[k].boot = tasks[k].boot
      /\ \A j \in Keys \ {k} : tasks'[j] = flagged[j]
  BY <1>1, <1>3, <1>5, <1>6 DEF Known
<1>8. KeepsRoots
  BY <1>1, <1>2, <1>5, <1>7, NoneAssumption DEF KeepsRoots, Known
<1>9. RootsInv' /\ IntentsSettle /\ Known' = Known
  BY <1>3, <1>8, IntentsKeep, TurnsKeep, TurnsKeepRoots, SameSettles DEF ControlInv, turnVars, KeepsRoots, Known
<1>10. desk' = Free \/ (desk' \in Resuming /\ desk'.op = "resume" /\ desk'.at = "lock" /\ desk'.key = desk'.waits
                        /\ {desk'.key} \cup desk'.todo \subseteq desk.todo
                        /\ desk'.all = desk.all /\ desk'.void = desk.void
                        /\ desk'.stale = desk.stale \cup keys)
  BY <1>1, <1>2, <1>4 DEF Resuming
<1>11. asked' \in [Keys -> Ask] /\ \A j \in Keys : asked'[j] = "pause" => j \in keys \/ asked[j] = "pause"
  BY <1>3 DEF Notes, Ask, ControlInv, DeskInv, DeskTypeOK
<1>12. DeskInv'
  <2>1. autonomy' \in BOOLEAN /\ half' \subseteq Keys
    BY <1>3, <1>4 DEF ControlInv, DeskInv, DeskTypeOK
  <2>2. DeskFounded'
    BY <1>10 DEF DeskFounded, Submits, Resumes, Free
  <2> QED
    BY <1>3, <1>10, <1>11, <2>1, <2>2 DEF ControlInv, DeskInv, DeskTypeOK, Ask
<1>13. CapacityInv'
  <2>1. desk'.op # "submit"
    BY <1>10 DEF Free
  <2> QED
    BY <1>9, <2>1, SettleFewer, SettleEnded, FewerBounded
       DEF ControlInv, CapacityInv, Submits, ReservedSeen, RoomLeft, PastProbe
<1>14. FlagsInv'
  <2>1. /\ \A j \in {k} \cup desk.todo : asked[j] = "pause" => desk.void \/ j \in desk.stale
        /\ desk.all /\ askedAll = "pause" => desk.void
    BY <1>1 DEF ControlInv, FlagsInv, FencesKnown, k
  <2>2. asked'[k] # "pause"
    BY <1>1, <1>2, <1>11, <2>1 DEF Known
  <2>3. \A j \in Keys : asked'[j] = "pause" => j \in Known' /\ tasks'[j].paused
    BY <1>2, <1>5, <1>7, <1>9, <1>11, <2>2 DEF ControlInv, FlagsInv, FlagsHold
  <2>4. askedAll' = "pause" => autonomy'
    BY <1>2, <1>3, <1>4, <2>1 DEF ControlInv, FlagsInv, FlagsHold
  <2>5. FencesKnown'
    <3> SUFFICES ASSUME desk' \in Resuming
                 PROVE  /\ \A j \in {desk'.key} \cup desk'.todo :
                               asked'[j] = "pause" => desk'.void \/ j \in desk'.stale
                        /\ desk'.all /\ askedAll' = "pause" => desk'.void
      BY <1>10 DEF FencesKnown, Free
    <3>1. desk'.op = "resume"
      BY ResumeWith
    <3>2. desk.todo \subseteq Keys
      BY <1>1, ResumeWith
    <3> QED
      BY <1>3, <1>10, <1>11, <2>1, <3>1, <3>2 DEF Free
  <2> QED
    BY <2>3, <2>4, <2>5 DEF FlagsInv, FlagsHold
<1> QED
  BY <1>9, <1>12, <1>13, <1>14 DEF ControlInv

-----------------------------------------------------------------------------
(* A restart, and the whole. *)

LEMMA RestartStep ==
    ASSUME ControlInv, Restart
    PROVE  ControlInv'
<1>1. /\ RootsRestart /\ Call /\ autonomy' = TRUE /\ desk' = Free /\ stops' = [k \in Keys |-> "no"] /\ halting' = FALSE
      /\ looked' = FALSE /\ half' = {} /\ UNCHANGED <<asked, askedAll>>
  BY DEF Restart
<1>2. RootsInv'
  BY <1>1, RestartKeepsRoots DEF ControlInv
<1>3. Known \subseteq Known' /\ StayPaused
  <2>1. CASE UNCHANGED tasks
    BY <2>1 DEF Known, StayPaused
  <2>2. ASSUME NEW k \in Keys, Aliases(k, "pending")
        PROVE  Known \subseteq Known' /\ StayPaused
    BY <2>2, AliasFacts DEF ControlInv, StayPaused, Known
  <2> QED
    BY <1>1, <2>1, <2>2 DEF RootsRestart
<1>4. DeskStands /\ IntentsSettle
  BY <1>1, SameSettles DEF RootsRestart, DeskStands, DeskTypes, Free
<1>5. DeskInv'
  <2>1. calls' \in Nat /\ spent' \in BOOLEAN /\ told' \in {"ok", "spent"}
    BY <1>1, CallCounts DEF Restart, ControlInv, DeskInv, DeskTypeOK
  <2> QED
    BY <1>1, <2>1 DEF ControlInv, DeskInv, DeskTypeOK, DeskFounded, Submits, Resumes, Free, Stops
<1>6. CapacityInv'
  BY <1>4, CapacityFrame DEF ControlInv
<1>7. FlagsInv'
  BY <1>1, <1>3 DEF ControlInv, FlagsInv, FlagsHold, FencesKnown, StayPaused, Free
<1> QED
  BY <1>2, <1>5, <1>6, <1>7 DEF ControlInv

LEMMA InitControl == Init => ControlInv
<1> SUFFICES ASSUME Init
             PROVE  ControlInv
  OBVIOUS
<1>1. Known = {} /\ \A k \in Keys : ~At(k, "start") /\ ~At(k, "init")
  BY DEF Init, RootsInit, Known, At
<1>2. RootsInv
  BY <1>1, RootsAssumption DEF Init, RootsInit, RootsInv, RootsTypeOK, RootsOwned, EntriesOnce, ReplacedUnused,
     Founded, Points
<1>3. DeskInv
  BY <1>1 DEF Init, DeskInv, DeskTypeOK, DeskFounded, Free, Submits, Resumes, Ask, Stops
<1>4. CapacityInv
  <2>1. Counted = {}
    BY DEF Init, RootsInit, Counted
  <2>2. AutoRoots = {}
    BY <2>1 DEF AutoRoots
  <2>3. AutoBounded
    BY <2>2, FS_EmptySet, ControlAssumption DEF AutoBounded
  <2> QED
    BY <2>3 DEF Init, RootsInit, Free, CapacityInv, EndedIsOver, ReservedSeen, RoomLeft, PastProbe
<1>5. FlagsInv
  BY DEF Init, FlagsInv, FlagsHold, FencesKnown, Free
<1> QED
  BY <1>2, <1>3, <1>4, <1>5 DEF ControlInv

LEMMA NextControl ==
    ASSUME ControlInv, [Next]_vars
    PROVE  ControlInv'
<1>1. CASE UNCHANGED vars
  <2>1. OnlyDesk /\ UNCHANGED desk
    BY <1>1 DEF vars, OnlyDesk, deskVars
  <2> QED
    BY <2>1, OnlyDeskFacts, QuietStep DEF historyVars, ControlInv, DeskInv, DeskTypeOK
<1>2. CASE (Native \/ Hears) /\ UNCHANGED <<deskVars, historyVars>>
  BY <1>2, NativeStep
<1>3. ASSUME NEW k \in Keys,
             Pause(k) \/ StopDone(k) \/ Interrupted(k) \/ Sweep(k)
      PROVE  ControlInv'
  BY <1>3, PauseStep, StopStep, InterruptedStep, SweepStep
<1>4. ASSUME NEW k \in Keys,
             Thread(k) \/ ThreadEnsured(k) \/ DeskEnsures(k) \/ EnsureGivesUp(k) \/ ProbeReads(k)
      PROVE  ControlInv'
  BY <1>4, ThreadStep, DeskEnsuresStep, ProbeReadsStep
<1>5. ASSUME NEW k \in Keys, ResumeOne(k) \/ ResumeAll(k)
      PROVE  ControlInv'
  <2>1. PausedKeys \ {k} \in SUBSET Keys /\ {} \in SUBSET Keys
    BY DEF PausedKeys, Known
  <2> QED
    BY <1>5, <2>1, ResumeBeginsStep DEF ResumeOne, ResumeAll
<1>6. ASSUME NEW k \in Keys, NEW i \in Inputs, NEW auto \in BOOLEAN, SubmitBegins(k, i, auto)
      PROVE  ControlInv'
  BY <1>6, SubmitBeginsStep
<1>7. ASSUME NEW r \in 1..born, StrangerStarts(r) \/ GoalSet(r), Call,
             UNCHANGED <<deskVars, told, looked, asked, askedAll, half>>
      PROVE  ControlInv'
  BY <1>7, OutsideStep
<1>8. CASE PauseAll \/ \E answer \in Answers : Report(answer)
  BY <1>8, PauseAllStep, ReportStep
<1>9. CASE DeskLocks \/ ProbeEnds \/ SubmitFails \/ SubmitDeferred \/ SubmitSends \/ Acknowledged \/ Unanswered
  BY <1>9, DeskLocksStep, ProbeEndsStep, QuitStep, SendsStep, AnsweredStep
<1>10. CASE ResumeAutonomy \/ ResumeReleases \/ ResumeRejected \/ ResumeFails \/ ResumeEnds \/ Restart
  BY <1>10, AutonomyStep, ReleasesStep, RejectedStep, QuitStep, ResumeEndsStep, RestartStep
<1> QED
  BY <1>1, <1>2, <1>3, <1>4, <1>5, <1>6, <1>7, <1>8, <1>9, <1>10 DEF Next

LEMMA ControlKept == Spec => []ControlInv
<1>1. Init => ControlInv
  BY InitControl
<1>2. ControlInv /\ [Next]_vars => ControlInv'
  BY NextControl
<1> QED
  BY <1>1, <1>2, PTL DEF Spec

\* The control plane never leaves the states its code reckons with, whoever calls in which order.
THEOREM ControlTypes == Spec => []TypeOK
<1>1. ControlInv => TypeOK
  BY DEF ControlInv, RootsInv, DeskInv, DeskTypeOK, TypeOK, Stops
<1> QED
  BY <1>1, ControlKept, PTL

(***************************************************************************)
(* No root gets a second initialization entry, and none that may have had  *)
(* input, an entry or a history is replaced, for any number of tasks, of   *)
(* roots and of failures (_bootstrap_thread, ensure_thread).               *)
(***************************************************************************)
THEOREM RootsAreKept == Spec => []RootsKept
<1>1. ControlInv => RootsKept
  BY DEF ControlInv, RootsInv, RootsTypeOK, EntriesOnce, ReplacedUnused, RootsKept
<1> QED
  BY <1>1, ControlKept, PTL

(***************************************************************************)
(* However the statuses change while they are read and whatever answers    *)
(* are lost, no more than max_active_tasks tasks do automatic input at a   *)
(* time (is_busy, submit).                                                 *)
(***************************************************************************)
THEOREM CapacityIsKept == Spec => []WithinCapacity
<1>1. ASSUME ControlInv
      PROVE  WithinCapacity
  <2> DEFINE busy == {r \in Roots : \E i \in Running(r) : intents[i].auto}
  <2>1. busy \subseteq AutoRoots
    <3> SUFFICES ASSUME NEW r \in Roots, NEW i \in Running(r), intents[i].auto
                 PROVE  r \in AutoRoots
      OBVIOUS
    <3>1. i \in Inputs /\ intents[i] # None /\ intents[i].root = r /\ fate[i] = "running"
      BY DEF Running, On
    <3>2. intents[i].status \in Unresolved \cup {"ended"} /\ intents[i].status # "ended"
      BY <1>1, <3>1 DEF ControlInv, CapacityInv, EndedIsOver, RootsInv, RootsTypeOK, Intent, Unresolved
    <3> QED
      BY <3>1, <3>2 DEF AutoRoots, Counted
  <2>2. Cardinality(busy) <= Cardinality(AutoRoots) /\ IsFiniteSet(busy)
    BY <1>1, <2>1, AutoRootsFinite, FS_Subset DEF ControlInv
  <2>3. Cardinality(busy) \in Nat /\ Cardinality(AutoRoots) \in Nat /\ MaxActive \in Nat
    BY <1>1, <2>2, FS_CardinalityType, AutoRootsFinite, ControlAssumption DEF ControlInv
  <2> QED
    BY <1>1, <2>2, <2>3 DEF ControlInv, CapacityInv, AutoBounded, WithinCapacity
<1> QED
  BY <1>1, ControlKept, PTL

(***************************************************************************)
(* A pause that was the last to take hold of a task, or of everything, is  *)
(* not undone: not by a resume that was under way, nor by a root that is   *)
(* replaced, nor by a restart (pause, resume, ensure_thread).              *)
(***************************************************************************)
THEOREM FlagsAreHeld == Spec => []FlagsHold
<1>1. ControlInv => FlagsHold
  BY DEF ControlInv, FlagsInv
<1> QED
  BY <1>1, ControlKept, PTL

-----------------------------------------------------------------------------
(* What a step leaves alone, so that what goes on in paused tasks stays as it is. *)

\* Pauses only come, each with its stop, and a new task has none.
PausesGrow ==
    /\ Known \subseteq Known'
    /\ \A k \in Known :
           /\ tasks[k].paused => tasks'[k].paused
           /\ tasks[k].owed => tasks'[k].owed
           /\ StopComing(k) => StopComing(k)'
           /\ tasks'[k].paused => tasks[k].paused \/ StopComing(k)'
           /\ stops'[k] = "owed" => stops[k] = "owed" \/ tasks'[k].paused
    /\ \A k \in Known' \ Known : ~tasks'[k].paused
    /\ \A k \in Keys : stops'[k] # "no" => k \in Known \/ stops[k] # "no"

\* No task becomes automatic.
AutoKept ==
    /\ \A k \in Known : tasks'[k].auto => tasks[k].auto
    /\ \A k \in Known' \ Known : ~tasks'[k].auto

\* A task keeps its root, or gets a new one for one that was never used.
RootsFresh ==
    /\ born' \in Nat /\ born <= born' /\ Known \subseteq Known'
    /\ \A k \in Known' :
           \/ k \in Known /\ tasks'[k].root = tasks[k].root
           \/ tasks'[k].root = born + 1 /\ (k \in Known => On(tasks[k].root) = {})

\* Intents keep what is said of them, but for their status, and their answers may be given up.
IntentsStand ==
    /\ \A i \in Inputs : intents'[i] = None <=> intents[i] = None
    /\ \A i \in Inputs : intents[i] # None =>
           /\ intents'[i].root = intents[i].root /\ intents'[i].auto = intents[i].auto
           /\ intents[i].late => intents'[i].late

\* Nothing is sent, and nothing goes on in a root that comes later.
TurnsCalm ==
    /\ \A i \in Inputs : fate'[i] = "wire" => fate[i] = "wire"
    /\ \A r \in Roots : r > born => other'[r] = "none" /\ work'[r] = "none"

\* Nothing begins in a root that is idle, unless its task is being resumed.
IdleStays ==
    \A k \in Known \ half' : ~Releasing(k)' =>
        \A r \in Roots : r = RootOf(k) /\ Idle(r) => Idle(r)'

\* A task whose native work was released stays so, or a stop is coming.
LetGo ==
    \A k \in Known : Releasing(k) => Releasing(k)' \/ k \in half' \/ StopComing(k)'

\* A submit stays before its sending or after it.
SubmitCalm ==
    /\ desk'.op = "submit" =>
           /\ desk.op = "submit" /\ desk'.input = desk.input /\ desk'.key = desk.key
           /\ desk'.at = "answer" <=> desk.at = "answer"
    /\ Submits("answer") => Submits("answer")'

\* A resume that goes on releases nothing and knows of every pause, and a new one waits for none.
ResumeCalm ==
    desk'.op = "resume" =>
        \/ /\ desk.op = "resume" /\ desk'.key = desk.key
           /\ Superseded => Superseded'
           /\ InLine(desk.key)' => InLine(desk.key) \/ Superseded'
           /\ desk'.at = "last" => desk.at = "last" /\ (Superseded' => Superseded \/ StopComing(desk.key)')
        \/ desk'.at # "last" /\ ~InLine(desk.key)'

LEMMA StandOn ==
    ASSUME IntentsStand
    PROVE  /\ \A r : On(r)' = On(r) /\ (OnTime(r)' => OnTime(r))
           /\ \A r : \A i \in On(r) : intents'[i].auto = intents[i].auto
BY DEF IntentsStand, On, OnTime

\* In the root that comes next nothing goes on yet.
LEMMA NextRootIdle ==
    ASSUME RootsInv
    PROVE  On(born + 1) = {}
<1>1. born \in Nat /\ \A i \in Inputs : intents[i] # None => intents[i].root \in 1..born
  BY KnownFacts DEF RootsInv, Founded
<1>2. born + 1 \notin 1..born
  BY <1>1
<1> QED
  BY <1>1, <1>2 DEF On

LEMMA SentFrame ==
    ASSUME ControlInv, RootsInv', SentOnce, IntentsStand, RootsFresh, TurnsCalm, SubmitCalm
    PROVE  SentOnce'
<1>1. born \in Nat /\ desk \in DeskTypes
  BY KnownFacts DEF ControlInv, DeskInv, DeskTypeOK, DeskTypes
<1>2. desk.op = "submit" => desk.input \in Inputs /\ desk.key \in Keys
  BY <1>1 DEF DeskTypes, Submitting, Resuming, Free
<1>3. desk'.op = "submit" /\ desk'.at # "answer" => intents'[desk'.input] = None
  BY <1>2 DEF SubmitCalm, SentOnce, IntentsStand, Submits
<1>4. ASSUME Submits("answer")'
      PROVE  desk'.key \in Known' /\ intents'[desk'.input].root = tasks'[desk'.key].root
  <2>1. Submits("answer") /\ desk'.key = desk.key /\ desk'.input = desk.input
    BY <1>4 DEF SubmitCalm, Submits
  <2>2. /\ desk.key \in Known /\ intents[desk.input].root = tasks[desk.key].root /\ intents[desk.input] # None
        /\ desk.input \in Inputs
    BY <1>2, <2>1 DEF SentOnce, ControlInv, DeskInv, DeskFounded, Submits
  <2>3. desk.input \in On(tasks[desk.key].root)
    BY <2>2 DEF On
  <2>4. desk.key \in Known'
    BY <2>2 DEF RootsFresh
  <2> QED
    BY <2>1, <2>2, <2>3, <2>4 DEF RootsFresh, IntentsStand
<1>5. \A i \in Inputs : fate'[i] = "wire" => intents'[i].late \/ (Submits("answer")' /\ desk'.input = i)
  BY DEF SentOnce, TurnsCalm, IntentsStand, SubmitCalm, Submits, ControlInv, RootsInv, Founded
<1>6. \A r \in Roots : r > born' => other'[r] = "none" /\ work'[r] = "none"
  BY <1>1 DEF RootsFresh, TurnsCalm, Roots
<1> QED
  BY <1>3, <1>4, <1>5, <1>6 DEF SentOnce

LEMMA FreshIdle ==
    ASSUME RootsInv, RootsInv', IntentsStand, TurnsCalm, NEW k \in Known', tasks'[k].root = born + 1
    PROVE  Idle(RootOf(k))'
<1>1. PICK r \in Roots : r = born + 1
  BY KnownFacts DEF Known, RootsInv, RootsTypeOK, Task
<1>2. RootOf(k)' = r /\ r > born
  BY <1>1, KnownFacts DEF RootOf, Known
<1>3. On(r)' = {}
  BY <1>1, NextRootIdle, StandOn
<1>4. other'[r] = "none" /\ work'[r] = "none"
  BY <1>2 DEF TurnsCalm
<1>5. Idle(r)'
  BY <1>3, <1>4 DEF Idle
<1> QED
  BY <1>2, <1>5

LEMMA PausedFrame ==
    ASSUME ControlInv, RootsInv', PausedIdle, PausesGrow, RootsFresh, IntentsStand, TurnsCalm, IdleStays, LetGo,
           half \subseteq half'
    PROVE  PausedIdle'
<1> SUFFICES ASSUME NEW k \in Known', k \notin half', tasks'[k].paused, ~Releasing(k)', OnTime(RootOf(k))'
             PROVE  StopComing(k)' \/ Idle(RootOf(k))'
  BY DEF PausedIdle, PausedCalm
<1>1. CASE tasks'[k].root = born + 1
  BY <1>1, FreshIdle DEF ControlInv
<1>2. CASE k \in Known /\ tasks'[k].root = tasks[k].root
  <2>1. PICK r \in Roots : r = RootOf(k)
    BY <1>2, KnownFacts DEF ControlInv
  <2>2. RootOf(k)' = r
    BY <1>2, <2>1 DEF RootOf, Known
  <2>3. OnTime(r)'
    BY <2>2
  <2>4. OnTime(RootOf(k))
    BY <2>1, <2>3, StandOn
  <2>5. StopComing(k) => StopComing(k)'
    BY <1>2 DEF PausesGrow
  <2>6. CASE ~tasks[k].paused
    BY <1>2, <2>6 DEF PausesGrow
  <2>7. CASE Releasing(k)
    BY <1>2, <2>7 DEF LetGo
  <2>8. CASE tasks[k].paused /\ ~Releasing(k)
    <3>1. StopComing(k) \/ Idle(r)
      BY <1>2, <2>1, <2>4, <2>8 DEF PausedIdle, PausedCalm
    <3>2. Idle(r) => Idle(r)'
      BY <1>2, <2>1 DEF IdleStays
    <3> QED
      BY <2>2, <2>5, <3>1, <3>2
  <2> QED
    BY <2>6, <2>7, <2>8
<1> QED
  BY <1>1, <1>2 DEF RootsFresh

LEMMA FollowFrame ==
    ASSUME ControlInv, StopsFollow, PausesGrow, ResumeCalm
    PROVE  StopsFollow'
<1>1. ASSUME Resumes("last")', Superseded'
      PROVE  StopComing(desk.key)'
  <2>1. desk.op = "resume" /\ desk.at = "last" /\ desk'.key = desk.key /\ (Superseded \/ StopComing(desk.key)')
    BY <1>1 DEF ResumeCalm, Resumes
  <2>2. desk.key \in Known
    BY <2>1 DEF ControlInv, DeskInv, DeskFounded, Resumes
  <2>3. Superseded => StopComing(desk.key)
    BY <2>1 DEF StopsFollow, Resumes
  <2>4. ASSUME NEW k \in Known, k = desk.key
        PROVE  StopComing(k) => StopComing(desk.key)'
    BY <2>1, <2>4 DEF PausesGrow, StopComing
  <2> QED
    BY <2>1, <2>2, <2>3, <2>4
<1>2. ASSUME desk'.op = "resume", InLine(desk.key)'
      PROVE  Superseded'
  BY <1>2 DEF StopsFollow, ResumeCalm
<1>3. \A k \in Keys : stops'[k] # "no" => k \in Known'
  BY DEF StopsFollow, PausesGrow
<1>4. \A k \in Known' : stops'[k] = "owed" => tasks'[k].paused
  BY <1>3 DEF StopsFollow, PausesGrow, Known
<1> QED
  BY <1>1, <1>2, <1>3, <1>4 DEF StopsFollow

LEMMA SpentFrame ==
    ASSUME ControlInv, SpentStops, PausesGrow, AutoKept, ResumeCalm, UNCHANGED <<spent, told, looked>>
    PROVE  SpentStops'
<1>1. ASSUME looked, spent, NEW k \in Known', tasks'[k].auto
      PROVE  tasks'[k].owed \/ tasks'[k].paused
  BY <1>1 DEF SpentStops, PausesGrow, AutoKept
<1>2. ASSUME Resumes("last")', looked, spent, tasks'[desk'.key].auto
      PROVE  StopComing(desk.key)'
  <2>1. desk.op = "resume" /\ desk.at = "last" /\ desk'.key = desk.key
    BY <1>2 DEF ResumeCalm, Resumes
  <2>2. desk.key \in Known
    BY <2>1 DEF ControlInv, DeskInv, DeskFounded, Resumes
  <2>3. StopComing(desk.key)
    BY <1>2, <2>1, <2>2 DEF SpentStops, AutoKept, Resumes
  <2>4. ASSUME NEW k \in Known, k = desk.key
        PROVE  StopComing(k) => StopComing(desk.key)'
    BY <2>1, <2>4 DEF PausesGrow, StopComing
  <2> QED
    BY <2>2, <2>3, <2>4
<1> QED
  BY <1>1, <1>2 DEF SpentStops

LEMMA NewcomersFrame ==
    ASSUME ControlInv, RootsInv', NewcomersOwn, RootsFresh, IntentsStand,
           askedAll' = askedAll \/ askedAll' = "resume", \A k \in Keys : asked'[k] = "none" => asked[k] = "none"
    PROVE  NewcomersOwn'
<1> SUFFICES ASSUME askedAll' = "pause", NEW k \in Known', asked'[k] = "none", NEW i \in On(RootOf(k))'
             PROVE  ~intents'[i].auto
  BY DEF NewcomersOwn
<1>0. k \in Keys /\ RootOf(k)' = tasks'[k].root
  BY DEF Known, RootOf
<1>1. CASE tasks'[k].root = born + 1
  BY <1>0, <1>1, NextRootIdle, StandOn DEF ControlInv
<1>2. CASE k \in Known /\ tasks'[k].root = tasks[k].root
  <2>1. RootOf(k)' = RootOf(k)
    BY <1>2 DEF RootOf, Known
  <2> QED
    BY <1>0, <1>2, <2>1, StandOn DEF NewcomersOwn
<1> QED
  BY <1>1, <1>2 DEF RootsFresh

\* The flags of every task stay as they are, and a new task has none.
FlagsSame ==
    /\ Known \subseteq Known'
    /\ \A k \in Known : /\ tasks'[k].paused = tasks[k].paused /\ tasks'[k].owed = tasks[k].owed
                        /\ tasks'[k].auto = tasks[k].auto
    /\ \A k \in Known' \ Known : ~tasks'[k].paused /\ ~tasks'[k].auto /\ ~tasks'[k].owed

\* A step that pauses nothing, by which a resume goes on at most.
LEMMA CalmGrow ==
    ASSUME FlagsSame, StopsFollow, UNCHANGED <<stops, halting>>
    PROVE  PausesGrow /\ AutoKept
BY DEF FlagsSame, PausesGrow, AutoKept, StopComing, StopsFollow

LEMMA CalmStep ==
    ASSUME ControlInv, RootsInv', QuietInv, FlagsSame, RootsFresh, IntentsStand, TurnsCalm, IdleStays, LetGo,
           SubmitCalm, ResumeCalm,
           UNCHANGED <<stops, halting, half, spent, told, looked, asked, askedAll>>
    PROVE  QuietInv'
BY SentFrame, CalmGrow, PausedFrame, FollowFrame, SpentFrame, NewcomersFrame DEF QuietInv

-----------------------------------------------------------------------------
(* Steps that neither pause nor stop nor release anything. *)

LEMMA TurnsSame ==
    ASSUME SentOnce, UNCHANGED <<intents, fate, other, work>>
    PROVE  IntentsStand /\ TurnsCalm /\ IdleStays
BY DEF IntentsStand, TurnsCalm, IdleStays, Idle, On, SentOnce

LEMMA TasksSame ==
    ASSUME RootsInv, UNCHANGED <<tasks, born>>
    PROVE  FlagsSame /\ RootsFresh
<1>1. born \in Nat
  BY KnownFacts
<1> QED
  BY <1>1 DEF FlagsSame, RootsFresh, Known

LEMMA DeskSame ==
    ASSUME UNCHANGED <<desk, stops>>
    PROVE  SubmitCalm /\ ResumeCalm /\ LetGo
BY DEF SubmitCalm, ResumeCalm, LetGo, Submits, Resumes, Superseded, InLine, Releasing

\* A desk that is left, before a release, is calm.
LEMMA DeskQuits ==
    ASSUME desk' = Free, ~Submits("answer"), ~Resumes("last")
    PROVE  SubmitCalm /\ ResumeCalm /\ LetGo
BY DEF SubmitCalm, ResumeCalm, LetGo, Resumes, Releasing, Free

LEMMA BootSame ==
    ASSUME RootsInv, UNCHANGED born,
           \/ UNCHANGED tasks
           \/ \E k \in Known, boot \in {"pending", "sending", "unknown", "ready"} : Set(k, "boot", boot)
    PROVE  FlagsSame /\ RootsFresh
<1>1. born \in Nat
  BY KnownFacts
<1>2. ASSUME NEW k \in Known, NEW boot \in {"pending", "sending", "unknown", "ready"}, Set(k, "boot", boot)
      PROVE  FlagsSame /\ RootsFresh
  <2>1. Known' = Known /\ \A j \in Known : tasks'[j].root = tasks[j].root /\ tasks'[j].paused = tasks[j].paused
    BY <1>2, TasksSetBoot
  <2>2. tasks'[k].owed = tasks[k].owed /\ tasks'[k].auto = tasks[k].auto /\ \A j \in Keys \ {k} : tasks'[j] = tasks[j]
    BY <1>2, TasksSetBoot
  <2>3. \A j \in Known : tasks'[j].owed = tasks[j].owed /\ tasks'[j].auto = tasks[j].auto
    BY <2>2 DEF Known
  <2> QED
    BY <1>1, <2>1, <2>3 DEF FlagsSame, RootsFresh
<1> QED
  BY <1>2, TasksSame

LEMMA AliasSame ==
    ASSUME RootsInv, NEW k \in Keys, NEW boot \in {"pending", "sending"}, Aliases(k, boot)
    PROVE  FlagsSame /\ RootsFresh
<1>1. born \in Nat /\ born' = born + 1 /\ Known' = Known \cup {k} /\ tasks'[k].root = born + 1
  BY AliasFacts, KnownFacts
<1>2. \A j \in Keys \ {k} : tasks'[j] = tasks[j]
  BY AliasFacts
<1>3. k \in Known => /\ tasks'[k].paused = tasks[k].paused
                    /\ tasks'[k].owed = tasks[k].owed /\ tasks'[k].auto = tasks[k].auto
                    /\ On(tasks[k].root) = {}
  BY AliasFacts
<1>4. k \notin Known => ~tasks'[k].paused /\ ~tasks'[k].owed /\ ~tasks'[k].auto
  BY AliasFacts
<1>5. FlagsSame
  BY <1>1, <1>2, <1>3, <1>4 DEF FlagsSame, Known
<1>6. RootsFresh
  BY <1>1, <1>2, <1>3 DEF RootsFresh, Known
<1> QED
  BY <1>5, <1>6

LEMMA EnsureSame ==
    ASSUME RootsInv, NEW k \in Keys, NEW outcome,
           Ensures(k, outcome) \/ EnsureBegins(k) \/ EnsureFails(k)
    PROVE  FlagsSame /\ RootsFresh /\ UNCHANGED <<intents, fate, other, work>>
<1>1. CASE LookReady(k, outcome) \/ Initialized(k, outcome)
  <2>1. k \in Known /\ Set(k, "boot", "ready") /\ UNCHANGED <<intents, born, fate, other, work>>
    BY <1>1, KnownFacts DEF LookReady, Initialized, RootsInv, Founded, turnVars, threadVars
  <2> QED
    BY <2>1, BootSame
<1>2. CASE LookEmpty(k, outcome)
  <2>1. UNCHANGED <<intents, born, fate, other, work>>
    BY <1>2 DEF LookEmpty, turnVars
  <2>2. k \in Known
    BY <1>2, KnownFacts DEF LookEmpty
  <2>3. UNCHANGED tasks \/ Set(k, "boot", "sending")
    BY <1>2 DEF LookEmpty, Sends
  <2> QED
    BY <2>1, <2>2, <2>3, BootSame
<1>3. CASE LookAbsent(k, outcome) \/ EnsureBegins(k)
  <2>1. UNCHANGED <<tasks, born, intents, fate, other, work>>
    BY <1>3 DEF LookAbsent, EnsureBegins, turnVars, threadVars
  <2> QED
    BY <2>1, TasksSame
<1>4. CASE Started(k, outcome)
  <2>1. Aliases(k, "sending") /\ UNCHANGED <<intents, fate, other, work>>
    BY <1>4 DEF Started, turnVars
  <2> QED
    BY <2>1, AliasSame
<1>5. CASE EnsureFails(k)
  <2>1. UNCHANGED <<intents, born, fate, other, work>>
    BY <1>5 DEF EnsureFails, turnVars, threadVars
  <2>2. UNCHANGED tasks \/ (k \in Known /\ Set(k, "boot", "unknown"))
    BY <1>5 DEF EnsureFails, RootsInv, Founded
  <2> QED
    BY <2>1, <2>2, BootSame
<1> QED
  BY <1>1, <1>2, <1>3, <1>4, <1>5 DEF Ensures

LEMMA TurnStartQuiet ==
    ASSUME RootsInv, SentOnce, NEW i \in Inputs, TurnStarts(i)
    PROVE  IntentsStand /\ TurnsCalm /\ IdleStays
<1>1. /\ UNCHANGED <<intents, other, work>>
      /\ fate[i] \in {"wire", "queued"}
      /\ fate[i] = "queued" => work[intents[i].root] = "free"
      /\ fate' = [fate EXCEPT ![i] = "running"]
  BY DEF TurnStarts, runtimeVars
<1>2. intents[i] # None /\ fate \in [Inputs -> {"none", "wire", "queued", "running", "over", "lost"}]
  BY <1>1 DEF RootsInv, RootsTypeOK, Founded
<1>3. IntentsStand /\ TurnsCalm
  BY <1>1, <1>2 DEF IntentsStand, TurnsCalm, SentOnce
<1>4. ASSUME NEW r \in Roots, Idle(r)
      PROVE  Idle(r)'
  <2>1. intents[i].root # r
    BY <1>1, <1>2, <1>4 DEF Idle, On
  <2> QED
    BY <1>1, <1>2, <1>4, <2>1 DEF Idle, On
<1> QED
  BY <1>3, <1>4 DEF IdleStays

LEMMA NativeQuiet ==
    ASSUME ControlInv, ControlInv', QuietInv, Native \/ Hears, UNCHANGED <<deskVars, historyVars>>
    PROVE  QuietInv'
<1>0. UNCHANGED <<desk, stops, halting, half, spent, told, looked, asked, askedAll>>
  BY DEF deskVars, historyVars
<1>1. ASSUME NEW r \in 1..born, EntryArrives(r) \/ StrangerEnds(r) \/ TurnEnds(r) \/ GoalGoesOn(r)
      PROVE  FlagsSame /\ RootsFresh /\ IntentsStand /\ TurnsCalm /\ IdleStays
  <2>1. UNCHANGED <<tasks, intents, born>>
    BY <1>1 DEF EntryArrives, StrangerEnds, TurnEnds, GoalGoesOn, runtimeVars, threadVars
  <2>2. r \in Roots /\ born \in Nat /\ ~(r > born)
    BY <1>1, KnownFacts DEF ControlInv
  <2>3. CASE EntryArrives(r)
    BY <2>1, <2>3, TurnsSame, TasksSame DEF EntryArrives, turnVars, QuietInv, ControlInv
  <2>4. CASE StrangerEnds(r)
    <3>1. UNCHANGED <<fate, work>> /\ other' = [other EXCEPT ![r] = "none"]
      BY <2>4 DEF StrangerEnds
    <3> QED
      BY <2>1, <2>2, <3>1, TasksSame
         DEF IntentsStand, TurnsCalm, IdleStays, Idle, On, SentOnce, QuietInv, ControlInv, RootsInv, RootsTypeOK
  <2>5. CASE TurnEnds(r)
    <3>1. /\ fate' = [i \in Inputs |-> IF i \in Running(r) THEN "over" ELSE fate[i]]
          /\ other' = [other EXCEPT ![r] = "none"]
          /\ work' = work \/ work' = [work EXCEPT ![r] = "none"]
      BY <2>5 DEF TurnEnds
    <3> QED
      BY <2>1, <2>2, <3>1, TasksSame
         DEF IntentsStand, TurnsCalm, IdleStays, Idle, On, SentOnce, QuietInv, ControlInv, RootsInv, RootsTypeOK
  <2>6. CASE GoalGoesOn(r)
    <3>1. UNCHANGED <<fate, work>> /\ other' = [other EXCEPT ![r] = "goal"] /\ work[r] = "free"
      BY <2>6 DEF GoalGoesOn
    <3> QED
      BY <2>1, <2>2, <3>1, TasksSame
         DEF IntentsStand, TurnsCalm, IdleStays, Idle, On, SentOnce, QuietInv, ControlInv, RootsInv, RootsTypeOK
  <2> QED
    BY <1>1, <2>3, <2>4, <2>5, <2>6
<1>2. ASSUME NEW i \in Inputs, TurnStarts(i)
      PROVE  FlagsSame /\ RootsFresh /\ IntentsStand /\ TurnsCalm /\ IdleStays
  <2>1. UNCHANGED <<tasks, born>>
    BY <1>2 DEF TurnStarts, runtimeVars
  <2> QED
    BY <1>2, <2>1, TurnStartQuiet, TasksSame DEF QuietInv, ControlInv
<1>3. ASSUME NEW r \in 1..born, HearStart(r)
      PROVE  FlagsSame /\ RootsFresh /\ IntentsStand /\ TurnsCalm /\ IdleStays
  <2>1. UNCHANGED <<intents, fate, other, work, born>>
    BY <1>3 DEF HearStart, threadVars
  <2>2. \A k \in Known : tasks[k] \in Task
    BY KnownFacts DEF ControlInv
  <2>3. \A k \in Keys : tasks'[k] = IF k \in Known /\ RootOf(k) = r THEN With(tasks[k], "used", TRUE) ELSE tasks[k]
    BY <1>3 DEF HearStart
  <2>4. \A t \in Task : LET u == With(t, "used", TRUE)
                        IN  u \in Task /\ u.root = t.root /\ u.paused = t.paused /\ u.owed = t.owed /\ u.auto = t.auto
    BY DEF With, Task
  <2>5. FlagsSame
    BY <2>2, <2>3, <2>4, NoneAssumption DEF FlagsSame, Known
  <2>6. RootsFresh
    <3>1. born \in Nat
      BY KnownFacts DEF ControlInv
    <3>2. Known' = Known /\ \A k \in Known : tasks'[k].root = tasks[k].root
      BY <2>2, <2>3, <2>4, NoneAssumption DEF Known
    <3> QED
      BY <2>1, <3>1, <3>2 DEF RootsFresh
  <2> QED
    BY <2>1, <2>5, <2>6, TurnsSame DEF QuietInv
<1>4. ASSUME NEW i \in Inputs, HearEnd(i)
      PROVE  FlagsSame /\ RootsFresh /\ IntentsStand /\ TurnsCalm /\ IdleStays
  <2>1. UNCHANGED <<tasks, fate, other, work, born>> /\ intents' = [intents EXCEPT ![i] = With(@, "status", "ended")]
        /\ fate[i] = "over"
    BY <1>4 DEF HearEnd, threadVars, turnVars
  <2>2. intents[i] \in Intent /\ intents[i] # None /\ intents \in [Inputs -> Intent \cup {None}]
    BY <1>4, <2>1, NoneAssumption DEF ControlInv, RootsInv, RootsTypeOK, Founded
  <2>3. LET n == With(intents[i], "status", "ended")
        IN  n \in Intent /\ n.root = intents[i].root /\ n.auto = intents[i].auto /\ n.late = intents[i].late
    BY <2>2, IntentWith
  <2>4. IntentsStand
    BY <2>1, <2>2, <2>3, NoneAssumption DEF IntentsStand
  <2>5. TurnsCalm /\ IdleStays
    BY <2>1, <2>4, StandOn DEF TurnsCalm, IdleStays, Idle, SentOnce, QuietInv
  <2> QED
    BY <2>1, <2>4, <2>5, TasksSame DEF ControlInv
<1>5. FlagsSame /\ RootsFresh /\ IntentsStand /\ TurnsCalm /\ IdleStays
  BY <1>1, <1>2, <1>3, <1>4 DEF Native, Hears
<1> QED
  BY <1>0, <1>5, DeskSame, CalmStep DEF ControlInv

LEMMA OutsideQuiet ==
    ASSUME ControlInv, ControlInv', QuietInv, NEW r \in 1..born, StrangerStarts(r) \/ GoalSet(r),
           UNCHANGED <<deskVars, told, looked, asked, askedAll, half>>
    PROVE  QuietInv'
<1>0. UNCHANGED <<desk, stops, halting, half, spent, told, looked, asked, askedAll>>
  BY DEF deskVars
<1>1. UNCHANGED <<tasks, intents, born, fate>>
  BY DEF StrangerStarts, GoalSet, runtimeVars, threadVars
<1>2. r \in Roots /\ born \in Nat /\ ~(r > born)
  BY KnownFacts DEF ControlInv
<1>3. CASE StrangerStarts(r)
  <2>1. UNCHANGED work /\ other' = [other EXCEPT ![r] = "client"]
    BY <1>3 DEF StrangerStarts
  <2>2. IntentsStand /\ TurnsCalm /\ IdleStays
    BY <1>1, <1>2, <2>1
       DEF IntentsStand, TurnsCalm, IdleStays, Idle, On, SentOnce, QuietInv, ControlInv, RootsInv, RootsTypeOK
  <2> QED
    BY <1>0, <1>1, <2>2, TasksSame, DeskSame, CalmStep DEF ControlInv
<1>4. CASE GoalSet(r)
  <2>1. UNCHANGED other /\ work' = [work EXCEPT ![r] = "free"] /\ Running(r) # {}
    BY <1>4 DEF GoalSet
  <2>2. ~Idle(r)
    BY <2>1 DEF Running, Idle
  <2>3. IntentsStand /\ TurnsCalm
    BY <1>1, <1>2, <2>1
       DEF IntentsStand, TurnsCalm, SentOnce, QuietInv, ControlInv, RootsInv, RootsTypeOK
  <2>4. IdleStays
    BY <1>1, <1>2, <2>1, <2>2
       DEF IdleStays, Idle, On, ControlInv, RootsInv, RootsTypeOK
  <2> QED
    BY <1>0, <1>1, <2>3, <2>4, TasksSame, DeskSame, CalmStep DEF ControlInv
<1> QED
  BY <1>3, <1>4

LEMMA SubmitGoes ==
    ASSUME desk \in Submitting, desk.at # "answer", UNCHANGED stops,
           \/ desk' = Free
           \/ desk' \in Submitting /\ desk'.at # "answer" /\ desk'.key = desk.key /\ desk'.input = desk.input
    PROVE  SubmitCalm /\ ResumeCalm /\ LetGo
<1>1. desk.op = "submit" /\ (desk' = Free \/ desk'.op = "submit")
  BY SubmitWith
<1> QED
  BY <1>1 DEF SubmitCalm, ResumeCalm, LetGo, Submits, Resumes, Releasing, Free

LEMMA ResumeGoes ==
    ASSUME desk \in Resuming, desk.at # "last", UNCHANGED stops,
           \/ desk' = Free
           \/ /\ desk' \in Resuming /\ desk'.at # "last" /\ desk'.key = desk.key
              /\ desk'.void = desk.void /\ desk'.stale = desk.stale
    PROVE  SubmitCalm /\ ResumeCalm /\ LetGo
<1>1. desk.op = "resume" /\ (desk' = Free \/ desk'.op = "resume")
  BY ResumeWith
<1> QED
  BY <1>1 DEF SubmitCalm, ResumeCalm, LetGo, Submits, Resumes, Releasing, Free, Superseded, InLine

\* What only the desk changes, and what ensure_thread changes.
LEMMA DeskQuiet ==
    ASSUME ControlInv, RootsInv', QuietInv, OnlyDesk, SubmitCalm, ResumeCalm, LetGo
    PROVE  QuietInv'
<1>1. /\ UNCHANGED <<tasks, born, intents, fate, other, work>>
      /\ UNCHANGED <<stops, halting, half, spent, told, looked, asked, askedAll>>
  BY DEF OnlyDesk, rootVars, runtimeVars, threadVars, turnVars, historyVars
<1> QED
  BY <1>1, TurnsSame, TasksSame, CalmStep DEF ControlInv, QuietInv

LEMMA EnsureQuiet ==
    ASSUME ControlInv, RootsInv', QuietInv, NEW k \in Keys, NEW outcome,
           Ensures(k, outcome) \/ EnsureBegins(k) \/ EnsureFails(k), SubmitCalm, ResumeCalm, LetGo,
           UNCHANGED <<stops, halting, half, spent, told, looked, asked, askedAll>>
    PROVE  QuietInv'
<1>1. FlagsSame /\ RootsFresh /\ UNCHANGED <<intents, fate, other, work>>
  BY EnsureSame DEF ControlInv
<1> QED
  BY <1>1, TurnsSame, CalmStep DEF QuietInv

LEMMA ThreadQuiet ==
    ASSUME ControlInv, ControlInv', QuietInv, NEW k \in Keys, Thread(k) \/ ThreadEnsured(k) \/ EnsureGivesUp(k)
    PROVE  QuietInv'
<1>1. PICK outcome \in {"waits", "done", "absent", "raises"} :
          Ensures(k, outcome) \/ EnsureBegins(k) \/ EnsureFails(k)
  BY DEF Thread, ThreadEnsured, EnsureGivesUp
<1>2. UNCHANGED <<stops, halting, half, spent, told, looked, asked, askedAll>>
  BY DEF Thread, ThreadEnsured, EnsureGivesUp, deskVars, historyVars
<1>3. desk' = desk \/ (desk' = Free /\ ~Submits("answer") /\ ~Resumes("last"))
  BY DEF Thread, ThreadEnsured, EnsureGivesUp, deskVars, ForDesk, Submits, Resumes
<1> QED
  BY <1>1, <1>2, <1>3, DeskSame, DeskQuits, EnsureQuiet DEF ControlInv

LEMMA DeskLocksQuiet ==
    ASSUME ControlInv, ControlInv', QuietInv, DeskLocks
    PROVE  QuietInv'
<1>1. /\ desk \in Submitting \cup Resuming /\ desk.at = "lock" /\ desk.waits \in Keys
      /\ EnsureBegins(desk.waits) /\ desk' = With(desk, "at", "ensure")
  BY DEF DeskLocks, Steps, ControlInv, DeskInv, DeskTypeOK, Submitting, Resuming, Free
<1>2. UNCHANGED <<stops, halting, half, spent, told, looked, asked, askedAll>>
  BY DEF DeskLocks, historyVars
<1>3. SubmitCalm /\ ResumeCalm /\ LetGo
  <2>1. CASE desk \in Submitting
    <3>1. desk' \in Submitting /\ desk'.at = "ensure" /\ desk'.key = desk.key /\ desk'.input = desk.input
      BY <1>1, <2>1, SubmitWith
    <3> QED
      BY <1>1, <1>2, <2>1, <3>1, SubmitGoes
  <2>2. CASE desk \in Resuming
    <3>1. /\ desk' \in Resuming /\ desk'.at = "ensure" /\ desk'.key = desk.key
          /\ desk'.void = desk.void /\ desk'.stale = desk.stale
      BY <1>1, <2>2, ResumeWith
    <3> QED
      BY <1>1, <1>2, <2>2, <3>1, ResumeGoes
  <2> QED
    BY <1>1, <2>1, <2>2
<1> QED
  BY <1>1, <1>2, <1>3, EnsureQuiet DEF ControlInv

LEMMA DeskEnsuresQuiet ==
    ASSUME ControlInv, ControlInv', QuietInv, NEW k \in Keys, DeskEnsures(k)
    PROVE  QuietInv'
<1>1. PICK outcome \in {"waits", "done", "absent", "raises"} : Ensures(k, outcome)
  BY DEF DeskEnsures
<1>2. UNCHANGED <<stops, halting, half, spent, told, looked, asked, askedAll>>
  BY DEF DeskEnsures, historyVars
<1>3. desk \in Submitting \cup Resuming /\ desk.at = "ensure" /\ desk.waits = k
  BY DEF DeskEnsures, ForDesk, ControlInv, DeskInv, DeskTypeOK, Free
<1>4. desk' \in DeskTypes
  BY DEF ControlInv, DeskInv, DeskTypeOK, DeskTypes
<1> DEFINE n == With(desk, "names", Renamed(k))
           u == With(desk, "unread", desk.unread \ {k})
<1>5. \/ desk' = desk \/ desk' = Free
      \/ Hydrates /\ desk' \in {With(n, "at", "probe"), With(u, "at", "probe")}
      \/ desk' = With(desk, "at", IF desk.op = "submit" THEN "read" ELSE "native")
  BY DEF DeskEnsures, Quits, Steps
<1>6. SubmitCalm /\ ResumeCalm /\ LetGo
  <2>1. CASE desk' = desk
    BY <1>2, <2>1, DeskSame
  <2>2. CASE desk' = Free
    BY <1>3, <2>2, DeskQuits DEF Submits, Resumes
  <2>3. CASE Hydrates /\ desk' \in {With(n, "at", "probe"), With(u, "at", "probe")}
    <3>1. desk \in Submitting
      BY <1>3, <2>3 DEF Hydrates, Resuming
    <3>2. /\ n.at = desk.at /\ n.key = desk.key /\ n.input = desk.input /\ n.op = "submit"
          /\ u.at = desk.at /\ u.key = desk.key /\ u.input = desk.input /\ u.op = "submit"
          /\ With(n, "at", "probe").at = "probe" /\ With(n, "at", "probe").key = desk.key
          /\ With(n, "at", "probe").input = desk.input /\ With(n, "at", "probe").op = "submit"
          /\ With(u, "at", "probe").at = "probe" /\ With(u, "at", "probe").key = desk.key
          /\ With(u, "at", "probe").input = desk.input /\ With(u, "at", "probe").op = "submit"
      BY <3>1 DEF With, Submitting
    <3>3. desk' \in Submitting
      BY <1>4, <2>3, <3>2 DEF DeskTypes, Resuming, Free
    <3> QED
      BY <1>2, <1>3, <2>3, <3>1, <3>2, <3>3, SubmitGoes
  <2>4. CASE desk' = With(desk, "at", IF desk.op = "submit" THEN "read" ELSE "native")
    <3>1. CASE desk \in Submitting
      <4>1. desk' \in Submitting /\ desk'.at = "read" /\ desk'.key = desk.key /\ desk'.input = desk.input
        BY <2>4, <3>1, SubmitWith
      <4> QED
        BY <1>2, <1>3, <3>1, <4>1, SubmitGoes
    <3>2. CASE desk \in Resuming
      <4>1. /\ desk' \in Resuming /\ desk'.at = "native" /\ desk'.key = desk.key
            /\ desk'.void = desk.void /\ desk'.stale = desk.stale
        BY <2>4, <3>2, ResumeWith
      <4> QED
        BY <1>2, <1>3, <3>2, <4>1, ResumeGoes
    <3> QED
      BY <1>3, <3>1, <3>2
  <2> QED
    BY <1>5, <2>1, <2>2, <2>3, <2>4
<1> QED
  BY <1>1, <1>2, <1>6, EnsureQuiet DEF ControlInv

LEMMA ProbeQuiet ==
    ASSUME ControlInv, ControlInv', QuietInv, (\E k \in Keys : ProbeReads(k)) \/ ProbeEnds
    PROVE  QuietInv'
<1>1. desk \in Submitting /\ desk.at = "probe" /\ OnlyDesk
  BY ProbeFacts DEF ProbeReads, ProbeEnds, Submits
<1>2. UNCHANGED stops /\ desk' \in DeskTypes
  BY <1>1 DEF OnlyDesk, ControlInv, DeskInv, DeskTypeOK, DeskTypes
<1>3. \/ desk' = Free
      \/ desk'.at # "answer" /\ desk'.key = desk.key /\ desk'.input = desk.input /\ desk'.op = "submit"
  <2>1. CASE ProbeEnds
    <3> DEFINE c == With(desk, "waits", desk.key)
    <3>1. desk' = Free \/ desk' = With(c, "at", "lock")
      BY <2>1 DEF ProbeEnds
    <3> QED
      BY <1>1, <3>1 DEF With, Submitting
  <2>2. ASSUME NEW k \in Keys, ProbeReads(k)
        PROVE  \/ desk' = Free
               \/ desk'.at # "answer" /\ desk'.key = desk.key /\ desk'.input = desk.input /\ desk'.op = "submit"
    <3> DEFINE a == With(desk, "unread", desk.unread \ {k})
               c == With(desk, "waits", k)
    <3>1. desk' \in {Free, a, With(a, "seen", desk.seen \cup {RootOf(k)}), With(c, "at", "lock")}
      BY <2>2 DEF ProbeReads
    <3> QED
      BY <1>1, <3>1 DEF With, Submitting
  <2> QED
    BY <2>1, <2>2
<1>4. desk' = Free \/ desk' \in Submitting
  BY <1>2, <1>3 DEF DeskTypes, Resuming, Free
<1> QED
  BY <1>1, <1>2, <1>3, <1>4, SubmitGoes, DeskQuiet DEF ControlInv

LEMMA SubmitQuitsQuiet ==
    ASSUME ControlInv, ControlInv', QuietInv, SubmitFails \/ SubmitDeferred
    PROVE  QuietInv'
<1>1. desk' = Free /\ ~Submits("answer") /\ ~Resumes("last")
  BY DEF SubmitFails, SubmitDeferred, Submits, Resumes, Quits
<1>2. /\ UNCHANGED <<tasks, born, intents, fate, other, work>>
      /\ UNCHANGED <<stops, halting, half, spent, told, looked, asked, askedAll>>
  BY DEF SubmitFails, SubmitDeferred, OnlyDesk, rootVars, runtimeVars, threadVars, turnVars, historyVars
<1> QED
  BY <1>1, <1>2, DeskQuits, TurnsSame, TasksSame, CalmStep DEF ControlInv, QuietInv

\* A new submit has an input that nobody has sent.
LEMMA SubmitBeginsQuiet ==
    ASSUME ControlInv, ControlInv', QuietInv, NEW k \in Keys, NEW i \in Inputs, NEW auto \in BOOLEAN,
           SubmitBegins(k, i, auto)
    PROVE  QuietInv'
<1>1. /\ desk.op = "free" /\ intents[i] = None /\ OnlyDesk
      /\ desk'.op = "submit" /\ desk'.at # "answer" /\ desk'.input = i
  BY DEF SubmitBegins, IsFree
<1>2. /\ UNCHANGED <<tasks, born, intents, fate, other, work>>
      /\ UNCHANGED <<stops, halting, half, spent, told, looked, asked, askedAll>>
  BY <1>1 DEF OnlyDesk, rootVars, runtimeVars, threadVars, turnVars, historyVars
<1>3. SentOnce'
  BY <1>1, <1>2 DEF QuietInv, SentOnce, Submits
<1>4. ResumeCalm /\ LetGo
  BY <1>1 DEF ResumeCalm, LetGo, Resumes, Releasing
<1>5. FlagsSame /\ RootsFresh /\ IntentsStand /\ TurnsCalm /\ IdleStays
  BY <1>2, TurnsSame, TasksSame DEF ControlInv, QuietInv
<1> QED
  BY <1>2, <1>3, <1>4, <1>5, CalmGrow, PausedFrame, FollowFrame, SpentFrame, NewcomersFrame DEF QuietInv, ControlInv

\* A resume begins when none of the tasks it is for waits for a stop in line.
LEMMA ResumeBeginsQuiet ==
    ASSUME ControlInv, ControlInv', QuietInv, NEW k \in Keys, NEW todo \in SUBSET Keys, NEW all \in BOOLEAN,
           ResumeBegins(k, todo, all)
    PROVE  QuietInv'
<1>1. /\ desk.op = "free" /\ ~InLine(k) /\ desk'.op = "resume" /\ desk'.at = "lock" /\ desk'.key = k
      /\ Notes({k} \cup todo, "resume") /\ askedAll' \in {askedAll, "resume"}
      /\ UNCHANGED <<rootVars, spent, stops, halting, told, looked, half>>
  BY DEF ResumeBegins, IsFree
<1>2. UNCHANGED <<tasks, born, intents, fate, other, work>>
  BY <1>1 DEF rootVars, runtimeVars, threadVars, turnVars
<1>3. SubmitCalm /\ ResumeCalm /\ LetGo
  BY <1>1 DEF SubmitCalm, ResumeCalm, LetGo, Submits, Resumes, Releasing, InLine
<1>4. FlagsSame /\ RootsFresh /\ IntentsStand /\ TurnsCalm /\ IdleStays
  BY <1>2, TurnsSame, TasksSame DEF ControlInv, QuietInv
<1>5. \A j \in Keys : asked'[j] = "none" => asked[j] = "none"
  BY <1>1 DEF Notes
<1> QED
  BY <1>1, <1>3, <1>4, <1>5, SentFrame, CalmGrow, PausedFrame, FollowFrame, SpentFrame, NewcomersFrame
     DEF QuietInv, ControlInv

LEMMA AutonomyQuiet ==
    ASSUME ControlInv, ControlInv', QuietInv, ResumeAutonomy
    PROVE  QuietInv'
<1>1. /\ askedAll' = "resume" /\ UNCHANGED <<rootVars, spent, desk, stops, halting, told, looked, asked, half>>
  BY DEF ResumeAutonomy
<1>2. UNCHANGED <<tasks, born, intents, fate, other, work>>
  BY <1>1 DEF rootVars, runtimeVars, threadVars, turnVars
<1>3. FlagsSame /\ RootsFresh /\ IntentsStand /\ TurnsCalm /\ IdleStays /\ SubmitCalm /\ ResumeCalm /\ LetGo
  BY <1>1, <1>2, TurnsSame, TasksSame, DeskSame DEF ControlInv, QuietInv
<1> QED
  BY <1>1, <1>3, SentFrame, CalmGrow, PausedFrame, FollowFrame, SpentFrame, NewcomersFrame DEF QuietInv, ControlInv

-----------------------------------------------------------------------------
(* Steps that pause tasks. *)

LEMMA FlagsFacts ==
    ASSUME RootsInv, NEW keys \in SUBSET Known, NEW owed \in BOOLEAN, Flags(keys, owed)
    PROVE  /\ Known' = Known
           /\ \A k \in Known : /\ tasks'[k].root = tasks[k].root /\ tasks'[k].auto = tasks[k].auto
                               /\ tasks[k].paused => tasks'[k].paused
                               /\ tasks'[k].paused => tasks[k].paused \/ k \in keys
                               /\ tasks[k].owed => tasks'[k].owed
           /\ \A k \in keys : tasks'[k].paused /\ (owed => tasks'[k].owed)
<1>1. \A k \in Known : tasks[k] \in Task
  BY KnownFacts
<1>2. \A k \in Keys \ keys : tasks'[k] = tasks[k]
  BY FlaggedKeeps DEF Flags
<1>3. ASSUME NEW k \in keys
      PROVE  /\ tasks'[k] \in Task /\ tasks'[k].paused /\ tasks'[k].root = tasks[k].root
             /\ tasks'[k].auto = tasks[k].auto /\ tasks'[k].owed = (tasks[k].owed \/ owed)
  <2>1. /\ tasks'[k] \in Task /\ tasks'[k].paused /\ tasks'[k].root = tasks[k].root
        /\ tasks'[k].auto = tasks[k].auto
    BY <1>3, FlaggedKeeps DEF Flags
  <2>2. tasks'[k] = With(With(tasks[k], "paused", TRUE), "owed", tasks[k].owed \/ owed)
    BY <1>3, KnownFacts DEF Flags, Flagged
  <2>3. With(With(tasks[k], "paused", TRUE), "owed", tasks[k].owed \/ owed).owed = (tasks[k].owed \/ owed)
    BY <1>1, <1>3 DEF With, Task
  <2> QED
    BY <2>1, <2>2, <2>3
<1>4. Known' = Known
  BY <1>2, <1>3, NoneAssumption DEF Known
<1> QED
  BY <1>2, <1>3, <1>4 DEF Known

LEMMA FencesMark ==
    ASSUME desk \in DeskTypes, NEW fenced \in SUBSET Keys, NEW everything \in BOOLEAN, Fences(fenced, everything)
    PROVE  \/ desk.op # "resume" /\ desk' = desk
           \/ /\ desk.op = "resume" /\ desk'.op = "resume" /\ desk'.at = desk.at /\ desk'.key = desk.key
              /\ desk'.void = (desk.void \/ everything) /\ desk'.stale = desk.stale \cup fenced
<1>1. CASE desk.op # "resume"
  BY <1>1 DEF Fences
<1>2. CASE desk.op = "resume"
  <2>1. desk \in Resuming
    BY <1>2 DEF DeskTypes, Submitting, Free
  <2> DEFINE u == With(desk, "stale", desk.stale \cup fenced)
             b == desk.void \/ everything
             v == With(u, "void", b)
  <2>2. desk.stale \cup fenced \in SUBSET Keys /\ b \in BOOLEAN
    BY <2>1, ResumeWith
  <2>3. /\ u \in Resuming /\ u.at = desk.at /\ u.key = desk.key /\ u.waits = desk.waits /\ u.todo = desk.todo
        /\ u.all = desk.all /\ u.stale = desk.stale \cup fenced
    BY <2>1, <2>2, ResumeWith
  <2>4. desk' = v
    BY <1>2 DEF Fences
  <2> HIDE DEF u, b
  <2>5. /\ v \in Resuming /\ v.at = desk.at /\ v.key = desk.key /\ v.waits = desk.waits /\ v.todo = desk.todo
        /\ v.all = desk.all /\ v.stale = desk.stale \cup fenced /\ v.void = b
        /\ v.op = "resume"
    BY <2>2, <2>3, ResumeWith
  <2> HIDE DEF v
  <2>6. b = (desk.void \/ everything)
    BY DEF b
  <2> QED
    BY <1>2, <2>4, <2>5, <2>6
<1> QED
  BY <1>1, <1>2

\* The tasks in keys are paused, each with its stop.
LEMMA MarkFlags ==
    ASSUME ControlInv, NEW keys \in SUBSET Known, NEW owed \in BOOLEAN, Flags(keys, owed), UNCHANGED born,
           \A k \in Known : StopComing(k) => StopComing(k)',
           \A k \in keys : StopComing(k)',
           \A k \in Keys : stops'[k] # "no" => stops[k] # "no" \/ k \in keys,
           \A k \in Keys : stops'[k] = "owed" => stops[k] = "owed" \/ k \in keys
    PROVE  PausesGrow /\ AutoKept /\ RootsFresh
<1>1. /\ Known' = Known
      /\ \A k \in Known : /\ tasks'[k].root = tasks[k].root /\ tasks'[k].auto = tasks[k].auto
                          /\ tasks[k].paused => tasks'[k].paused
                          /\ tasks'[k].paused => tasks[k].paused \/ k \in keys
                          /\ tasks[k].owed => tasks'[k].owed
      /\ \A k \in keys : tasks'[k].paused
  BY FlagsFacts DEF ControlInv
<1>2. Known \subseteq Keys /\ born \in Nat
  BY KnownFacts DEF ControlInv
<1>3. PausesGrow
  BY <1>1, <1>2 DEF PausesGrow
<1> QED
  BY <1>1, <1>2, <1>3 DEF AutoKept, RootsFresh

\* With it a resume learns of what is fenced, or of everything.
LEMMA MarkGrow ==
    ASSUME ControlInv, NEW keys \in SUBSET Known, NEW owed \in BOOLEAN,
           NEW fenced \in SUBSET keys, NEW everything \in BOOLEAN,
           Flags(keys, owed), Fences(fenced, everything), UNCHANGED born,
           \A k \in Known : StopComing(k) => StopComing(k)',
           \A k \in Known : everything \/ k \in keys => StopComing(k)',
           \A k \in Keys : InLine(k)' => InLine(k) \/ k \in fenced,
           \A k \in Keys : stops'[k] # "no" => stops[k] # "no" \/ k \in keys,
           \A k \in Keys : stops'[k] = "owed" => stops[k] = "owed" \/ k \in keys
    PROVE  PausesGrow /\ AutoKept /\ RootsFresh /\ SubmitCalm /\ ResumeCalm /\ LetGo
<1>2. Known \subseteq Keys
  BY DEF Known
<1>3. PausesGrow /\ AutoKept /\ RootsFresh
  BY MarkFlags
<1>5. \/ desk.op # "resume" /\ desk' = desk
      \/ /\ desk.op = "resume" /\ desk'.op = "resume" /\ desk'.at = desk.at /\ desk'.key = desk.key
         /\ desk'.void = (desk.void \/ everything) /\ desk'.stale = desk.stale \cup fenced
  <2>1. desk \in DeskTypes /\ fenced \in SUBSET Keys
    BY <1>2 DEF ControlInv, DeskInv, DeskTypeOK, DeskTypes
  <2> QED
    BY <2>1, FencesMark
<1>6. SubmitCalm /\ LetGo
  BY <1>5 DEF SubmitCalm, LetGo, Submits, Resumes, Releasing
<1>7. ResumeCalm
  <2> SUFFICES ASSUME desk'.op = "resume"
               PROVE  /\ desk.op = "resume" /\ desk'.key = desk.key
                      /\ Superseded => Superseded'
                      /\ InLine(desk.key)' => InLine(desk.key) \/ Superseded'
                      /\ desk'.at = "last" => desk.at = "last"
                                              /\ (Superseded' => Superseded \/ StopComing(desk.key)')
    BY DEF ResumeCalm
  <2>1. /\ desk.op = "resume" /\ desk'.at = desk.at /\ desk'.key = desk.key
        /\ desk'.void = (desk.void \/ everything) /\ desk'.stale = desk.stale \cup fenced
    BY <1>5
  <2>2. desk.key \in Keys
    BY <2>1, ResumeWith DEF ControlInv, DeskInv, DeskTypeOK, Submitting, Free
  <2>3. Superseded => Superseded'
    BY <2>1 DEF Superseded
  <2>4. InLine(desk.key)' => InLine(desk.key) \/ Superseded'
    BY <2>1, <2>2 DEF InLine, Superseded
  <2>5. ASSUME desk.at = "last", Superseded'
        PROVE  Superseded \/ StopComing(desk.key)'
    <3>1. desk.key \in Known
      BY <2>1, <2>5 DEF ControlInv, DeskInv, DeskFounded, Resumes
    <3>2. everything \/ desk.key \in keys \/ Superseded
      BY <2>1, <2>5 DEF Superseded
    <3>3. ASSUME NEW k \in Known, k = desk.key, everything \/ k \in keys
          PROVE  StopComing(desk.key)'
      BY <2>1, <3>3 DEF StopComing
    <3> QED
      BY <3>1, <3>2, <3>3
  <2> QED
    BY <2>1, <2>3, <2>4, <2>5
<1> QED
  BY <1>3, <1>6, <1>7

LEMMA ComingFacts ==
    ASSUME DeskInv, NEW keys \in SUBSET Keys, NEW why \in {"due", "pause"}, Coming(keys, why)
    PROVE  /\ \A k \in keys : stops'[k] # "no"
           /\ \A k \in Keys : /\ stops[k] # "no" => stops'[k] # "no"
                              /\ InLine(k)' => InLine(k) \/ (k \in keys /\ why = "pause")
                              /\ stops'[k] # "no" => stops[k] # "no" \/ k \in keys
                              /\ stops'[k] = "owed" => stops[k] = "owed"
BY DEF DeskInv, DeskTypeOK, Stops, Coming, InLine

\* What is left of a step that pauses: nothing begins, and everybody who is asked is known.
LEMMA NotesFacts ==
    ASSUME NEW keys, Notes(keys, "pause")
    PROVE  \A k \in Keys : asked'[k] = "none" => asked[k] = "none"
BY DEF Notes

LEMMA PauseQuiet ==
    ASSUME ControlInv, ControlInv', QuietInv, NEW k \in Keys, Pause(k)
    PROVE  QuietInv'
<1>1. /\ {k} \in SUBSET Known /\ {k} \in SUBSET Keys /\ Flags({k}, FALSE) /\ Fences({k}, FALSE) /\ Notes({k}, "pause")
      /\ Coming({k}, "pause")
      /\ UNCHANGED <<born, intents, fate, other, work, halting, half, spent, told, looked, askedAll>>
  BY DEF Pause, threadVars, turnVars
<1>2. /\ stops'[k] # "no"
      /\ \A j \in Keys : /\ stops[j] # "no" => stops'[j] # "no"
                         /\ InLine(j)' => InLine(j) \/ j \in {k}
                         /\ stops'[j] # "no" => stops[j] # "no" \/ j \in {k}
                         /\ stops'[j] = "owed" => stops[j] = "owed"
  BY <1>1, ComingFacts DEF ControlInv
<1>3. \A j \in Known : (StopComing(j) => StopComing(j)') /\ (j \in {k} => StopComing(j)')
  BY <1>1, <1>2, FlagsFacts DEF StopComing, Known, ControlInv
<1>4. PausesGrow /\ AutoKept /\ RootsFresh /\ SubmitCalm /\ ResumeCalm /\ LetGo
  BY <1>1, <1>2, <1>3, MarkGrow
<1> QED
  BY <1>1, <1>4, TurnsSame, NotesFacts, SentFrame, PausedFrame, FollowFrame, SpentFrame, NewcomersFrame
     DEF QuietInv, ControlInv

LEMMA PauseAllQuiet ==
    ASSUME ControlInv, ControlInv', QuietInv, PauseAll
    PROVE  QuietInv'
<1>1. /\ Known \in SUBSET Known /\ Known \in SUBSET Keys /\ Flags(Known, FALSE) /\ Fences({}, TRUE)
      /\ Notes(Known, "pause") /\ Coming(Known, "due")
      /\ UNCHANGED <<born, intents, fate, other, work, half, spent, told, looked>>
  BY DEF PauseAll, threadVars, turnVars, Known
<1>2. /\ \A j \in Known : stops'[j] # "no"
      /\ \A j \in Keys : /\ InLine(j)' => InLine(j) \/ j \in {}
                         /\ stops'[j] # "no" => stops[j] # "no" \/ j \in Known
                         /\ stops'[j] = "owed" => stops[j] = "owed"
  BY <1>1, ComingFacts DEF ControlInv
<1>3. \A j \in Known : StopComing(j)'
  BY <1>2 DEF StopComing
<1>4. PausesGrow /\ AutoKept /\ RootsFresh /\ SubmitCalm /\ ResumeCalm /\ LetGo
  BY <1>1, <1>2, <1>3, MarkGrow
<1>5. NewcomersOwn'
  <2>1. \A j \in Known : asked'[j] = "pause"
    BY <1>1 DEF Notes, Known
  <2>2. Known' = Known
    BY <1>1, FlagsFacts DEF ControlInv
  <2> QED
    BY <2>1, <2>2 DEF NewcomersOwn
<1> QED
  BY <1>1, <1>4, <1>5, TurnsSame, SentFrame, PausedFrame, FollowFrame, SpentFrame DEF QuietInv, ControlInv

LEMMA SweepQuiet ==
    ASSUME ControlInv, ControlInv', QuietInv, NEW k \in Keys, Sweep(k)
    PROVE  QuietInv'
<1>1. /\ {k} \in SUBSET Known /\ Flags({k}, FALSE) /\ Fences({k}, FALSE) /\ Notes({k}, "pause")
      /\ stops' = [stops EXCEPT ![k] = "owed"]
      /\ UNCHANGED <<born, intents, fate, other, work, halting, half, spent, told, looked, askedAll>>
  BY DEF Sweep, threadVars, turnVars
<1>2. stops'[k] = "owed" /\ \A j \in Keys \ {k} : stops'[j] = stops[j]
  BY <1>1 DEF ControlInv, DeskInv, DeskTypeOK
<1>3. \A j \in Known : (StopComing(j) => StopComing(j)') /\ (j \in {k} => StopComing(j)')
  BY <1>1, <1>2, FlagsFacts DEF StopComing, Known, ControlInv
<1>4. PausesGrow /\ AutoKept /\ RootsFresh /\ SubmitCalm /\ ResumeCalm /\ LetGo
  <2>1. \A j \in Keys : InLine(j)' => InLine(j) \/ j \in {k}
    BY <1>2 DEF InLine
  <2> QED
    BY <1>1, <1>2, <1>3, <2>1, MarkGrow
<1> QED
  BY <1>1, <1>4, TurnsSame, NotesFacts, SentFrame, PausedFrame, FollowFrame, SpentFrame, NewcomersFrame
     DEF QuietInv, ControlInv

LEMMA InterruptedTurns ==
    ASSUME RootsInv, SentOnce, NEW k \in Keys, Interrupted(k)
    PROVE  /\ IntentsStand /\ TurnsCalm /\ IdleStays
           /\ UNCHANGED <<born, intents, half, spent, told, looked, askedAll>>
<1>1. /\ fate' = [i \in Inputs |-> IF i \in Running(RootOf(k)) THEN "over" ELSE fate[i]]
      /\ UNCHANGED <<born, intents, other, work, half, spent, told, looked, askedAll>>
  BY DEF Interrupted, threadVars
<1> QED
  BY <1>1 DEF IntentsStand, TurnsCalm, IdleStays, Idle, On, SentOnce

LEMMA InterruptedQuiet ==
    ASSUME ControlInv, ControlInv', QuietInv, NEW k \in Keys, Interrupted(k)
    PROVE  QuietInv'
<1>1. /\ IntentsStand /\ TurnsCalm /\ IdleStays /\ {k} \in SUBSET Known /\ {k} \in SUBSET Keys
      /\ UNCHANGED <<born, intents, half, spent, told, looked, askedAll>>
  BY InterruptedTurns DEF Interrupted, ControlInv, QuietInv
<1>2. CASE tasks[k].paused /\ ~BeingResumed(k)
  <2>1. UNCHANGED <<tasks, stops, halting, desk, asked>>
    BY <1>2 DEF Interrupted
  <2> QED
    BY <1>1, <2>1, TasksSame, DeskSame, CalmStep DEF ControlInv
<1>3. CASE ~(tasks[k].paused /\ ~BeingResumed(k)) /\ k = Main
  <2>1. /\ Flags({k}, FALSE) /\ Notes({k}, "pause") /\ Fences({}, TRUE) /\ halting' = TRUE /\ UNCHANGED stops
    BY <1>3 DEF Interrupted
  <2>2. \A j \in Known : StopComing(j)'
    BY <2>1 DEF StopComing
  <2>3. \A j \in Keys : InLine(j)' => InLine(j) \/ j \in {}
    BY <2>1 DEF InLine
  <2>4. PausesGrow /\ AutoKept /\ RootsFresh /\ SubmitCalm /\ ResumeCalm /\ LetGo
    BY <1>1, <2>1, <2>2, <2>3, MarkGrow
  <2> QED
    BY <1>1, <2>1, <2>4, NotesFacts, SentFrame, PausedFrame, FollowFrame, SpentFrame, NewcomersFrame
       DEF QuietInv, ControlInv
<1>4. CASE ~(tasks[k].paused /\ ~BeingResumed(k)) /\ k # Main
  <2>1. /\ Flags({k}, FALSE) /\ Notes({k}, "pause") /\ Fences({k}, FALSE) /\ Coming({k}, "due")
        /\ UNCHANGED halting
    BY <1>4 DEF Interrupted
  <2>2. /\ stops'[k] # "no"
        /\ \A j \in Keys : /\ stops[j] # "no" => stops'[j] # "no"
                           /\ InLine(j)' => InLine(j) \/ j \in {k}
                           /\ stops'[j] # "no" => stops[j] # "no" \/ j \in {k}
                           /\ stops'[j] = "owed" => stops[j] = "owed"
    BY <1>1, <2>1, ComingFacts DEF ControlInv
  <2>3. \A j \in Known : (StopComing(j) => StopComing(j)') /\ (j \in {k} => StopComing(j)')
    BY <1>1, <2>1, <2>2, FlagsFacts DEF StopComing, Known, ControlInv
  <2>4. PausesGrow /\ AutoKept /\ RootsFresh /\ SubmitCalm /\ ResumeCalm /\ LetGo
    BY <1>1, <2>1, <2>2, <2>3, MarkGrow
  <2> QED
    BY <1>1, <2>1, <2>4, NotesFacts, SentFrame, PausedFrame, FollowFrame, SpentFrame, NewcomersFrame
       DEF QuietInv, ControlInv
<1> QED
  BY <1>2, <1>3, <1>4

\* With an exhausted quota every automatic task that may run is marked.
LEMMA ReportQuiet ==
    ASSUME ControlInv, ControlInv', QuietInv, NEW answer \in Answers, Report(answer)
    PROVE  QuietInv'
<1> DEFINE keys == ToMark(spent')
<1>1. /\ keys \in SUBSET Known /\ Flags(keys, TRUE) /\ Fences(keys, FALSE) /\ Notes(keys, "pause")
      /\ UNCHANGED <<born, intents, fate, other, work, stops, halting, half, askedAll>>
  BY MarkedKnown DEF Report, threadVars, turnVars
<1>2. spent' = (told' = "spent")
  BY DEF Report, Recorded, Answers, QuietInv, SpentStops
<1>3. spent' => keys = Marked
  BY DEF ToMark
<1> HIDE DEF keys
<1>4. /\ Known' = Known
      /\ \A k \in Known : /\ tasks'[k].auto = tasks[k].auto
                          /\ tasks[k].paused => tasks'[k].paused
                          /\ tasks[k].owed => tasks'[k].owed
      /\ \A k \in keys : tasks'[k].owed
  BY <1>1, FlagsFacts DEF ControlInv
<1>5. \A j \in Known : (StopComing(j) => StopComing(j)') /\ (j \in keys => StopComing(j)')
  BY <1>1, <1>4 DEF StopComing
<1>6. PausesGrow /\ AutoKept /\ RootsFresh /\ SubmitCalm /\ ResumeCalm /\ LetGo
  <2>1. \A j \in Keys : InLine(j)' => InLine(j) \/ j \in keys
    BY <1>1 DEF InLine
  <2> QED
    BY <1>1, <1>5, <2>1, MarkGrow
<1>7. SpentStops'
  <2>1. ASSUME spent', NEW k \in Known', tasks'[k].auto
        PROVE  tasks'[k].owed \/ tasks'[k].paused
    BY <1>3, <1>4, <2>1 DEF Marked
  <2>2. ASSUME Resumes("last")', spent', tasks'[desk'.key].auto
        PROVE  StopComing(desk.key)'
    <3>1. desk.op = "resume" /\ desk.at = "last" /\ desk'.key = desk.key
      BY <1>6, <2>2 DEF ResumeCalm, Resumes
    <3>2. desk.key \in Known
      BY <3>1 DEF ControlInv, DeskInv, DeskFounded, Resumes
    <3>3. tasks'[desk.key].owed
      BY <1>3, <1>4, <2>2, <3>1, <3>2 DEF Marked, BeingResumed
    <3> QED
      BY <3>1, <3>3 DEF StopComing
  <2> QED
    BY <1>2, <2>1, <2>2 DEF SpentStops
<1> QED
  BY <1>1, <1>6, <1>7, TurnsSame, NotesFacts, SentFrame, PausedFrame, FollowFrame, NewcomersFrame
     DEF QuietInv, ControlInv

\* The marks that a check makes.
LEMMA ChecksMark ==
    ASSUME ControlInv, Flags(ToMark(spent), TRUE), UNCHANGED <<born, stops, halting>>
    PROVE  /\ PausesGrow /\ AutoKept /\ RootsFresh /\ Known' = Known
           /\ \A k \in Known : tasks'[k].root = tasks[k].root
           /\ \A k \in Known : spent /\ tasks[k].auto /\ BeingResumed(k) => tasks'[k].owed
<1> DEFINE keys == ToMark(spent)
<1>1. keys \in SUBSET Known /\ (spent => keys = Marked)
  BY MarkedKnown DEF ToMark
<1> HIDE DEF keys
<1>2. /\ Known' = Known
      /\ \A k \in Known : tasks'[k].root = tasks[k].root /\ (tasks[k].owed => tasks'[k].owed)
      /\ \A k \in keys : tasks'[k].owed
  BY <1>1, FlagsFacts DEF ControlInv, keys
<1>3. \A j \in Known : (StopComing(j) => StopComing(j)') /\ (j \in keys => StopComing(j)')
  BY <1>2 DEF StopComing
<1>4. PausesGrow /\ AutoKept /\ RootsFresh
  BY <1>1, <1>3, MarkFlags DEF keys
<1> QED
  BY <1>1, <1>2, <1>4 DEF Marked

\* A resume is given up after the release only for a pause, whose stop is still to come.
LEMMA RejectedQuiet ==
    ASSUME ControlInv, ControlInv', QuietInv, ResumeRejected
    PROVE  QuietInv'
<1>1. /\ desk.op = "resume" /\ Rejects /\ desk' = Free
      /\ Flags(ToMark(spent), TRUE) /\ Notes(ToMark(spent), "pause")
      /\ UNCHANGED <<born, intents, fate, other, work, stops, halting, half, spent, told, looked, askedAll>>
  BY DEF ResumeRejected, Checks, Quits, threadVars, turnVars
<1>2. PausesGrow /\ AutoKept /\ RootsFresh /\ \A k \in Known : spent /\ tasks[k].auto /\ BeingResumed(k) => tasks'[k].owed
  BY <1>1, ChecksMark
<1>3. SubmitCalm /\ ResumeCalm
  BY <1>1 DEF SubmitCalm, ResumeCalm, Submits, Free
<1>4. LetGo
  <2> SUFFICES ASSUME NEW k \in Known, Releasing(k)
               PROVE  StopComing(k)'
    BY DEF LetGo
  <2>1. Resumes("last") /\ desk.key = k
    BY DEF Releasing
  <2>2. CASE Superseded
    BY <2>1, <2>2, <1>2 DEF QuietInv, StopsFollow, PausesGrow
  <2>3. CASE spent /\ tasks[k].auto
    BY <1>1, <1>2, <2>1, <2>3 DEF BeingResumed, StopComing
  <2> QED
    BY <1>1, <2>1, <2>2, <2>3 DEF Rejects
<1> QED
  BY <1>1, <1>2, <1>3, <1>4, TurnsSame, NotesFacts, SentFrame, PausedFrame, FollowFrame, SpentFrame, NewcomersFrame
     DEF QuietInv, ControlInv

\* Only the root of the task itself goes on when its resume releases it.
LEMMA ReleasedIdle ==
    ASSUME ControlInv, SentOnce, desk.key \in Known, Released(RootOf(desk.key)), UNCHANGED <<intents, fate, other>>
    PROVE  /\ IntentsStand /\ TurnsCalm
           /\ \A k \in Known \ {desk.key} : \A r \in Roots : r = RootOf(k) /\ Idle(r) => Idle(r)'
<1>1. PICK q \in Roots : q = RootOf(desk.key) /\ q \in 1..born /\ born \in Nat
  BY KnownFacts DEF ControlInv
<1>2. \A r \in Roots \ {q} : work'[r] = work[r]
  BY <1>1 DEF Released, ControlInv, RootsInv, RootsTypeOK
<1>3. \A k \in Known \ {desk.key} : RootOf(k) # q
  BY <1>1, KnownFacts DEF ControlInv, RootsInv, RootsOwned
<1>4. ~(q > born)
  BY <1>1
<1> QED
  BY <1>2, <1>3, <1>4 DEF IntentsStand, TurnsCalm, Idle, On, SentOnce

LEMMA ReleasesQuiet ==
    ASSUME ControlInv, ControlInv', QuietInv, ResumeReleases
    PROVE  QuietInv'
<1>1. /\ desk \in Resuming /\ desk.op = "resume" /\ desk.at = "native" /\ desk.key \in Known /\ ~Rejects
      /\ Released(RootOf(desk.key)) /\ Flags(ToMark(spent), TRUE) /\ Notes(ToMark(spent), "pause") /\ Marking("last")
      /\ UNCHANGED <<born, intents, fate, other, stops, halting, half, spent, told, looked, askedAll>>
  <2>1. Resumes("native") /\ ~Rejects /\ Checks
    BY DEF ResumeReleases
  <2>2. desk \in Resuming /\ desk.op = "resume" /\ desk.at = "native" /\ desk.key \in Known
    BY <2>1 DEF Resumes, ControlInv, DeskInv, DeskTypeOK, DeskFounded, Submitting, Free
  <2> QED
    BY <2>1, <2>2 DEF ResumeReleases, Checks, threadVars
<1>2. ToMark(spent) \in SUBSET Keys
  BY MarkedKnown DEF Known
<1>3. desk'.op = "resume" /\ desk'.at = "last" /\ desk'.key = desk.key
      /\ desk'.void = desk.void /\ desk'.stale = desk.stale \cup ToMark(spent)
  <2> DEFINE stale == desk.stale \cup ToMark(spent)
             u == With(desk, "stale", stale)
  <2>1. desk' = With(u, "at", "last") /\ stale \in SUBSET Keys
    BY <1>1, <1>2, ResumeWith DEF Marking
  <2> HIDE DEF stale
  <2>2. u.key = desk.key /\ u.void = desk.void /\ u.stale = stale /\ u \in Resuming
    BY <1>1, <2>1, ResumeWith
  <2> HIDE DEF u
  <2>3. desk'.op = "resume" /\ desk'.at = "last" /\ desk'.key = desk.key
        /\ desk'.void = desk.void /\ desk'.stale = stale
    BY <2>1, <2>2, ResumeWith
  <2> QED
    BY <2>3 DEF stale
<1>4. PausesGrow /\ AutoKept /\ RootsFresh /\ Known' = Known
  BY <1>1, ChecksMark
<1>5. SubmitCalm /\ LetGo
  BY <1>1, <1>3 DEF SubmitCalm, LetGo, Submits, Releasing, Resumes
<1>6. IntentsStand /\ TurnsCalm /\ IdleStays
  <2>1. \A k \in Known \ half' : ~Releasing(k)' => k # desk.key
    BY <1>3 DEF Releasing, Resumes
  <2> QED
    BY <1>1, <2>1, ReleasedIdle DEF IdleStays, QuietInv
<1>7. StopsFollow'
  <2>1. ~Superseded'
    BY <1>1, <1>3 DEF Superseded, Rejects, ToMark, Marked
  <2>2. ~InLine(desk.key)'
    BY <1>1, <1>3 DEF InLine, QuietInv, StopsFollow, Rejects
  <2>3. \A k \in Keys : stops'[k] # "no" => k \in Known'
    BY <1>1, <1>4 DEF QuietInv, StopsFollow
  <2>4. \A k \in Known' : stops'[k] = "owed" => tasks'[k].paused
    BY <1>1, <1>4 DEF QuietInv, StopsFollow, PausesGrow
  <2> QED
    BY <2>1, <2>2, <2>3, <2>4 DEF StopsFollow
<1>8. SpentStops'
  <2>1. ~(spent /\ tasks'[desk.key].auto)
    BY <1>1, <1>4 DEF Rejects, AutoKept
  <2>2. \A k \in Known : looked /\ spent /\ tasks'[k].auto => tasks'[k].owed \/ tasks'[k].paused
    BY <1>4 DEF QuietInv, SpentStops, PausesGrow, AutoKept
  <2> QED
    BY <1>1, <1>3, <1>4, <2>1, <2>2 DEF QuietInv, SpentStops
<1> QED
  BY <1>1, <1>4, <1>5, <1>6, <1>7, <1>8, NotesFacts, SentFrame, PausedFrame, NewcomersFrame DEF QuietInv, ControlInv

LEMMA FailsQuiet ==
    ASSUME ControlInv, ControlInv', QuietInv, ResumeFails
    PROVE  QuietInv'
<1>1. /\ desk.op = "resume" /\ desk.key \in Known /\ desk' = Free
      /\ UNCHANGED <<tasks, born, intents, fate, other, stops, halting, spent, told, looked, asked, askedAll>>
  BY DEF ResumeFails, Resumes, Quits, runtimeVars, threadVars, ControlInv, DeskInv, DeskFounded
<1>2. FlagsSame /\ RootsFresh
  BY <1>1, TasksSame DEF ControlInv
<1>3. SubmitCalm /\ ResumeCalm
  BY <1>1 DEF SubmitCalm, ResumeCalm, Submits, Free
<1>4. half \subseteq half' /\ IntentsStand /\ TurnsCalm /\ IdleStays /\ LetGo
  <2>1. CASE desk.at = "native" /\ UNCHANGED <<work, half>>
    BY <1>1, <2>1, TurnsSame DEF LetGo, Releasing, Resumes, QuietInv
  <2>2. CASE UNCHANGED work /\ half' = half \cup {desk.key}
    BY <1>1, <2>2, TurnsSame DEF LetGo, Releasing, QuietInv
  <2>3. CASE Released(RootOf(desk.key)) /\ half' = half \cup {desk.key}
    BY <1>1, <2>3, ReleasedIdle DEF LetGo, Releasing, IdleStays, QuietInv
  <2> QED
    BY <2>1, <2>2, <2>3 DEF ResumeFails, Resumes
<1> QED
  BY <1>1, <1>2, <1>3, <1>4, CalmGrow, SentFrame, PausedFrame, FollowFrame, SpentFrame, NewcomersFrame
     DEF QuietInv, ControlInv

\* The task that runs again is not paused, has no stop in line, and is not one that a spent quota forbids.
LEMMA EndsQuiet ==
    ASSUME ControlInv, ControlInv', QuietInv, ResumeEnds
    PROVE  QuietInv'
<1> DEFINE k == desk.key
           keys == ToMark(spent)
           flagged == Flagged(keys, TRUE)
<1>1. /\ desk.op = "resume" /\ desk.at = "last" /\ k \in Known /\ ~Rejects
      /\ tasks' = [flagged EXCEPT ![k] = With(@, "paused", FALSE)]
      /\ Notes(keys, "pause") /\ half' = half \ {k}
      /\ UNCHANGED <<born, intents, fate, other, work, stops, halting, spent, told, looked, askedAll>>
  BY DEF ResumeEnds, Resumes, threadVars, turnVars, ControlInv, DeskInv, DeskFounded
<1>2. \/ desk' = Free
      \/ \E j \in desk.todo : ~InLine(j) /\ desk'.op = "resume" /\ desk'.at = "lock" /\ desk'.key = j
  BY DEF ResumeEnds, Quits
<1>3. keys \in SUBSET Known /\ keys \in SUBSET Keys /\ k \in Keys /\ k \notin keys
  BY <1>1, MarkedKnown DEF Rejects, ToMark, Marked, Known
<1>4. /\ flagged \in [Keys -> Task \cup {None}]
      /\ \A j \in Keys \ keys : flagged[j] = tasks[j]
      /\ \A j \in keys : /\ flagged[j] \in Task /\ flagged[j].paused /\ flagged[j].root = tasks[j].root
                         /\ flagged[j].auto = tasks[j].auto
  <2>1. RootsInv
    BY DEF ControlInv
  <2> HIDE DEF keys, k
  <2> QED
    BY <1>3, <2>1, FlaggedKeeps
<1>5. \A j \in keys : flagged[j].owed
  <2>1. \A j \in keys : tasks[j] \in Task /\ flagged[j] = With(With(tasks[j], "paused", TRUE), "owed", TRUE)
    BY <1>3, KnownFacts DEF Flagged, ControlInv
  <2> QED
    BY <2>1 DEF With, Task
<1> HIDE DEF keys, flagged, k
<1>6. LET u == With(tasks[k], "paused", FALSE)
      IN  u \in Task /\ ~u.paused /\ u.root = tasks[k].root /\ u.auto = tasks[k].auto /\ u.owed = tasks[k].owed
  <2>1. tasks[k] \in Task
    BY <1>1, KnownFacts DEF ControlInv
  <2> QED
    BY <2>1 DEF With, Task
<1>7. /\ tasks'[k] \in Task /\ ~tasks'[k].paused /\ tasks'[k].root = tasks[k].root
      /\ tasks'[k].auto = tasks[k].auto /\ tasks'[k].owed = tasks[k].owed
      /\ \A j \in Keys \ {k} : tasks'[j] = flagged[j]
  BY <1>1, <1>3, <1>4, <1>6
<1>8. /\ Known' = Known
      /\ \A j \in Known : tasks'[j].root = tasks[j].root /\ tasks'[j].auto = tasks[j].auto
      /\ \A j \in Known \ {k} : tasks'[j] = tasks[j] \/ (tasks'[j].paused /\ tasks'[j].owed)
  <2>1. \A j \in Keys \ {k} : j \notin keys => tasks'[j] = tasks[j]
    BY <1>4, <1>7
  <2>2. \A j \in keys : /\ tasks'[j] \in Task /\ tasks'[j].paused /\ tasks'[j].owed
                        /\ tasks'[j].root = tasks[j].root /\ tasks'[j].auto = tasks[j].auto
    BY <1>3, <1>4, <1>5, <1>7
  <2>3. Known' = Known
    BY <1>1, <1>3, <1>7, <2>1, <2>2, NoneAssumption DEF Known
  <2> QED
    BY <1>7, <2>1, <2>2, <2>3 DEF Known
<1>9. RootsFresh /\ SubmitCalm
  <2>1. born \in Nat
    BY KnownFacts DEF ControlInv
  <2>2. SubmitCalm
    BY <1>1, <1>2 DEF SubmitCalm, Submits, Free
  <2>3. born' = born /\ Known' = Known /\ \A j \in Known : tasks'[j].root = tasks[j].root
    BY <1>1, <1>8
  <2> QED
    BY <2>1, <2>2, <2>3 DEF RootsFresh
<1>10. IntentsStand /\ TurnsCalm
  BY <1>1, TurnsSame DEF QuietInv
<1>11. PausedIdle'
  <2> SUFFICES ASSUME NEW j \in Known', j \notin half', tasks'[j].paused, ~Releasing(j)', OnTime(RootOf(j))'
               PROVE  StopComing(j)' \/ Idle(RootOf(j))'
    BY DEF PausedIdle, PausedCalm
  <2>1. j \in Known \ {k} /\ j \notin half
    BY <1>1, <1>7, <1>8
  <2>2. CASE tasks'[j].owed
    BY <2>2 DEF StopComing
  <2>3. CASE tasks'[j] = tasks[j]
    <3>1. RootOf(j)' = RootOf(j) /\ ~Releasing(j) /\ tasks[j].paused
      BY <2>1, <2>3 DEF RootOf, Releasing, k
    <3>2. OnTime(RootOf(j)) /\ (Idle(RootOf(j)) => Idle(RootOf(j))')
      BY <1>1, <3>1 DEF OnTime, Idle, On
    <3> QED
      BY <1>1, <2>1, <2>3, <3>1, <3>2 DEF QuietInv, PausedIdle, PausedCalm, StopComing
  <2> QED
    BY <1>8, <2>1, <2>2, <2>3
<1>12. StopsFollow'
  <2>1. ~InLine(k)
    BY <1>1 DEF QuietInv, StopsFollow, Rejects, k
  <2>2. \A j \in Known : stops'[j] = "owed" => tasks'[j].paused
    BY <1>1, <1>8, <2>1 DEF QuietInv, StopsFollow, InLine
  <2>3. desk'.op = "resume" => desk'.at = "lock" /\ ~InLine(desk.key)'
    BY <1>1, <1>2 DEF InLine, Free
  <2> QED
    BY <1>1, <1>8, <2>2, <2>3 DEF QuietInv, StopsFollow, Resumes
<1>13. SpentStops'
  <2>1. ~(spent /\ tasks[k].auto)
    BY <1>1 DEF Rejects, k
  <2>2. \A j \in Known : looked /\ spent /\ tasks'[j].auto => tasks'[j].owed \/ tasks'[j].paused
    BY <1>8, <2>1 DEF QuietInv, SpentStops
  <2>3. ~Resumes("last")'
    BY <1>2 DEF Resumes, Free
  <2> QED
    BY <1>1, <1>8, <2>2, <2>3 DEF QuietInv, SpentStops
<1> QED
  BY <1>1, <1>9, <1>10, <1>11, <1>12, <1>13, NotesFacts, SentFrame, NewcomersFrame DEF QuietInv, ControlInv

-----------------------------------------------------------------------------
(* Steps that stop a task, send an input, or answer one. *)

\* What was sent in time to the root of a task is the input of the submit that holds its lock.
LEMMA StoppedIdle ==
    ASSUME ControlInv, SentOnce, NEW k \in Known, InputFree(k), StopsTrees({RootOf(k)}), UNCHANGED intents
    PROVE  OnTime(RootOf(k)) => \A r \in Roots : r = RootOf(k) => Idle(r)'
<1> SUFFICES ASSUME OnTime(RootOf(k)), NEW r \in Roots, r = RootOf(k)
             PROVE  Idle(r)'
  OBVIOUS
<1>1. other'[r] = "none" /\ work'[r] # "free"
  BY DEF StopsTrees
<1>2. ASSUME NEW i \in On(r)
      PROVE  fate'[i] \notin {"wire", "running"}
  <2>1. i \in Inputs /\ intents[i] # None /\ intents[i].root = r /\ ~intents[i].late
    BY DEF On, OnTime
  <2>2. fate[i] # "wire"
    <3>1. SUFFICES ASSUME fate[i] = "wire"
                   PROVE  FALSE
      OBVIOUS
    <3>2. Submits("answer") /\ desk.input = i /\ desk.key \in Known /\ intents[desk.input].root = tasks[desk.key].root
      BY <2>1, <3>1 DEF SentOnce
    <3>3. tasks[desk.key].root = tasks[k].root
      BY <2>1, <3>2, KnownFacts DEF ControlInv
    <3>4. desk.key = k
      BY <3>2, <3>3 DEF ControlInv, RootsInv, RootsOwned
    <3> QED
      BY <3>2, <3>4 DEF InputFree, Submits
  <2>3. fate'[i] = IF fate[i] = "running" THEN "over" ELSE fate[i]
    BY <2>1 DEF StopsTrees, Running
  <2> QED
    BY <2>2, <2>3
<1> QED
  BY <1>1, <1>2 DEF Idle, On

LEMMA StopsCalm ==
    ASSUME SentOnce, NEW stopped, StopsTrees(stopped), UNCHANGED intents
    PROVE  IntentsStand /\ TurnsCalm /\ \A r \in Roots : Idle(r) => Idle(r)'
BY DEF StopsTrees, IntentsStand, TurnsCalm, Idle, On, SentOnce

LEMMA StopQuiet ==
    ASSUME ControlInv, ControlInv', QuietInv, NEW k \in Keys, StopDone(k)
    PROVE  QuietInv'
<1>1. /\ k \in Known /\ stops[k] # "no" /\ InputFree(k) /\ StopsTrees({RootOf(k)})
      /\ Set(k, "owed", tasks[k].owed /\ stops[k] # "owed")
      /\ stops' = [stops EXCEPT ![k] = "no"] /\ half' = half \ {k}
      /\ UNCHANGED <<intents, born, desk, halting, spent, told, looked, asked, askedAll>>
  BY DEF StopDone
<1>2. stops'[k] = "no" /\ \A j \in Keys \ {k} : stops'[j] = stops[j]
  BY <1>1 DEF ControlInv, DeskInv, DeskTypeOK
<1>3. /\ tasks[k] \in Task /\ (tasks[k].owed /\ stops[k] # "owed") \in BOOLEAN
      /\ tasks \in [Keys -> Task \cup {None}] /\ born \in Nat
  BY <1>1, KnownFacts DEF ControlInv, RootsInv, RootsTypeOK
<1>4. LET u == With(tasks[k], "owed", tasks[k].owed /\ stops[k] # "owed")
      IN  u \in Task /\ u.root = tasks[k].root /\ u.paused = tasks[k].paused /\ u.auto = tasks[k].auto
          /\ u.owed = (tasks[k].owed /\ stops[k] # "owed")
  BY <1>3 DEF With, Task
<1>5. /\ tasks'[k] \in Task /\ tasks'[k].root = tasks[k].root /\ tasks'[k].paused = tasks[k].paused
      /\ tasks'[k].auto = tasks[k].auto /\ tasks'[k].owed = (tasks[k].owed /\ stops[k] # "owed")
      /\ \A j \in Keys \ {k} : tasks'[j] = tasks[j]
  BY <1>1, <1>3, <1>4 DEF Set
<1>6. Known' = Known /\ \A j \in Known : tasks'[j].root = tasks[j].root /\ tasks'[j].paused = tasks[j].paused
                                        /\ tasks'[j].auto = tasks[j].auto
  BY <1>1, <1>5, NoneAssumption DEF Known
<1>7. RootsFresh
  BY <1>1, <1>3, <1>6 DEF RootsFresh
<1>8. IntentsStand /\ TurnsCalm /\ \A r \in Roots : Idle(r) => Idle(r)'
  BY <1>1, StopsCalm DEF QuietInv
<1>9. SubmitCalm
  BY <1>1 DEF SubmitCalm, Submits
<1>10. \A j \in Known \ {k} : StopComing(j)' = StopComing(j)
  BY <1>1, <1>2, <1>5 DEF StopComing, Known
<1>11. PausedIdle'
  <2> SUFFICES ASSUME NEW j \in Known', j \notin half', tasks'[j].paused, ~Releasing(j)', OnTime(RootOf(j))'
               PROVE  StopComing(j)' \/ Idle(RootOf(j))'
    BY DEF PausedIdle, PausedCalm
  <2>1. PICK r \in Roots : r = RootOf(j)
    BY <1>6, KnownFacts DEF ControlInv
  <2>2. RootOf(j)' = r /\ OnTime(RootOf(j)) /\ ~Releasing(j) /\ tasks[j].paused /\ j \in Known
    BY <1>1, <1>6, <2>1 DEF RootOf, OnTime, On, Releasing, Resumes, Known
  <2>3. CASE j = k
    <3>1. Idle(r)'
      BY <1>1, <2>1, <2>2, <2>3, StoppedIdle DEF QuietInv
    <3> QED
      BY <2>2, <3>1
  <2>4. CASE j # k
    <3>1. StopComing(j) \/ Idle(r)
      BY <1>1, <2>1, <2>2, <2>4 DEF QuietInv, PausedIdle, PausedCalm
    <3>2. StopComing(j)' \/ Idle(r)'
      BY <1>8, <1>10, <2>2, <2>4, <3>1
    <3> QED
      BY <2>2, <3>2
  <2> QED
    BY <2>3, <2>4
<1>12. desk.op # "free" => desk.key # k
  BY <1>1 DEF InputFree
<1>13. ASSUME Resumes("last"), StopComing(desk.key)
       PROVE  StopComing(desk.key)'
  <2>1. desk.key \in Known \ {k}
    BY <1>12, <1>13 DEF Resumes, ControlInv, DeskInv, DeskFounded
  <2>2. ASSUME NEW j \in Known \ {k}, j = desk.key
        PROVE  StopComing(desk.key)'
    BY <1>1, <1>10, <1>13, <2>2 DEF StopComing
  <2> QED
    BY <2>1, <2>2
<1>14. StopsFollow'
  <2>1. Resumes("last")' /\ Superseded' => StopComing(desk.key)'
    BY <1>1, <1>13 DEF QuietInv, StopsFollow, Resumes, Superseded
  <2>2. desk'.op = "resume" /\ InLine(desk.key)' => Superseded'
    <3>1. desk.op = "resume" => desk.key \in Keys \ {k}
      BY <1>12, ResumeWith DEF ControlInv, DeskInv, DeskTypeOK, Submitting, Free
    <3> QED
      BY <1>1, <1>2, <3>1 DEF QuietInv, StopsFollow, InLine, Superseded
  <2>3. \A j \in Keys : stops'[j] # "no" => j \in Known'
    BY <1>2, <1>6 DEF QuietInv, StopsFollow
  <2>4. \A j \in Known' : stops'[j] = "owed" => tasks'[j].paused
    BY <1>2, <1>6 DEF QuietInv, StopsFollow, Known
  <2> QED
    BY <2>1, <2>2, <2>3, <2>4 DEF StopsFollow
<1>15. SpentStops'
  <2>1. \A j \in Known' : looked /\ spent /\ tasks'[j].auto => tasks'[j].owed \/ tasks'[j].paused
    <3>1. stops[k] = "owed" => tasks[k].paused
      BY <1>1 DEF QuietInv, StopsFollow
    <3> QED
      BY <1>1, <1>5, <1>6, <3>1 DEF QuietInv, SpentStops, Known
  <2>2. Resumes("last")' /\ looked /\ spent /\ tasks'[desk'.key].auto => StopComing(desk.key)'
    <3>1. Resumes("last") => desk.key \in Known
      BY DEF ControlInv, DeskInv, DeskFounded
    <3> QED
      BY <1>1, <1>6, <1>13, <3>1 DEF QuietInv, SpentStops, Resumes
  <2> QED
    BY <1>1, <2>1, <2>2 DEF QuietInv, SpentStops
<1> QED
  BY <1>1, <1>7, <1>8, <1>9, <1>11, <1>14, <1>15, SentFrame, NewcomersFrame DEF QuietInv, ControlInv

\* An input goes out only to a task that is not paused, and an automatic one only while nothing forbids it.
LEMMA SendsQuiet ==
    ASSUME ControlInv, ControlInv', QuietInv, SubmitSends
    PROVE  QuietInv'
<1> DEFINE k == desk.key
           i == desk.input
           r == RootOf(k)
           new == [root |-> r, auto |-> desk.auto, late |-> FALSE, status |-> "sending"]
<1>1. desk \in Submitting /\ desk.op = "submit" /\ desk.at = "read" /\ k \in Known /\ i \in Inputs
      /\ desk.auto \in BOOLEAN
  <2>1. Submits("read")
    BY DEF SubmitSends
  <2>2. desk \in Submitting /\ k \in Known
    BY <2>1 DEF Submits, ControlInv, DeskInv, DeskTypeOK, DeskFounded, Resuming, Free
  <2> QED
    BY <2>1, <2>2, SubmitWith DEF Submits
<1>2. r \in Roots /\ r \in 1..born /\ born \in Nat /\ r = tasks[k].root /\ tasks[k] \in Task
  BY <1>1, KnownFacts DEF ControlInv
<1>3. intents[i] = None
  BY <1>1 DEF QuietInv, SentOnce
<1>4. /\ intents' = [intents EXCEPT ![i] = new] /\ Set(k, "auto", desk.auto \/ tasks[k].auto)
      /\ desk' = With(desk, "at", "answer")
      /\ UNCHANGED <<born, other, autonomy, spent, stops, halting, half, told, looked, asked, askedAll>>
      /\ ~tasks[k].paused /\ (desk.auto => ~autonomy /\ ~spent)
  BY DEF SubmitSends, Steps, threadVars, historyVars, Deferred
<1>5. /\ \A j \in Inputs \ {i} : fate'[j] = fate[j]
      /\ \A q \in Roots \ {r} : work'[q] = work[q]
  BY <1>1, <1>2 DEF SubmitSends, ControlInv, RootsInv, RootsTypeOK
<1>6. new \in Intent
  BY <1>1, <1>2 DEF Intent
<1>7. new.root = r /\ new.auto = desk.auto
  OBVIOUS
<1>8. desk'.op = "submit" /\ desk'.at = "answer" /\ desk'.key = k /\ desk'.input = i
  BY <1>1, <1>4, SubmitWith
<1> HIDE DEF k, i, r, new
<1>9. /\ intents'[i] = new /\ new # None /\ \A j \in Inputs \ {i} : intents'[j] = intents[j]
  BY <1>1, <1>4, <1>6, NoneAssumption DEF ControlInv, RootsInv, RootsTypeOK
<1>10. LET u == With(tasks[k], "auto", desk.auto \/ tasks[k].auto)
       IN  u \in Task /\ u.root = tasks[k].root /\ u.paused = tasks[k].paused /\ u.owed = tasks[k].owed
           /\ u.auto = (desk.auto \/ tasks[k].auto)
  BY <1>1, <1>2 DEF With, Task
<1>11. /\ tasks'[k] \in Task /\ tasks'[k].root = tasks[k].root /\ tasks'[k].paused = tasks[k].paused
       /\ tasks'[k].owed = tasks[k].owed /\ tasks'[k].auto = (desk.auto \/ tasks[k].auto)
       /\ \A j \in Keys \ {k} : tasks'[j] = tasks[j]
  BY <1>1, <1>4, <1>10 DEF Set, ControlInv, RootsInv, RootsTypeOK, Known
<1>12. Known' = Known /\ \A j \in Known : tasks'[j].root = tasks[j].root /\ tasks'[j].paused = tasks[j].paused
                                         /\ tasks'[j].owed = tasks[j].owed
  BY <1>1, <1>11, NoneAssumption DEF Known
<1>13. \A q : q # r => On(q)' = On(q)
  BY <1>3, <1>7, <1>9 DEF On
<1>14. \A j \in Known \ {k} : RootOf(j) # r /\ RootOf(j) \in Roots /\ RootOf(j)' = RootOf(j)
  BY <1>1, <1>2, <1>11, KnownFacts DEF ControlInv, RootsInv, RootsOwned, RootOf
<1>15. SentOnce'
  <2>1. desk'.key \in Known' /\ intents'[desk'.input].root = tasks'[desk'.key].root
    BY <1>1, <1>2, <1>7, <1>8, <1>9, <1>11, <1>12
  <2>2. ASSUME NEW j \in Inputs, fate'[j] = "wire", j # i
        PROVE  intents'[j].late
    BY <1>1, <1>5, <1>9, <2>2 DEF QuietInv, SentOnce, Submits
  <2>3. \A q \in Roots : q > born => other'[q] = "none" /\ work'[q] = "none"
    BY <1>2, <1>4, <1>5 DEF QuietInv, SentOnce
  <2> QED
    BY <1>4, <1>8, <2>1, <2>2, <2>3 DEF SentOnce, Submits
<1>16. PausedIdle'
  <2> SUFFICES ASSUME NEW j \in Known', j \notin half', tasks'[j].paused, OnTime(RootOf(j))'
               PROVE  StopComing(j)' \/ Idle(RootOf(j))'
    BY DEF PausedIdle, PausedCalm
  <2>1. j \in Known \ {k} /\ tasks[j].paused
    BY <1>4, <1>11, <1>12
  <2>2. PICK q \in Roots : q = RootOf(j) /\ q # r /\ RootOf(j)' = q
    BY <1>14, <2>1
  <2>3. \A n \in On(q) : n # i
    BY <1>3 DEF On
  <2>4. OnTime(RootOf(j))
    <3>1. On(q)' = On(q)
      BY <1>13, <2>2
    <3>2. \A n \in On(q) : intents'[n] = intents[n]
      BY <1>9, <2>3 DEF On
    <3>3. OnTime(q)'
      BY <2>2
    <3> QED
      BY <2>2, <3>1, <3>2, <3>3 DEF OnTime
  <2>5. Idle(q) => Idle(q)'
    <3>1. On(q)' = On(q)
      BY <1>13, <2>2
    <3>2. \A n \in On(q) : fate'[n] = fate[n]
      BY <1>5, <2>3 DEF On
    <3> QED
      BY <1>4, <1>5, <2>2, <3>1, <3>2 DEF Idle
  <2>6. ~Releasing(j)
    BY <1>1 DEF Releasing, Resumes
  <2>7. StopComing(j) \/ Idle(q)
    BY <1>4, <2>1, <2>2, <2>4, <2>6 DEF QuietInv, PausedIdle, PausedCalm
  <2>8. StopComing(j) => StopComing(j)'
    BY <1>4, <1>12, <2>1 DEF StopComing
  <2> QED
    BY <2>2, <2>5, <2>7, <2>8
<1>17. StopsFollow'
  BY <1>4, <1>8, <1>12 DEF QuietInv, StopsFollow, Resumes
<1>18. SpentStops'
  <2>1. \A j \in Known : looked /\ spent /\ tasks'[j].auto => tasks[j].auto
    BY <1>4, <1>11 DEF Known
  <2> QED
    BY <1>4, <1>8, <1>12, <2>1 DEF QuietInv, SpentStops, Resumes
<1>19. NewcomersOwn'
  <2> SUFFICES ASSUME askedAll = "pause", NEW j \in Known, asked[j] = "none", NEW n \in On(RootOf(j))'
               PROVE  ~intents'[n].auto
    BY <1>4, <1>12 DEF NewcomersOwn
  <2>1. ~desk.auto
    BY <1>4 DEF ControlInv, FlagsInv, FlagsHold
  <2>2. CASE n = i
    BY <1>7, <1>9, <2>1, <2>2
  <2>3. CASE n # i
    <3>1. RootOf(j)' = RootOf(j)
      BY <1>12 DEF RootOf, Known
    <3>2. n \in On(RootOf(j)) /\ intents'[n] = intents[n]
      BY <1>9, <2>3, <3>1 DEF On
    <3> QED
      BY <3>2 DEF QuietInv, NewcomersOwn
  <2> QED
    BY <2>2, <2>3
<1> QED
  BY <1>15, <1>16, <1>17, <1>18, <1>19 DEF QuietInv

LEMMA AnsweredQuiet ==
    ASSUME ControlInv, ControlInv', QuietInv, Acknowledged \/ Unanswered
    PROVE  QuietInv'
<1> DEFINE i == desk.input
<1>1. /\ Submits("answer") /\ desk' = Free /\ i \in Inputs /\ intents[i] # None /\ intents[i] \in Intent
      /\ UNCHANGED <<tasks, born, other, work, stops, halting, half, spent, told, looked, asked, askedAll>>
  <2>1. Submits("answer")
    BY DEF Acknowledged, Unanswered
  <2>2. i \in Inputs /\ intents[i] # None
    BY <2>1 DEF Submits, ControlInv, DeskInv, DeskTypeOK, DeskFounded, Submitting, Resuming, Free
  <2>3. intents[i] \in Intent
    BY <2>2 DEF ControlInv, RootsInv, RootsTypeOK
  <2> QED
    BY <2>1, <2>2, <2>3 DEF Acknowledged, Unanswered, Quits, threadVars, turnVars, historyVars
<1>2. PICK status \in Unresolved \cup {"ended"} :
        \/ /\ intents' = [intents EXCEPT ![i] = With(@, "status", status)]
           /\ fate' = fate /\ fate[i] # "wire"
        \/ /\ intents' = [intents EXCEPT ![i] = With(With(@, "status", status), "late", TRUE)]
           /\ fate' = fate \/ (fate' = [fate EXCEPT ![i] = "lost"] /\ fate[i] = "wire")
  BY DEF Acknowledged, Unanswered, Unresolved, turnVars
<1> HIDE DEF i
<1>3. /\ With(intents[i], "status", status) \in Intent
      /\ With(intents[i], "status", status).root = intents[i].root
      /\ With(intents[i], "status", status).auto = intents[i].auto
      /\ With(intents[i], "status", status).late = intents[i].late
      /\ With(With(intents[i], "status", status), "late", TRUE) \in Intent
      /\ With(With(intents[i], "status", status), "late", TRUE).late
      /\ With(With(intents[i], "status", status), "late", TRUE).root = intents[i].root
      /\ With(With(intents[i], "status", status), "late", TRUE).auto = intents[i].auto
  BY <1>1, <1>2, IntentWith
<1>4. /\ intents'[i] \in Intent /\ intents'[i].root = intents[i].root /\ intents'[i].auto = intents[i].auto
      /\ intents[i].late => intents'[i].late
      /\ fate'[i] = "wire" => intents'[i].late
      /\ \A j \in Inputs \ {i} : intents'[j] = intents[j] /\ fate'[j] = fate[j]
      /\ fate'[i] = fate[i] \/ fate'[i] = "lost"
  <2>1. intents \in [Inputs -> Intent \cup {None}] /\ DOMAIN fate = Inputs
    BY DEF ControlInv, RootsInv, RootsTypeOK
  <2>2. CASE /\ intents' = [intents EXCEPT ![i] = With(@, "status", status)]
             /\ fate' = fate /\ fate[i] # "wire"
    BY <1>1, <1>3, <2>1, <2>2
  <2>3. CASE /\ intents' = [intents EXCEPT ![i] = With(With(@, "status", status), "late", TRUE)]
             /\ fate' = fate \/ (fate' = [fate EXCEPT ![i] = "lost"] /\ fate[i] = "wire")
    <3>1. /\ intents'[i] = With(With(intents[i], "status", status), "late", TRUE)
          /\ \A j \in Inputs \ {i} : intents'[j] = intents[j]
      BY <1>1, <2>1, <2>3
    <3>2. (fate'[i] = fate[i] \/ fate'[i] = "lost") /\ \A j \in Inputs \ {i} : fate'[j] = fate[j]
      <4>1. CASE fate' = fate
        BY <4>1
      <4>2. CASE fate' = [fate EXCEPT ![i] = "lost"]
        BY <1>1, <2>1, <4>2
      <4> QED
        BY <2>3, <4>1, <4>2
    <3> QED
      BY <1>3, <3>1, <3>2
  <2> QED
    BY <1>2, <2>2, <2>3
<1>5. IntentsStand
  BY <1>1, <1>4, NoneAssumption DEF IntentsStand
<1>6. TurnsCalm /\ IdleStays
  <2>1. \A j \in Inputs : fate'[j] = fate[j] \/ fate'[j] = "lost"
    BY <1>4
  <2>2. \A r : On(r)' = On(r)
    BY <1>5, StandOn
  <2>3. \A r \in Roots : Idle(r) => Idle(r)'
    BY <1>1, <2>1, <2>2 DEF Idle, On
  <2> QED
    BY <1>1, <2>1, <2>3 DEF TurnsCalm, IdleStays, SentOnce, QuietInv
<1>7. FlagsSame /\ RootsFresh
  BY <1>1, TasksSame DEF ControlInv
<1>8. ResumeCalm /\ LetGo
  BY <1>1 DEF ResumeCalm, LetGo, Submits, Resumes, Releasing, Free
<1>9. SentOnce'
  <2>1. \A j \in Inputs : fate'[j] = "wire" => intents'[j].late
    BY <1>4 DEF QuietInv, SentOnce, i
  <2> QED
    BY <1>1, <2>1 DEF QuietInv, SentOnce, Submits, Free
<1> QED
  BY <1>1, <1>5, <1>6, <1>7, <1>8, <1>9, CalmGrow, PausedFrame, FollowFrame, SpentFrame, NewcomersFrame
     DEF QuietInv, ControlInv

-----------------------------------------------------------------------------
(* A restart, and the whole. *)

LEMMA RestartQuiet ==
    ASSUME ControlInv, ControlInv', QuietInv, Restart
    PROVE  QuietInv'
<1>1. /\ desk' = Free /\ stops' = [k \in Keys |-> "no"] /\ looked' = FALSE /\ half' = {}
      /\ UNCHANGED <<intents, asked, askedAll>>
      /\ fate' = [i \in Inputs |-> IF fate[i] = "wire" THEN "lost"
                                   ELSE IF fate[i] = "running" THEN "over" ELSE fate[i]]
      /\ other' = [r \in Roots |-> "none"]
      /\ work' = [r \in Roots |-> IF work[r] = "free" THEN "held" ELSE work[r]]
  BY DEF Restart, RootsRestart
<1>2. FlagsSame /\ RootsFresh
  <2>1. CASE UNCHANGED <<tasks, born>>
    BY <2>1, TasksSame DEF ControlInv
  <2>2. ASSUME NEW k \in Keys, Aliases(k, "pending")
        PROVE  FlagsSame /\ RootsFresh
    BY <2>2, AliasSame DEF ControlInv
  <2> QED
    BY <2>1, <2>2 DEF Restart, RootsRestart
<1>3. SentOnce'
  <2>1. \A i \in Inputs : fate'[i] # "wire"
    BY <1>1
  <2>2. \A r \in Roots : r > born' => other'[r] = "none" /\ work'[r] = "none"
    <3>1. born \in Nat /\ born' \in Nat /\ born <= born' /\ Roots \subseteq Nat
      BY <1>2, KnownFacts DEF RootsFresh, ControlInv, Roots
    <3> QED
      BY <1>1, <3>1 DEF QuietInv, SentOnce
  <2> QED
    BY <1>1, <2>1, <2>2 DEF SentOnce, Submits, Free
<1>4. PausedIdle'
  <2>1. ASSUME NEW k \in Known'
        PROVE  Idle(RootOf(k))'
    <3>1. RootOf(k)' \in Roots
      BY <2>1 DEF ControlInv, RootsInv, RootsTypeOK, RootOf, Known, Task
    <3>2. \A i \in Inputs : fate'[i] \notin {"wire", "running"}
      BY <1>1
    <3> QED
      BY <1>1, <3>1, <3>2 DEF Idle, On
  <2> QED
    BY <2>1 DEF PausedIdle, PausedCalm
<1>5. StopsFollow'
  BY <1>1 DEF StopsFollow, Resumes, Free, Known
<1>6. SpentStops'
  <2>1. spent' = (told' = "spent")
    BY DEF Restart, QuietInv, SpentStops
  <2> QED
    BY <1>1, <2>1 DEF SpentStops
<1>7. NewcomersOwn'
  <2>1. IntentsStand
    BY <1>1 DEF IntentsStand
  <2> QED
    BY <1>1, <1>2, <2>1, NewcomersFrame DEF QuietInv, ControlInv
<1> QED
  BY <1>3, <1>4, <1>5, <1>6, <1>7 DEF QuietInv

LEMMA InitQuiet ==
    ASSUME Init
    PROVE  QuietInv
<1>1. Known = {} /\ desk.op = "free"
  BY DEF Init, RootsInit, Known, Free
<1>2. SentOnce
  BY <1>1 DEF Init, RootsInit, SentOnce, Submits
<1>3. PausedIdle /\ StopsFollow /\ SpentStops /\ NewcomersOwn
  BY <1>1 DEF Init, PausedIdle, StopsFollow, SpentStops, NewcomersOwn, Resumes
<1> QED
  BY <1>2, <1>3 DEF QuietInv

LEMMA NextQuiet ==
    ASSUME ControlInv, ControlInv', QuietInv, [Next]_vars
    PROVE  QuietInv'
<1>1. CASE UNCHANGED vars
  <2>1. OnlyDesk /\ UNCHANGED <<desk, stops>>
    BY <1>1 DEF vars, OnlyDesk, deskVars
  <2> QED
    BY <2>1, DeskSame, DeskQuiet DEF ControlInv
<1>2. CASE (Native \/ Hears) /\ UNCHANGED <<deskVars, historyVars>>
  BY <1>2, NativeQuiet
<1>3. ASSUME NEW k \in Keys,
             Pause(k) \/ StopDone(k) \/ Interrupted(k) \/ Sweep(k)
      PROVE  QuietInv'
  BY <1>3, PauseQuiet, StopQuiet, InterruptedQuiet, SweepQuiet
<1>4. ASSUME NEW k \in Keys,
             Thread(k) \/ ThreadEnsured(k) \/ DeskEnsures(k) \/ EnsureGivesUp(k) \/ ProbeReads(k)
      PROVE  QuietInv'
  BY <1>4, ThreadQuiet, DeskEnsuresQuiet, ProbeQuiet
<1>5. ASSUME NEW k \in Keys, ResumeOne(k) \/ ResumeAll(k)
      PROVE  QuietInv'
  <2>1. PausedKeys \ {k} \in SUBSET Keys /\ {} \in SUBSET Keys
    BY DEF PausedKeys, Known
  <2> QED
    BY <1>5, <2>1, ResumeBeginsQuiet DEF ResumeOne, ResumeAll
<1>6. ASSUME NEW k \in Keys, NEW i \in Inputs, NEW auto \in BOOLEAN, SubmitBegins(k, i, auto)
      PROVE  QuietInv'
  BY <1>6, SubmitBeginsQuiet
<1>7. ASSUME NEW r \in 1..born, StrangerStarts(r) \/ GoalSet(r),
             UNCHANGED <<deskVars, told, looked, asked, askedAll, half>>
      PROVE  QuietInv'
  BY <1>7, OutsideQuiet
<1>8. CASE PauseAll \/ \E answer \in Answers : Report(answer)
  BY <1>8, PauseAllQuiet, ReportQuiet
<1>9. CASE DeskLocks \/ ProbeEnds \/ SubmitFails \/ SubmitDeferred \/ SubmitSends \/ Acknowledged \/ Unanswered
  BY <1>9, DeskLocksQuiet, ProbeQuiet, SubmitQuitsQuiet, SendsQuiet, AnsweredQuiet
<1>10. CASE ResumeAutonomy \/ ResumeReleases \/ ResumeRejected \/ ResumeFails \/ ResumeEnds \/ Restart
  BY <1>10, AutonomyQuiet, ReleasesQuiet, RejectedQuiet, FailsQuiet, EndsQuiet, RestartQuiet
<1> QED
  BY <1>1, <1>2, <1>3, <1>4, <1>5, <1>6, <1>7, <1>8, <1>9, <1>10 DEF Next

\* The invariants say what PausedIsQuiet promises of a task that works.
LEMMA QuietPaused ==
    ASSUME ControlInv, QuietInv
    PROVE  PausedIsQuiet
<1> SUFFICES ASSUME NEW k \in Known \ half, Works(k)
             PROVE  /\ tasks[k].paused /\ ~BeingResumed(k) => StopComing(k)
                    /\ looked /\ told = "spent" /\ tasks[k].auto => StopComing(k)
                    /\ askedAll = "pause" /\ asked[k] = "none" =>
                         \A i \in Running(RootOf(k)) : ~intents[i].auto
  BY DEF PausedIsQuiet
<1>1. OnTime(RootOf(k)) /\ ~Idle(RootOf(k))
  BY DEF Works, Idle, Running
<1>2. tasks[k].paused /\ ~Releasing(k) => StopComing(k)
  BY <1>1 DEF QuietInv, PausedIdle, PausedCalm
<1>3. Releasing(k) => BeingResumed(k)
  BY DEF Releasing, Resumes, BeingResumed
<1>4. looked /\ told = "spent" /\ tasks[k].auto => StopComing(k)
  <2>1. SUFFICES ASSUME looked, spent, tasks[k].auto
                 PROVE  StopComing(k)
    BY DEF QuietInv, SpentStops
  <2>2. tasks[k].owed \/ tasks[k].paused
    BY <2>1 DEF QuietInv, SpentStops
  <2>3. CASE Releasing(k)
    BY <2>1, <2>3 DEF QuietInv, SpentStops, Releasing
  <2> QED
    BY <1>2, <2>2, <2>3 DEF StopComing
<1>5. askedAll = "pause" /\ asked[k] = "none" => \A i \in Running(RootOf(k)) : ~intents[i].auto
  BY DEF QuietInv, NewcomersOwn, Running
<1> QED
  BY <1>2, <1>3, <1>4, <1>5

(***************************************************************************)
(* What was paused last stays paused, and nothing of the service goes on   *)
(* in it but until its stop, or while it is being resumed, for any number  *)
(* of tasks and calls, whatever is lost, refused or restarted on the way   *)
(* (pause, resume, _mark_resource_pauses, _stop_resource_paused_tasks).    *)
(***************************************************************************)
THEOREM PauseIsHeld == Spec => []PauseHolds
<1>1. Init => ControlInv /\ QuietInv
  BY InitControl, InitQuiet
<1>2. (ControlInv /\ QuietInv) /\ [Next]_vars => (ControlInv /\ QuietInv)'
  BY NextControl, NextQuiet
<1>3. ControlInv /\ QuietInv => PauseHolds
  BY QuietPaused DEF ControlInv, FlagsInv, PauseHolds
<1> QED
  BY <1>1, <1>2, <1>3, PTL DEF Spec
=============================================================================
