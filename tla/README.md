# Formal models of agent-alice

agent-alice runs a long-lived agent over a native Codex server: it keeps schedules, dispatches their
occurrences as inputs of Codex tasks, limits what a task may use, writes memory and survives restarts.
This directory holds TLA+ models of that program, written from the source under
`alice/src/alice_codex/`, the TLC configurations that check small instances of them, and theorems about
them that TLAPS checks for every value of their constants.

Seven systems are modelled, those in which a mistake does harm that cannot be taken back:

* the **dispatcher**: schedules, the durable ledger of occurrences and the leased poll that sends them;
* the **bounded task**: the record of what a task has used, and the service that charges, sends,
  reconciles and stops its inputs;
* **supervision and releases**: who starts, stops and replaces the service, and which code it runs;
* the **control plane**: the native threads of several tasks, which inputs are admitted, and what a
  pause, an interruption or an exhausted quota stops;
* the **heartbeat evidence**: what a heartbeat may wake its task for;
* the **token feed**: which native server used how many tokens for whom;
* **memory**: the events and summaries of a day, through crashes, replays and edits.

`PROJECT.json` lists the components, the runs, the mutants, the theorems, the hazards in the code, and
for each definition the lines of source it stands for.

## 1. The system

One service process (`service.py`) owns a native Codex server (`codex.py` over `rpc.py`), a SQLite
database (`store.py`) and a file `runtime.json`. A supervisor (`supervisor.py`) starts and restarts it.
Clients speak to it over a control socket (`control.py`). The service is one asyncio program: a handler
runs without interruption from one `await` to the next, and everything can happen in between. SQLite
transactions are atomic against other processes; `runtime.json` is replaced whole, after the
transaction it belongs to.

| component | state it keeps | operations | with whom |
|---|---|---|---|
| Schedule timing (`scheduler.py`) | none; functions of a schedule and two instants | `next_due`, `due_window` | used by the store |
| Dispatch store (`store.py`) | tables `jobs`, `events`, `lease`, the flag `autonomy_paused` | create, update, delete a job; acquire, renew, release the lease; materialise, claim, mark, defer, record a receipt | called by scheduler and service |
| Scheduler (`scheduler.py`) | the poll in progress | `poll`, `_deliver`, `_renew` | store below, service as its dispatcher |
| Task policy decision (`resources.py`) | none | `TaskPolicy.decide` over `TaskUsage` | store |
| Task policy record (`store.py`) | one JSON record for each task: limits, usage, attempt receipts, watermark of the clock | `set_task_policy`, `task_policy_status`, `admit_task_attempt`, `finish_task_attempt` | service |
| Task policy enforcement (`service.py`) | intents and tasks in `runtime.json`; locks and revisions in memory | `submit`, `reconcile`, `pause`, `resume`, the deadline stop, recovery at start | store, native server |
| Service control plane (`service.py`) | tasks and intents in `runtime.json`, pause flags, obligations to stop, locks and revisions in memory | `ensure_thread`, `submit`, `is_busy`, `pause`, `resume`, `refresh_resources`, `_mark_native_interrupt` | native server, resource ledger, store |
| Resource ledger (`resources.py`) | `resources.sqlite3`: quota blocks, token events and latest counters of each epoch, settlements | `record_rate_limits`, `can_dispatch`, `record_token_usage`, settlements | service |
| Resource epochs (`service.py`, `lifecycle.py`) | the epochs in `runtime.json`, the listener's buffer | prepare, bind, attach, abort; receive, flush, close | native server, resource ledger |
| Supervisor and process lifecycle (`supervisor.py`, `lifecycle.py`, `files.py`) | `bootstrap-state.json` (epoch, attempts, failed candidates, child), the locks `lifecycle.lock`, `bootstrap.lock`, `service.lock` | `run`, `attempt`, `terminate_child`, `clean_orphan`, `fallback`, `offline_maintenance` | launchd above, service process below |
| Releases (`releases.py`) | the pointer `current.json`, the candidates | `checked_current`, `activate`, `rollback`, `automatic_rollback` | supervisor, command line, `serve` |
| launchd and command line (`launchd.py`, `cli.py`) | the loaded label, `supervisor.json` | install, start, stop, uninstall, release switches | supervisor, control socket |
| Heartbeat evidence (`heartbeat.py`, `store.py`, `service.py`) | append-only history of receipts, the latest and the last known of them, what was consumed last | `record_heartbeat`, `heartbeat_record`; `observe_heartbeat`, `dispatch`, `submit`, `_watch_heartbeats` | sources configured on the host, scheduler's heartbeats |
| Memory and summaries (`memory.py`, `summary_partitions.py`, `summary_stream.py`, `calendar.py`) | originals and files of events, their index, frozen batches, plans, commit intents, receipts and outputs of units, coverage, before images | `append_event`, `prepare_summary`, `commit_summary`, `commit_node`, `next_nodes`, recovery | summary tasks, editors of the workspace |
| RPC and Codex client (`rpc.py`, `codex.py`), journal (`journal.py`) | pending requests, ring of events, ownership of threads | request, notifications, `stop_tree`, backfill | native server |
| Identity delivery (`identity.py`) | receipts of packets | deliver, confirm | native server |
| Installation of files, MCP, import, metrics, browser | files | sequential I/O | not to be modelled |

What is hard in this code, and what has to be right in spite of it:

* **Several process generations at one ledger.** A process that lost its lease may be anywhere in a
  poll. An occurrence must be sent at most once, never for a definition that is gone, and must not be
  left in the hands of a process that died.
* **Answers that never come.** `turn/start` and every dispatch may time out though the input was
  accepted, and its completion may be noticed before its acknowledgement.
* **Two durable writes.** The SQLite commit and `runtime.json` can be separated by a crash.
* **Clocks.** Downtime makes windows of several periods; the wall clock may be set back.
* **Other native clients.** Somebody else may start a turn in a task's thread at any moment, also while
  the service proves that everything has ended.
* **Processes that start each other.** launchd, the supervisor and the operator may start, stop and kill
  the service at any moment, any of them may be lost between two steps, and a native server that nobody
  remembers would go on working. The code may only be switched when nothing runs.
* **Awaits between a look and an act.** Capacity, pause flags and the root of a task are read, something is
  awaited, and input is sent. A pause must win against a resume that is under way, however often the
  resume awaits.
* **Requests that may be made once.** The initialization entry of a native root has no id; sent twice
  it is there twice.
* **News that comes early.** Counters of a thread arrive before anybody has said whose thread it is.
* **Many files for one commit.** A summary is an intent, receipts, outputs, an image of the file before
  and the file itself; the process may die between any two, and people edit the files.
* **Records that refuse themselves.** The store validates a task's record on each read; a legal
  sequence of calls that leaves a record it refuses would block every later operation on it.

The hazards are listed in `PROJECT.json`, each at its line, with the properties that would catch it.

## 2. Modules

### The dispatcher

| module | models |
|---|---|
| `DueWindow` | `next_due` and `due_window` over the instants of a schedule; integer arithmetic, no state |
| `DispatchStore` | every operation of the store on jobs, occurrences, the lease and the autonomy flag: one operator for each transaction, with its guards and the errors it raises |
| `Scheduler` | `Scheduler.poll` of each process generation, on top of `DispatchStore` (EXTENDS) |
| `OccurrenceLedger` | the abstract specification: what store and scheduler promise of one occurrence |
| `SchedulerProperties` | the properties, and the refinement mapping to `OccurrenceLedger` (INSTANCE ... WITH) |
| `MCScheduler` | schedules and symmetry for TLC |
| `SchedulerProofs` | theorems about windows, the store's operations and the types |
| `LedgerProofs` | theorems about occurrences: effects, hands, definitions, the refinement |

An occurrence (a row of `events`) is named by job, revision and first instant, which is what
`materialize_due` hashes into its id. `pc[o]` says where the poll of process `o` is:
`idle` → `materialize` → `list` → `next` → `claim` → `probe` (the await of `is_busy`) → `deliver` →
`sent` → back to `next`, and `release`, the `finally` of the poll. A step is one transaction or one
await, so other processes, the control plane, completion notices (`Service._complete_turn`), the clock
and a crash fall between any two. `LeaseLost` and the `ValueError` of `record_receipt` leave the poll
through `release`, as the exceptions do. `Publish` is the moment from which the effect of the input may
exist. From then on only an acknowledgement or "unknown" is possible.

A `cron` schedule is a grid of instants like `every`: `croniter` and daylight saving are outside the
model, and what the store needs of them, a next instant later than the one given, is what a grid gives.
`made`, `published` and `backs` are histories that no guard reads except as bounds, and `made` to give
each `uuid4` id out once. `NamedIds` are the ids that a caller chooses, which can be used again.

### The bounded task

| module | models |
|---|---|
| `TaskPolicy` | `TaskPolicy.decide`: deadline, attempts, retries, waits |
| `PolicyLedger` | the record of one task: `set_task_policy`, `task_policy_status`, `admit_task_attempt`, `finish_task_attempt`; a specification of its own (`LedgerSpec`) |
| `PolicyRecord` | properties of the record: what `_validate_policy_record` accepts, and the clock |
| `PolicyService` | the service around it and the native thread (EXTENDS `PolicyLedger`) |
| `PolicyProperties` | properties of the service |
| `MCPolicy` | limits and symmetry for TLC |
| `PolicyProofs` | theorems about the record, then about the service around it |

`intents[i]` is the status of an intent in `runtime.json` and `receipts[i]` its attempt in SQLite.
`Submit` runs from the admission lock to the `turn/start` request. It is one step because no other input
can enter before the request is out, and `Crash` may take the charge without the saved intent, or the
finished attempt without the completed intent. `Acknowledged`, `Unanswered` (time-out) and the
notifications (`StartDelivered`, `TurnFound`, `Complete`) come afterwards in any order. `Enforce`,
`StopNative` and `StopProved` are the parts of `_enforce_task_deadlines` between its awaits, with the
turn revision (`raced`) that tells whether a turn was started meanwhile. `ResumeBegins`/`ResumeEnds` and
`Pause`/`PauseStops` are cut in the same way. `Restart` stops the orphan server, marks what was running
as unknown and restores intents that were charged but not saved. It can die again before it saves.

The native thread is external and modelled from its use: a request on the wire may become a turn or be
lost, one turn runs at a time, another client or a Goal may start turns (`StrangerStarts`), and each
start is announced to a running service.

### Supervision and releases

| module | models |
|---|---|
| `Releases` | the pointer, the checks of a candidate's files, of the data's formats and of the bootstrap's, `activate`, `rollback` and `automatic_rollback` |
| `Daemon` | the service process from exec to exit: `serve`'s check, `Service.__init__`, `service.lock`, prepare, spawn and bind of the native server, readiness, `_shutdown` (EXTENDS `Releases`) |
| `Supervision` | the supervisor under launchd, and the operator's commands (EXTENDS `Daemon`) |
| `SupervisionProperties` | the properties |
| `MCSupervision` | two candidates, of which one knows a data format the other does not; symmetry of processes |
| `SupervisionProofs` | theorems |

`sup` says where `Supervisor.run` is: `terminate` (`terminate_child`) → `clean` → `cleaning`
(`clean_orphan` waits for, then holds, `service.lock`) → `loop` → `attempt` (the attempt is saved, the
process not started) → `record` (started, not saved) → `watch` → `ready` → `healthy`, then `terminate`
again and `after`, the end of the attempt, with `delay` before the next. `fallback` is the point
between saving a candidate as failed and moving the pointer. A step is what happens between two awaits or two file writes, and
`SupervisorLost` may fall after each. Every change of `attempts`, `failed` and `activation_epoch` is
saved before the next await, so `book` stands for memory and file alike. The recorded child is in both
(`child`, `book.child`) since `terminate_child` clears it in memory only.

`phase[p]` is where process `p` is, `view[p]` its copy of `runtime.json`, which it reads at `Construct`
and writes back whole at `Prepare` and `Bind`. A native server is named after the process that spawned
it. `runtime.prepared` is an epoch that was prepared and not bound: it makes every later `Prepare` fail,
as the code does. The operator's commands hold `lifecycle.lock` from their first to their last step;
`offline_maintenance` is `BeginSwitch` (three locks, then the look at label, records and sockets) and
`EndSwitch`. launchd is external: it starts a label that is due (`Launch`), again after a loss
(`KeepAlive` with an unsuccessful exit), not after `main`'s exit status 0 (`Exit`).

A capability number of `releases.py` becomes a set of data formats; `Introduce` is a running service
that begins to use one. `starts`, `abandoned`, `direct` and `lost` are histories. `lost` records that a
starter (the supervisor, or `start` after its 30 seconds) was gone while its process was still before
`service.lock`: there the code's promises end, as the findings show, and the properties say so.

### The control plane

| module | models |
|---|---|
| `NativeRoots` | the native thread (root) of each named task: `ensure_thread` and `_bootstrap_thread`, turns, Goals and queues of the native server |
| `ControlPlane` | `submit` with `is_busy`, `pause`, `resume`, resource pauses, interruptions and restarts over several tasks (EXTENDS `NativeRoots`) |
| `ControlPlaneProperties` | the properties |
| `MCControlPlane` | two tasks, symmetry of inputs, bounds |
| `ControlPlaneProofs` | theorems |

A root is named by the number of its `thread/start`. `ensuring[k]` is the await at which `ensure_thread`
of task `k` is, under the task's thread lock, whoever called it: `look` (thread_read, thread_resume) →
`start` (thread_start) → `init` (the initialization entry). `Ensures(k, outcome)` is what happens next
and what its caller learns. `injecting` counts entries on their way, which may arrive after their answer
was given up; `entries` counts those in the root.

`desk` is the one `submit` or `resume` that holds the admission lock, and `at` the await it is at:
`probe` (the reads of `is_busy`, one task after the other, in any order), `lock` and `ensure`
(`ensure_thread` of `waits`), `read` (the last look before the input is sent), `answer`; a resume goes
through `lock`, `ensure`, `native` (queue and Goal are looked at) and `last` for each of its tasks.
`stops[k]` is a pause of `k` that has saved its flags and has yet to stop the native work: `pause` and
`owed` (that of `_stop_resource_paused_tasks`) are in line for the input lock, which is first come,
first served, so nothing else gets it before them; `due` is a pause that is not in line yet, because it
comes from a list of tasks or from an interruption, and `halting` says that the main task was
interrupted, so that a pause of everything has yet to come. `stale` and `void` are the two revisions by which a pause supersedes a
resume that is under way.

Everything that comes from outside (a pause or resume of an operator, a report of the quota, an
interruption, a stranger's turn, a Goal, a chat, a failed request, a restart) draws on one budget,
`MaxCalls`, by the number of tasks in play. Connecting and attaching are one step, and a restart is the
end of one service and the start of the next, which has reclaimed the native server: `Daemon` and
`ResourceFeed` are about what lies between.

### Heartbeat evidence

| module | models |
|---|---|
| `Heartbeats` | `compare_receipts`, `record_heartbeat` and what the store demands when it reads its rows; the watcher, the dispatch and the admission of an input for evidence |
| `HeartbeatProperties` | the properties |
| `MCHeartbeats` | this and the dispatcher's instance for TLC (EXTENDS `MCScheduler`) |
| `HeartbeatProofs` | theorems |

One target is modelled, since targets share nothing. A receipt is abstracted to the instant before its
collection, its state, its scope (which source, which version) and its content. `collecting` is the
observation that holds the target's lock; `evidence` is what a dispatch was decided on, from then until
`submit` has looked at it again under its own locks. `Replayed` plays the history again as
`_heartbeat_records` does when a store is opened, by a recursive function over the rows; `LatestReads`, `TailReads` and `Comparable` are the
checks of `_read_heartbeat_snapshot` and `compare_receipts`, made at every use. `woken` is a history.

### The token feed

| module | models |
|---|---|
| `ResourceLedger` | `record_token_usage`: which counters are events, which is the highest, the increase |
| `ResourceFeed` | epochs around the start and stop of a native server, its connection, and the listener that attributes counters to saved roots (EXTENDS `ResourceLedger`) |
| `ResourceProperties`, `MCResources` | properties; one root and a subagent of it |
| `ResourceProofs` | theorems |

`phase` follows `Service.run`: `prepared` → `spawned` → `bound` → `listening` → `stopping` → `exited` →
`closed`. `wire` is what the server sent and the reader has not read, in order. `broken` says that the reader
ended before the connection was read to its end (`ReaderFails`: the transport, a frame, the task, or a wait for it
that is cancelled); what was on its way
is lost then, and `_tick` and the stops of the saved tasks find out, if they still come. So `Drained`,
which is `wait_reader_closed`, does not mean that everything was read. The reader's callback
runs to its end, so `Read` is a step: `CodexClient` learns a parent or the listener gets a counter, and
what is now attributed is recorded: `Sweep` records the buffered counters of the threads that
have come to be `Owned`, the least set with the roots and closed under the known parents. An answer to `thread/read` is known to `CodexClient` a step before
the listener flushes (`LearnParent`, `EndAsking`). `Crash` leaves what is on disk, and the native server.

### Memory

| module | models |
|---|---|
| `SummaryTree` | the tree of units over the fragments of a window, and which fragments are missing |
| `SummaryStore` | events, batches of both protocols, commits and their recovery, one durable write a step |
| `SummaryLedger` | the abstract specification: a batch is prepared, added to its file once, then committed |
| `SummaryProperties`, `MCSummary` | the properties, the refinement mapping; two events of a day |
| `SummaryProofs` | the invariants and the refinement, for every day |

A batch is its manifest: period, form (one unit, or partitioned) and the sources it froze. The text of a
file is the sequence of what was added to it, so that a summary of a day contains the batches of its
hours, and the gaps of those must be listed upstream. `job` is the operation that holds the lock and `build` the
preparation that reads its sources before it takes the lock. A candidate is abstracted to the set of
sources it declares missing, which is all that validation and coverage tell apart. `HolderFails` is a
crash or a failed write at any point of the holder; `Recover` is what the next operation, or the next
start, does first. Editors append to or rewrite any file at any moment except between the last
comparison of a target and the rename that replaces it; nobody edits the store's own directory.

## 3. What TLC checks

| run | instance | distinct states | what it shows |
|---|---|---|---|
| `sched_two` | 2 processes, 1 job every 2, 2 revisions, clock to 3, fair | 67 712 | `TypeOK`, `AtMostOnce`, `InHandOfHolder`, `StaleNeverSent`; `ImplementsLedger`: every step is a step of the abstract ledger; `NothingWaits`: no occurrence stays claimed or sending, and a due job gets its occurrence |
| `sched_time` | 1 process, at/every/cron, both kinds, 2 revisions, clock to 4, set back once; or 3 observations, 2 sources, 2 contents, 1 restart, clock to 2, set back once | 835 971 | `EachInstantOnce` (windows tile the due instants, identities differ), `OnePendingHeartbeat`; `HistoryReads`, `WokenForNews` |
| `sched_reuse` | 1 process, a caller-named id | violation | `StaleNeverSent` fails: a finding below |
| `policy_safe` | 2 inputs, 2 sets of limits, 1 stranger, clock to 1 | 1 699 050 | `PolicyTypeOK`, `InputsBudgeted`, `NoOrphanCharge`, `StopProof`, `RecordValid` |
| `policy_stop` | 1 input, 1 set of limits, 2 strangers, clock to 2, set back once, fair | 682 791 | `OverdueIsStopped`, `TimeNeverReturns` |
| `sup_safe` | 2 processes, 2 candidates, 1 format, 1 failure allowed; an activation, a mishap, a direct start, any 2 of them | 1 721 293 | `TypeOK`, `BoundedStarts`, `NoBouncing`, `OneNativeSupervised`, `SwitchQuiet`, `Understands`, `RunsCurrent` |
| `sup_live` | the same without activation and direct start, fair | 561 356 | `NeverHangs`: the supervisor settles, and heeds a stop |
| `sup_orphan` | 2 direct starts, 2 mishaps | violation | `OneNative` fails: a finding below |
| `summary_store` | 2 events of a day, one early, one unreadable; 2 batches, 1 edit, 1 crash, fair | 173 100 | `RefusesOnlyChanges` (with the types), `NoGapLost`, `AcknowledgedKept`, `NothingOverlooked`, `ImplementsLedger`, `TreesComplete` |
| `summary_wedge` | the same without edits | violation | `NoFalseConflict` fails: a finding below |
| `resource_feed` | 1 root and its subagent, 2 epochs, buffer of 2, counters to 1, 1 fault | 2 424 057 | `TypeOK`, `NoneLost`, `OnlyOurs`, `OneServer`, `IncreasesAddUp` |
| `control_plane` | main task and another, 2 inputs, 2 roots, capacity 1, 3 outside events with one task in play and 2 with both | 1 361 100 | `TypeOK`, `RootsKept`, `WithinCapacity`, `PauseHolds` |

The `policy_` runs, `sched_two` and `sched_reuse` check for deadlock; in the others the system may stop for good: in
`sup_` nobody has to start it again, a memory store may have nothing left to do, an epoch that was left
prepared refuses every further start, the number of observations is bounded in `sched_time`, and in `control_plane` the bound on outside events ends a
behaviour (a stop whose root is gone can only fail, and failures are counted). Each property of a passing run
has a mutant in `PROJECT.json`: a plausible bug in a mapped definition, written beside that definition
in its module (marked as a mutant of it), under which TLC finds the property violated.
`policy_stop` has one input, so of `TimeNeverReturns` it shows the part about elapsed time; that no input is admitted on time
that was used is in the theorem `TimeIsNotGivenBack`, for any number of inputs.

**The bounds.** Lease takeover needs two processes, and a third would repeat the second: ownership is
compared only with the present holder. Two revisions are enough to make an occurrence stale, and three
instants at a lease of one second let a lease expire, be taken over and expire again. `sched_time` has
room for a window of several periods at every schedule (clock to 4, period 2) and for a clock set back
by one between any two polls. Waiting heartbeats that merge need two windows of one definition, which
this allows. The other half of `sched_time` is the evidence of heartbeats: the two meet only in the outcome
of a dispatch, which each leaves open, so a behaviour exercises one of them and their product would
show nothing more. Three receipts let one be stale beside one that is accepted and let content come
back that was seen before the last; a restart between them changes the source. For a task: three attempts let a retry follow a failure and be followed by an attempt
after an unknown outcome; two sets of limits make every tightening and extension possible, one of them
with a single attempt and no retry; the theorems about the record hold for any clock.
`policy_safe` needs two intents for one to be charged while the other is unresolved, and a clock that
reaches the tight deadline. `policy_stop` lets strangers race the stop twice: once before and once after
a failed proof. Supervision needs two processes for one to start while another is alive or remembered,
and names are given again when nothing refers to a process any more, so that there may be any number of
them one after the other. Two candidates are what a pointer holds; with one failure allowed both can be
written off in one activation, which is the case where a fallback could bounce; one activation resets
the book in the middle of that. One mishap (a process killed, the supervisor lost, a candidate
damaged) may fall anywhere. Mishaps, activations, direct starts and a start that is given up draw on one
budget (`MaxEvents`): two of them meet in every order in `sup_safe`, and five in `sup_orphan`; the theorems
below hold for any number.

In memory, two events of one window give an early batch of one unit and a late one that is partitioned
(`LegacyMax`, `LeafSize`), whose tree has leaves and an inner root; one of them is unreadable and must
be declared missing. Two batches let two commits meet at one file, or a day summarize its hours. One
crash is enough for each point between two writes, and the recovery that follows may run after other
commits. In the feed, a subagent needs its parent to be attributed, two epochs let a server of an
earlier generation live on, and a buffer of two overflows. In the control plane, two tasks contend for
a capacity of one, the second may be created while the first is paused, resumed or counted, and a budget of
three events fits what the properties need: a pause, a resume that it overtakes, and a failure or a
restart; or a lost answer, a restart and another caller. An instance with four events for one task
(2 563 000 states) passes too.

**Fairness.** In the dispatcher: time passes, and every poll of a live process goes on, because each
await of a poll is bounded by a timeout and `Service._tick` polls again for ever. There is no fairness
on `Renew`, on crashes, notices or operators. One process is left alive, and since the
clock ends, none dies with a lease that would outlast it; `sched_two` therefore runs one second longer
than the first due instant, so that a holder can die with an occurrence claimed and be succeeded. For a task: weak fairness of the watch loop (`_watch_task_policies` looks again
for ever), of the delivery of notifications and of the answers to requests, which time out. The stop
itself has strong fairness: it waits for the input lock, which submits and resumes hold again and
again, and `asyncio.Lock` wakes its waiters in order. Nothing is assumed about native turns ending,
about strangers, the operator or restarts. For supervision: weak fairness of the supervisor's own steps
(each of its waits has a deadline), of launchd starting what is due, and of the shutdown of a process,
whose waits in `_shutdown` are bounded. Nothing is assumed of a start: a service may hang at any point
before it is ready, which is what the deadlines are for. Mishaps are bounded, so `NeverHangs` says
what happens after the last. For memory: weak fairness of the holder of the lock, which awaits nothing;
strong fairness of recovery, which is the first thing that every operation and every start does under
the lock; and of somebody asking for the next units of a plan that is not complete, as the prompt of a
summary task tells it to (`calendar.py`). The safety properties of evidence, feed and control plane need none.

## 4. Findings

`sched_reuse`: `defer_event` (`store.py:1397`) compares the occurrence only with the job row that now has
its id: `enabled` and `revision`. A job that is deleted and created again under the same id starts at
revision 1 again. So while its occurrence is being sent (where deletion does not cancel it), delete,
create and a deferral bring the occurrence of the old definition back to pending, and it can be sent.
The comment at `store.py:1380` says "Changed or deleted definitions cancel the old occurrence". Ids are
given again by `cron_create` with a `job_id`, by `register_default_jobs` (`calendar.py:44`) and by the
legacy import. With ids that the store makes (`sched_two`) the property holds.

`sup_orphan`: `Service.__init__` reads `runtime.json` (`service.py:421`) before `run` takes
`service.lock` (`service.py:596`), and everything later works on that copy. Start a service; start
another before the first is ready (the first `start` gave up or was interrupted); the second reads a record without a server; the first
spawns and binds its native server and is killed; the second gets the lock, finds no orphan in its copy,
spawns a second native server and overwrites the record of the first, which nobody will stop.
`alice/specs/scheduling-recovery.md:36` promises that a new instance reclaims the orphan of a killed
one. As long as only the supervisor starts services and none of its starts is lost in that interval,
there is one native server at most (`OneNativeSupervised` in `sup_safe`), because its `clean_orphan`
reads the record under the lock.

`summary_wedge`: `_final_image` (`summary_partitions.py:663`) anchors the image of the target before the
commit, and keeps an anchor that it finds. If the process dies after the anchor and before the intent is
pending, and another batch is committed to the same file before the plan is finalized, the intent is
given the old image: the file is neither its before nor its after. From then on
every commit and every start of a store raises "Interrupted summary commit conflicts with a later edit"
(`memory.py:1328`), though nobody edited anything. `RefusesOnlyChanges` says that this and an edit are the only
ways to such a refusal: the file holds a note, or another batch, that the before image does not. `TreesComplete`
excuses every conflict of a pending commit with its file, this one included.

Some observations do not contradict a promise of the repository, or were made while reading:

* `_start_unsupervised` waits for 30 seconds (`cli.py:258`), then returns, and with it `lifecycle.lock`
  is free, while its process may still be before `service.lock`. `release activate` then finds no lock,
  no record and no socket, switches, and the process goes on with the code that it checked before,
  although `cli.py:227` says that the lock covers "the interval before the daemon has acquired
  service.lock". `RunsCurrent` (a theorem) says `~lost` for that reason.
* `dispatch_completion` (`calendar.py:301`) accepts the statuses committed and pending. The record of a
  partitioned plan says partitioning until its root is summarized, so a summary turn that ends with
  units open raises `CalendarError` out of `_complete_turn`, and the service fails, again after each restart.
* An epoch that was prepared and never bound (a crash, or a server that cannot be started) makes every
  later start fail by design (`tests/test_service_resource_epochs.py:543`).
* An event file that is edited before its receipt is written makes the next `MemoryStore` raise.
* A resume that has started the native queue or Goal and then fails leaves that work running in a task
  that stays paused, with no stop owed (`half`). A resume that waits for admission takes its revisions
  only when it has the lock, so a pause that was asked for after it may lose; one that overtakes an owed
  stop is undone by it later.
* A turn that begins after its `turn/start` was given up and after a pause has stopped the root goes on;
  only a task with a policy arms the stop again (`PausedIsQuiet` excepts it by `late`).
* `refresh_resources` may record an answer over a notification that is newer (`service.py:1309`).
* A service that is killed leaves its sockets, and `offline_maintenance` refuses as long as a native socket
  exists, also after a `stop`; only the next start removes them.
* A supervisor that is lost between saving a candidate as failed and moving the pointer
  (`supervisor.py:242`) finds it failed at its next start and ends "blocked" without having tried the
  previous candidate.
* The id of an occurrence is computed from job, revision and first instant (`store.py:1307`), so a job that is
  deleted and created again under its id with the same first instant makes `materialize_due` insert a row that is
  there. The transaction rolls back, the poll raises and `_tick` ends with "Dispatch stopped"
  (`service.py:1010`); the cursor has not moved, so it does again after each restart. The theorems about
  occurrences have the hypothesis `NeverReused` for this and for the finding `sched_reuse`.
* A reader that fails while the service is stopping loses the counters that were still on their way, and the shutdown
  may report no error, nor does a shutdown that is cancelled while it waits for the reader: `wait_reader_closed` returns true for a failed transport or a cancelled reader, too
  (`rpc.py:330`), and `_shutdown` (`service.py:770`) reports only a time-out or an exception. The documents claim no
  more: `alice/specs/service-resource-epochs.md:35` says that true never proves the history complete. `NoneLost` promises only
  what the reader received, and the rest as long as the reader did not fail.
* `record_receipt` of an unknown outcome on an occurrence that a notice has completed raises out of the
  poll (`scheduler.py:256`, `PollRaises`), and the service stops.

## 5. What TLAPS proves

The theorems hold for every number of processes, jobs, intents, limits, schedules, tasks, roots, threads,
receipts and clock values. The named assumptions on the constants (`OwnersAssumption`,
`ScheduleAssumption`, `PoliciesAssumption` and the others beside their declarations) say only that sets are
sets of the right kind, finite where the code counts them, that periods are positive, bounds are numbers,
and that the value for "none" is not one of the things it is none of. Five theorems have a hypothesis of
their own: three `NeverReused`, two `NotesAreNoBatches` (both below).

| theorem | says | argument |
|---|---|---|
| `WindowBounds`, `WindowsMeet` | a window starts at the cursor, ends by now, and the next cursor is one period after its last instant | integer division with remainder |
| `TypeCorrect` | `Spec => []TypeOK` for the dispatcher | one lemma for each store operation, one step for each action |
| `HandsOfHolder` | `Spec => []InHandOfHolder` | inductive with the types: a takeover empties the hands of others, a claim needs the lease |
| `EffectOnce` | `Spec => []AtMostOnce` | `EffectInv`, see below |
| `LedgerImplemented` | `Spec => ImplementsLedger` | every step maps to a ledger step or a stutter, from the same invariant |
| `OccurrencesOnGrid` | `Spec => []OccurrenceInv`: of an id created once, each definition's windows lie apart, reach to the cursor and leave no instant out | inductive with `HandInv` |
| `StaleStaysUnsent`, `HeartbeatsMerge`, `InstantsOnce` | `NeverReused` implies `[]StaleNeverSent`, `[]OnePendingHeartbeat`, `[]EachInstantOnce` | from `OccurrenceInv`, which then is about every job |
| `RecordTypes`, `RecordAccepted` | `LedgerSpec => []LedgerTypeOK`, `[]RecordValid` | the two are inductive only together |
| `TimeIsNotGivenBack` | `LedgerSpec => TimeNeverReturns` | the watermark rises in each step |
| `ServiceUsesLedger` | `Spec => LedgerSpec` for the service | every action is a store operation or leaves the record alone |
| `ServiceRecordAccepted`, `ServiceTypes` | the record's facts hold inside the service | by `ServiceUsesLedger` |
| `StopIsProof` | `Spec => []StopProof` | `StopInv` |
| `ChargesAreKnown` | `Spec => []NoOrphanCharge` | inductive with the record's invariant |
| `InputsWithinBudget` | `Spec => []InputsBudgeted` | `BudgetInv` |
| `SupervisionTypes` | `Spec => []TypeOK` for supervision | one step for each action |
| `CodeIsCurrent` | `Spec => []RunsCurrent` | `OwnershipInv` |
| `SwitchIsAlone` | while a release is switched: no supervisor, no loaded label, no process | from `OwnershipInv` |
| `StartsAreBounded` | `Spec => []BoundedStarts` | `AttemptsCover` |
| `FallbackDoesNotBounce` | `Spec => []NoBouncing` | `AbandonedWrittenOff` |
| `OneServerAtATime`, `SwitchFindsQuiet` | `Spec => []OneNativeSupervised`, `[]SwitchQuiet` | `NativeInv` |
| `FormatsAreUnderstood` | `Spec => []Understands` | `CodeFits`, `LockIsHeld` |
| `ControlTypes`, `RootsAreKept` | `Spec => []TypeOK`, `[]RootsKept` for the control plane | `RootsInv`, `DeskInv` |
| `CapacityIsKept` | `Spec => []WithinCapacity` | `CapacityInv` |
| `FlagsAreHeld`, `PauseIsHeld` | `Spec => []FlagsHold`, `[]PauseHolds` | `FlagsInv`, then `QuietInv` |
| `HistoryIsRead` | `Spec => []HistoryReads` for the evidence | `ReadingInv`, induction over the rows |
| `NewsWakes` | `Spec => WokenForNews`, of every step | `NewsInv` |
| `FeedTypesKept`, `NoCounterLost`, `LedgerIsOurs`, `NoSecondServer`, `CountersAddUp` | all that `resource_feed` checks | `FeedInv`, induction over the buffer |
| `RecordsAgree`, `GapsAreListed`, `AcknowledgedStays` | `Spec => []EvidenceAgrees`, `[]NoGapLost`, `[]AcknowledgedKept` for memory | `StoreInv`, induction over the children of a unit and up the tree |
| `OnlyChangesRefused` | `NotesAreNoBatches` implies `Spec => []RefusesOnlyChanges`, of which `EvidenceAgrees` is the first part | `ImageInv`, with `StoreInv` and `WrittenInv` |
| `NoneOverlooked` | `Spec => NothingOverlooked`, of every step | `BuildInv` |
| `StoreImplementsLedger` | `NotesAreNoBatches` implies `Spec => ImplementsLedger` | every step mirrors a ledger step or none, from `WrittenInv` |

*Why the invariants are strengthened.* `AtMostOnce` says nothing of an occurrence that is about to be
sent. `EffectInv` adds that what is absent, pending or claimed has no effect yet, that a poll at
`deliver` holds an occurrence that is unpublished and in no other poll's delivery, and that one at
`sent` has published it. The critical steps are a takeover during a delivery, which makes the
occurrence unknown and so unclaimable, and a deferral, which needs the lease and therefore comes from
the poll that has not yet published. `StopProof` speaks of a task marked as stopped; `StopInv` extends
it to the moment before, when native work has been stopped and no start has been announced since.
`BudgetInv` adds what is still on the wire (charged, not started), and that usage and limits stay below
the most that was ever granted.

*Occurrences of one definition.* A deferral puts an occurrence back while another may wait, and merges
them if the job is a heartbeat. `OnePendingHeartbeat` is not kept by that step alone: the one put back must be
the earlier. `OccurrenceInv` therefore says that of a heartbeat's definition one occurrence is open
(unsent or being sent) and that it is the last. That needs `HandInv`: of all that was taken one is in hand,
so nothing else of the definition is being sent. `NextIs` says that the windows leave no instant out: after
the last instant of each comes the first of another, or the cursor. All this holds of an id that was
created once. `NeverReused` (callers name no ids, or each is created once) makes that every id, and it is what the code
needs too: with ids used again `StaleNeverSent` is false (`sched_reuse`) and occurrences collide (section 4).

*Supervision.* `RunsCurrent` says nothing of who may move the pointer when. `OwnershipInv` collects
what the locks, the label and the records say of each other: a supervisor runs only under a loaded
label, a direct start only without an installed one, a switch only with the label unloaded and all
locks (`Exclusion`); who is past `service.lock` holds it (`LockHeld`); the child in memory is the one on
record, and over once it is cleared (`ChildOnRecord`); every process before `service.lock` has somebody
who waits for it, unless `lost` (`StartsAwaited`); and between its cleanup and its next start the
supervisor is alone (`AloneAfterCleanup`). Then no process is alive whenever the pointer moves, in a
switch and in a fallback. `AttemptsCover` says that every start has an attempt saved before it, and the
next start a further one; `AbandonedWrittenOff` that what was abandoned in this epoch is in this epoch's
list of failed candidates. `NativeInv` needs what a process's copy of `runtime.json` may differ from the
file in: in nothing, as long as starts are owned, because then one process is alive at a time (`CopyIsFile`,
`OneProcess`). So a server that is alive is the recorded one, or the file still says prepared, which
keeps later starts from a spawn (`ServerKnown`). `CodeFits` says which code has checked which formats, from the exec
of a process to its lock.

*Control plane.* `RootsInv` joins what each root belongs to: no two tasks share one, none has one that was
replaced; an entry is under way or written at most once, and not before "sending" is saved; a root about to
be replaced is loaded nowhere and has no rollout. For the capacity, a submit has counted every root that an
earlier input holds (`ReservedSeen`), though it reads them one at a time, and whoever is past its probe has room
for one more. For pauses, a resume knows what was paused since it began (`FencesKnown`). `QuietInv`
says of each paused task that it is idle or that a stop is coming, and where the stop comes from: what
supersedes a resume brings one that waits for the resume (`StopsFollow`), a spent quota owes one to every
automatic task (`SpentStops`). This proof corrected the model: an interruption of the main task asks for a
pause of everything, and the model had no state between the two, so that a task created there was
not paused. The variable `halting` is that state.

*Evidence and feed.* The replay of the evidence and the flush of the feed's buffer are recursive functions over a sequence.
`ReadingInv` and `FeedInv` speak of the present record and of the present buffer; that a replay of all rows ends in
that record, and that a flush records what is owned and keeps the rest, is proved by induction on the
length, as the absence of a least length that fails (from `WFMin` of WellFoundedInduction, whose
argument is a set). `NewsInv` adds that what a dispatch under way holds was
collected by this process, and that what was consumed was the latest when its input went out.
`AliveInv` says that a server left alive is the one of the epoch that `runtime.json` holds, `NoneMissing` that, without an
error, each counter that the reader received is in the buffer or in the ledger and each other one on the wire, unless the reader failed.

*Memory.* `StoreInv` joins events (the file before the index, the index before the receipt), texts (made of notes and
of batches of that file), batches, the preparation under way, intents (one for each plan, at most one
pending, each with its evidence), units, and what the holder of the lock is about to write (`JobInv`: an
intent only of what is prepared, an anchor only when the root is summed, and nothing new while a commit
is pending). `BuildInv` says that what is built comes from the inventory that is compared once more under
the lock; so nothing is overlooked and no gap is lost, whatever was committed meanwhile. That the evidence of a
commit agrees with it needs the shape of the tree: a receipt's count of what is missing is at most the
number of fragments below its unit (`CountBounded`, by induction over the children, whose fragments do
not meet), and what counts as missing at the root counts as missing in the coverage, where each fragment climbs to
the root (`AncestorSteps`). Each induction is again the absence of a least number. For this the sum over the children
and the climb are recursive functions, as the code's loops are, and not folds or powers.

The refinement has to tell a file before a batch was added from the file after. `WrittenInv` says that
what a file holds was written, that an image kept for recovery holds neither its batch nor anything
unwritten, and that once the batch is in, the file holds something the image does not (`NotAgain`); so
recovery does not add it again. `NotesAreNoBatches` says that an editor's note is not a record of
a batch, which `_render_summary` marks with the batch's id; without it an edit could look like a commit. The
model's editor also writes no note twice. If someone restores, while the commit is pending, exactly the text
from before it, recovery adds the batch once more, as it should; the ledger has no such step.

That a start is refused only for a change (`RefusesOnlyChanges`) rests on `ImageInv`: from the moment when an image of a file is
anchored, the file holds that image or something that is not in it, since a note and another batch are new to
every image; once the commit is pending, the file holds its before image, its after image, or something added.

TLC checked each of these invariants, too, in the instance of its component's run.

*Model-checked only.* The liveness properties `NothingWaits`, `OverdueIsStopped`, `NeverHangs` and
`TreesComplete`: fairness and ENABLED are outside the prover. All invariants and action properties that
the passing runs check are theorems.

## 6. What is not modelled

* **Stopping a tree of threads** (`codex.py`, `stop_tree`): the search for descendants, interrupting
  each, and the last search that must find no more. `StopNative`, and a stop in `ControlPlane`, end all
  native work of a root or fail, which is that function's contract, not its code. Goals and descendants
  are native work like any other.
* **RPC client** (`rpc.py`): request ids, the ring of events and its gaps. The models know an answer, a
  late one, a failure and a time-out of each request, and in the token feed the order of the wire.
* **Arithmetic and wording**: `croniter`, time zones and daylight saving; the windows and percentages of
  rate limits (a quota is exhausted or not); byte sizes and code-point ranges of summaries; the text of
  events, prompts, summaries and receipts.
* **Settlements of observed results into a virtual budget** (`resources.py`): each one transaction over
  rows that nothing else changes.
* **Snapshots and search of memory**, which only read, and events of more than one day: a day's summary
  meets the hours of that day.
* **The collection of evidence** and its configuration, and the deadline in its record, which is only shown.
* **Default policies** and tasks that inherit them. Tasks without a policy are in `ControlPlane`, those
  with one in `PolicyService`.
* **A native history that was deleted** (`native_history_missing`): `is_busy` pauses a task that had input and whose
  history is gone (`service.py:1565`), and passes over it from then on (`service.py:1544`).
* **Of supervision**: a native server that dies by itself, damage to the bootstrap environment, state
  files that fail validation, more than one host, building and removing candidates. `Introduce` may
  happen at any point of a running service.
* **Two jobs at once in one run**: jobs meet only in the order of a poll's list. The theorems of the
  dispatcher are for any number of jobs.
* **Compositions**: dispatcher with control plane (`Publish` stands for `Service.submit`), and control
  plane with the start of the service (`Daemon`, `ResourceFeed`).
* **Journal, identity delivery, summary calendar**: left for later (below). The legacy import,
  installation, MCP, metrics, evaluation and the browser are sequential input and output;
  `PROJECT.json` says so for each.

## 7. Plan

In this order.

1. **`ThreadTree`**: `stop_tree` over threads that appear and turns that start, shown to implement the
   stop that the other modules assume.
2. **Summary calendar**: a period's completion against the state of its batches, with the failure
   described in section 4 as a run of its own.
3. **Composition** of dispatcher and control plane: a recovered intent and the occurrence it belongs to.
4. **Journal and identity delivery**: backfill against live records; packets that are confirmed once.
