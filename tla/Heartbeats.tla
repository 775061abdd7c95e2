----------------------------- MODULE Heartbeats -----------------------------
(***************************************************************************)
(* What wakes a heartbeat task: the service collects a source that the     *)
(* host has configured, appends the receipt to the history of the target,  *)
(* and lets an input go out only for evidence that no earlier input went   *)
(* out for (heartbeat.py; store.py: record_heartbeat; service.py:          *)
(* observe_heartbeat, dispatch, submit).                                   *)
(*                                                                         *)
(* One target; targets share nothing.  The scope of a receipt stands for   *)
(* source_id, scope_sha256 and validator_version, its content for what was *)
(* collected.  When the time between two collections is over is left open, *)
(* and the deadline in the record, which is only shown, is left out.       *)
(***************************************************************************)
EXTENDS Integers, Sequences, SequencesExt

CONSTANTS
    Scopes,          \* sources that may be configured
    Contents,        \* what a collection may find
    Null,
    MaxReceipts,     \* bound: receipts in the history
    MaxClock,        \* bound: the clock stops here
    MaxRestarts      \* bound: restarts, and times the clock is set back

ASSUME HeartbeatAssumption ==
    /\ Null \notin Scopes \cup Contents \cup Nat
    /\ MaxReceipts \in Nat /\ MaxClock \in Nat /\ MaxRestarts \in Nat

VARIABLES
    record,        \* settings: heartbeat/<target>
    history,       \* settings: heartbeat_receipt/<id>, by sequence
    consumed,      \* runtime.json: heartbeat_consumed
    source,        \* the scope that is registered; Null without a source
    rejected,      \* _heartbeat_collection_rejected
    collecting,    \* the observation under way, which holds the lock of the target
    evidence,      \* what the dispatch under way was decided on, until it is submitted
    clock,         \* time.time()
    woken,         \* history: the receipts that inputs went out for
    since,         \* receipts there were when the service started
    restarts, setBacks    \* history

hostVars == <<source, rejected, collecting, evidence>>
countVars == <<since, restarts, setBacks>>
evidenceVars == <<record, history, consumed, hostVars, clock, woken, countVars>>

States == {"known", "unknown", "unconfigured"}

\* _validate_receipt; the id of a receipt, a uuid, is its place in the history.
Receipts ==
    {r \in [id : 1..MaxReceipts, at : 0..MaxClock, state : States,
            scope : Scopes \cup {Null}, content : Contents \cup {Null}] :
        /\ r.scope = Null <=> r.state = "unconfigured"
        /\ r.content # Null <=> r.state = "known"}

ASSUME NullAssumption == Null \notin Receipts

NoEvidence == [latest |-> Null, good |-> Null, comparison |-> Null]

EvidenceInit ==
    /\ record = NoEvidence /\ history = <<>> /\ consumed = Null
    /\ source \in Scopes \cup {Null}
    /\ rejected = FALSE /\ collecting = Null /\ evidence = Null
    /\ clock = 0 /\ woken = <<>> /\ since = 0 /\ restarts = 0 /\ setBacks = 0

-----------------------------------------------------------------------------
(* The store. *)

\* The last known receipt, even when the record does not name it.
Baseline(previous, good) ==
    IF good = Null /\ previous # Null /\ previous.state = "known" THEN previous ELSE good

\* compare_receipts: what a receipt says next to the latest accepted and the last known one.
Compare(previous, current, good) ==
    LET base == Baseline(previous, good)
        verdict ==
          IF previous # Null /\ current.at <= previous.at THEN "stale"
          ELSE IF current.state # "known" THEN current.state
          ELSE IF base = Null \/ base.scope # current.scope THEN "baseline"
          ELSE IF base.content # current.content THEN "new_evidence"
          ELSE "unchanged"
    IN  [state |-> verdict, accept |-> verdict # "stale",
         good |-> verdict \in {"baseline", "new_evidence", "unchanged"},
         wake |-> verdict = "new_evidence"]

\* _advance_heartbeat
Advance(seen, receipt) ==
    LET verdict == Compare(seen.latest, receipt, seen.good)
    IN  IF ~verdict.accept THEN seen
        ELSE [latest |-> receipt, comparison |-> verdict,
              good |-> IF verdict.good THEN receipt ELSE seen.good]

IdOf(receipt) == IF receipt = Null THEN Null ELSE receipt.id

\* Mutant of Entry: it is made after the record has moved on.
EntryAfter(receipt) ==
    LET seen == Advance(record, receipt)
    IN  [receipt |-> receipt, latest |-> IdOf(seen.latest), good |-> IdOf(seen.good)]

Entry(receipt) ==
    [receipt |-> receipt, latest |-> IdOf(record.latest), good |-> IdOf(record.good)]

\* record_heartbeat: one transaction
RecordHeartbeat(receipt) ==
    /\ record' = Advance(record, receipt)
    /\ history' = Append(history, Entry(receipt))

-----------------------------------------------------------------------------
(* The service. *)

\* Mutant of Candidate: receipts are compared by their id, which each collection makes anew.
CandidateById(receipt) == consumed # Null => consumed.id # receipt.id

\* _heartbeat_candidate: evidence that the last input did not go out for.
Candidate(receipt) ==
    consumed # Null =>
        <<consumed.scope, consumed.content>> # <<receipt.scope, receipt.content>>

\* dispatch: what it goes on with when observe_heartbeat returns.  Without a
\* source the input goes out without evidence, by the ordinary admission.
Decide(latest, refused) ==
    evidence' = IF source # Null /\ ~refused /\ latest.state = "known" /\ Candidate(latest)
                THEN latest ELSE Null

\* What this process has observed may do for a while (_heartbeat_next).
Cached == Len(history) > since /\ (source # Null \/ record.latest.state = "unconfigured")

Begin(by) ==
    /\ collecting = Null /\ Len(history) < MaxReceipts
    /\ collecting' = [by |-> by, at |-> clock]

\* _watch_heartbeats
Watch ==
    /\ source # Null /\ Begin("watch")
    /\ UNCHANGED <<record, history, consumed, source, rejected, evidence,
                   clock, woken, countVars>>

\* The scheduler dispatches one occurrence at a time.
InDispatch == evidence # Null \/ (collecting # Null /\ collecting.by = "dispatch")

Dispatch ==
    /\ ~InDispatch /\ collecting = Null
    /\ \/ Cached /\ Decide(record.latest, rejected) /\ UNCHANGED collecting
       \/ Begin("dispatch") /\ UNCHANGED evidence
    /\ UNCHANGED <<record, history, consumed, source, rejected,
                   clock, woken, countVars>>

\* HostHeartbeatAdapter.observe: the instant is the one before the collection.
Collected ==
    {r \in Receipts :
        /\ r.id = Len(history) + 1 /\ r.at = collecting.at
        /\ r.scope = source}

\* observe_heartbeat, from the end of the collection
Observe ==
    /\ collecting # Null /\ collecting' = Null
    /\ \E receipt \in Collected :
         RecordHeartbeat(receipt) /\ rejected' = (IdOf(record'.latest) # receipt.id)
    /\ IF collecting.by = "dispatch" THEN Decide(record'.latest, rejected')
       ELSE UNCHANGED evidence
    /\ UNCHANGED <<consumed, source, clock, woken, countVars>>

\* submit looks again, after the awaits of its admission.
Stands ==
    /\ source # Null /\ ~rejected
    /\ record.latest = evidence /\ evidence.scope = source
    /\ Candidate(evidence)

\* What the input goes out for is saved with its intent.
Submit ==
    /\ evidence # Null /\ Stands
    /\ consumed' = evidence /\ woken' = Append(woken, evidence) /\ evidence' = Null
    /\ UNCHANGED <<record, history, source, rejected, collecting, clock, countVars>>

\* The evidence is superseded, or the task is paused, busy or out of its limits.
Defer ==
    /\ evidence # Null /\ evidence' = Null
    /\ UNCHANGED <<record, history, consumed, source, rejected, collecting,
                   clock, woken, countVars>>

\* Sources are registered when the service is made, and never again.
Register ==
    /\ restarts < MaxRestarts /\ restarts' = restarts + 1
    /\ source' \in Scopes \cup {Null}
    /\ rejected' = FALSE /\ collecting' = Null /\ evidence' = Null
    /\ since' = Len(history)
    /\ UNCHANGED <<record, history, consumed, clock, woken, setBacks>>

ClockMoves ==
    /\ \/ clock < MaxClock /\ clock' = clock + 1 /\ UNCHANGED setBacks
       \/ setBacks < MaxRestarts /\ setBacks' = setBacks + 1 /\ clock' \in 0..(clock - 1)
    /\ UNCHANGED <<record, history, consumed, hostVars, woken, since, restarts>>

EvidenceNext ==
    \/ Watch \/ Dispatch \/ Observe \/ Submit \/ Defer \/ Register \/ ClockMoves

EvidenceSpec == EvidenceInit /\ [][EvidenceNext]_evidenceVars

-----------------------------------------------------------------------------
(* What the store demands of the rows when it reads them again. *)

ReceiptOf(id) == IF id = Null THEN Null ELSE history[id].receipt

\* _heartbeat_records, when a store is opened: the whole history is played again.
Replayed(entries) ==      \* the record after each of them
    LET seen[k \in 0..Len(entries)] ==
            IF k = 0 THEN NoEvidence ELSE Advance(seen[k - 1], entries[k].receipt)
    IN  seen

Audited ==
    LET seen == Replayed(history)
    IN  /\ record = seen[Len(history)]
        /\ \A n \in DOMAIN history :
             /\ history[n].latest = IdOf(seen[n - 1].latest)
             /\ history[n].good = IdOf(seen[n - 1].good)

\* _read_heartbeat_snapshot, at every use: the record against the rows it points to.
Before(entry) ==
    [latest |-> ReceiptOf(entry.latest), good |-> ReceiptOf(entry.good), comparison |-> Null]

LatestReads ==
    LET entry == history[record.latest.id]
        before == Before(entry)
    IN  /\ entry.latest # Null => entry.latest < record.latest.id
        /\ entry.good # Null => entry.good < record.latest.id
        /\ before.latest # Null /\ before.latest.state = "known" => before.good = before.latest
        /\ Compare(before.latest, entry.receipt, before.good).accept
        /\ record = Advance(before, entry.receipt)

\* A receipt after the accepted one can only be stale.
TailReads ==
    LET tail == Last(history)
    IN  tail.receipt # record.latest =>
          /\ tail.latest = record.latest.id /\ tail.good = IdOf(record.good)
          /\ Compare(record.latest, tail.receipt, record.good).state = "stale"

\* compare_receipts raises when the last known receipt is not one or is above the watermark.
Comparable ==
    record.good # Null => record.good.state = "known" /\ record.good.at <= record.latest.at
=============================================================================
