------------------------- MODULE ResourceProperties -------------------------
(***************************************************************************)
(* What must hold of the token counters that the service collects.         *)
(***************************************************************************)
EXTENDS ResourceFeed

Note == [thread : Threads, total : 0..MaxTotal]

(* TypeOK: every variable has its type; at most one epoch is not settled,  *)
(* and a listener exists only under an epoch that is bound on disk.        *)
TypeOK ==
    /\ epochs \in [Epochs -> {"none", "prepared", "bound", "aborted"}]
    /\ server \in Epochs \cup {None}
    /\ tasks \subseteq Roots /\ roots \subseteq tasks /\ linked \subseteq exists \ Roots
    /\ phase \in Phases /\ epoch \in Epochs \cup {None} /\ error \in BOOLEAN
    /\ ToSet(pending) \subseteq Note /\ Len(pending) <= MaxPending
    /\ asking \in Threads \cup {None} /\ attempted \subseteq Threads
    /\ broken \in BOOLEAN /\ told \cup received \subseteq Note /\ faults \in 0..MaxFaults
    /\ Listening => epochs[epoch] = "bound" /\ server = epoch

(***************************************************************************)
(* NoneLost: until the service reports an error, each counter that its     *)
(* reader received is recorded or in the buffer, whatever the order of     *)
(* counters, announcements, answers and saved roots, and when the listener *)
(* closes without an error all are recorded.  Those that the server sent   *)
(* and the reader did not receive are on their way, unless the reader      *)
(* failed: a shutdown that finds it so need not report an error, though    *)
(* the rest is lost (receive, flush, close, wait_reader_closed).           *)
(***************************************************************************)
InLedger(n) == \E x \in ledger.events : x.note = n /\ x.epoch = epoch

NoneLost ==
    ~error =>
        /\ \A n \in received : InLedger(n) \/ (n \in ToSet(pending) /\ phase # "closed")
        /\ \A n \in told \ received :
             broken \/ (phase # "closed" /\
                         \E k \in DOMAIN wire : wire[k] = [kind |-> "counter", note |-> n])

(***************************************************************************)
(* OnlyOurs: the ledger, which is written at once, never runs ahead of     *)
(* runtime.json: after a crash at any point each counter in it belongs to  *)
(* an epoch that was bound on disk to a server, and to a descendant of a   *)
(* root saved there (_bind_resource_epoch, confirm_roots).                 *)
(***************************************************************************)
OnlyOurs ==
    \A x \in ledger.events :
        epochs[x.epoch] = "bound" /\ Owned(x.note.thread, tasks, Threads \ Roots)

(***************************************************************************)
(* OneServer: whatever a generation left behind when it died, no second    *)
(* native server is started next to it (_recover_orphan,                   *)
(* _prepare_resource_epoch).                                               *)
(***************************************************************************)
OneServer == Cardinality(alive) <= 1

(***************************************************************************)
(* IncreasesAddUp: through repeats, stale counters and failed writes the   *)
(* increases that were reported are what lies between the first counter    *)
(* and the highest, and no counter is higher than what the thread used     *)
(* (record_token_usage, _token_status).                                    *)
(***************************************************************************)
IncreasesAddUp ==
    \A k \in Keys :
        LET seen == {x.note.total : x \in {x \in ledger.events : <<x.epoch, x.note.thread>> = k}}
        IN  /\ seen = {} <=> ledger.high[k] = None
            /\ seen # {} =>
                 /\ ledger.high[k] \in seen /\ \A n \in seen : n <= ledger.high[k]
                 /\ ledger.increase[k] = ledger.high[k] - ledger.first[k]
                 /\ ledger.high[k] <= total[k[2]]
=============================================================================
