--------------------------- MODULE ResourceLedger ---------------------------
(***************************************************************************)
(* ResourceLedger.record_token_usage: the cumulative token counters that   *)
(* one generation of the native server reports, one transaction each.  A   *)
(* generation is an epoch; its first counter is a baseline, for it may     *)
(* include what earlier generations used.                                  *)
(*                                                                         *)
(* A notification is [thread, total]; two with one payload are the same.   *)
(* The seven counters of a payload are one number here.                    *)
(***************************************************************************)
EXTENDS Integers

CONSTANTS Epochs, Threads, None

Keys == Epochs \X Threads

EmptyLedger == [events |-> {},                          \* token_epoch_events
                first |-> [k \in Keys |-> None],        \* token_epoch_checkpoints
                high |-> [k \in Keys |-> None],
                increase |-> [k \in Keys |-> 0]]        \* history: increases returned

Recorded(ledger, e, n) == \E x \in ledger.events : <<x.epoch, x.note>> = <<e, n>>

StateOf(ledger, e, n) ==
    LET old == ledger.high[e, n.thread]
    IN  IF old # None /\ n.total < old THEN "out_of_order_or_counter_reset" ELSE "known"

Noted(ledger, e, n) ==
    ledger.events \cup {[epoch |-> e, note |-> n, state |-> StateOf(ledger, e, n)]}

\* Mutant of Record: a counter that declines is taken for a new high water mark.
RecordAnyway(ledger, e, n) ==
    LET k == <<e, n.thread>>
    IN  [events |-> Noted(ledger, e, n),
         first |-> IF ledger.high[k] = None THEN [ledger.first EXCEPT ![k] = n.total]
                   ELSE ledger.first,
         high |-> [ledger.high EXCEPT ![k] = n.total],
         increase |-> IF ledger.high[k] = None \/ n.total < ledger.high[k] THEN ledger.increase
                      ELSE [ledger.increase EXCEPT ![k] = @ + n.total - ledger.high[k]]]

Record(ledger, e, n) ==
    LET k == <<e, n.thread>>
        old == ledger.high[k]
    IN  IF Recorded(ledger, e, n) THEN ledger
        ELSE IF StateOf(ledger, e, n) # "known"
        THEN [ledger EXCEPT !.events = Noted(ledger, e, n)]
        ELSE [events |-> Noted(ledger, e, n),
              first |-> IF old = None THEN [ledger.first EXCEPT ![k] = n.total] ELSE ledger.first,
              high |-> [ledger.high EXCEPT ![k] = n.total],
              increase |-> IF old = None THEN ledger.increase
                           ELSE [ledger.increase EXCEPT ![k] = @ + n.total - old]]
=============================================================================
