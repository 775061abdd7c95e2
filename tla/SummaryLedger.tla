--------------------------- MODULE SummaryLedger ---------------------------
(***************************************************************************)
(* What the store of summaries promises, without locks, files or crashes:  *)
(* a batch is prepared, its text is added once after what its file holds,  *)
(* and then it counts as committed, for good.  Editors change files too.   *)
(***************************************************************************)
EXTENDS Sequences

CONSTANTS
    Notes,        \* what an editor writes
    FileOf(_)     \* the file a batch belongs to

VARIABLES
    batches,      \* prepared so far
    text,         \* the files
    written,      \* batches added to their file
    done          \* batches committed

ledgerVars == <<batches, text, written, done>>

LedgerInit ==
    /\ batches = {} /\ written = {} /\ done = {}
    /\ \A f \in DOMAIN text : text[f] = <<>>

Prepare ==
    /\ batches \subseteq batches'
    /\ UNCHANGED <<text, written, done>>

Write(b) ==
    /\ b \notin written
    /\ written' = written \cup {b}
    /\ text' = [text EXCEPT ![FileOf(b)] = Append(@, b)]
    /\ UNCHANGED <<batches, done>>

Acknowledge(b) ==
    /\ b \in written
    /\ done' = done \cup {b}
    /\ UNCHANGED <<batches, text, written>>

Edited(f, m) ==
    /\ text' \in {[text EXCEPT ![f] = Append(@, m)], [text EXCEPT ![f] = <<m>>]}
    /\ UNCHANGED <<batches, written, done>>

LedgerNext ==
    \/ Prepare
    \/ \E b \in batches : Write(b) \/ Acknowledge(b)
    \/ \E f \in DOMAIN text, m \in Notes : Edited(f, m)

LedgerSpec == LedgerInit /\ [][LedgerNext]_ledgerVars
=============================================================================
