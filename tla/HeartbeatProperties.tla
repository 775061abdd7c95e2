------------------------ MODULE HeartbeatProperties ------------------------
(***************************************************************************)
(* What must hold of the evidence that wakes heartbeats.                   *)
(***************************************************************************)
EXTENDS Heartbeats

EvidenceTypeOK ==
    /\ IF history = <<>> THEN record = NoEvidence
       ELSE record.latest \in Receipts /\ record.good \in Receipts \cup {Null}
    /\ Len(history) <= MaxReceipts
    /\ \A n \in DOMAIN history : history[n].receipt \in Receipts /\ history[n].receipt.id = n
    /\ {consumed, evidence} \subseteq Receipts \cup {Null}
    /\ source \in Scopes \cup {Null}

(***************************************************************************)
(* HistoryReads: whatever is collected, in whatever order clocks and       *)
(* configurations change, the store accepts what it wrote itself, both     *)
(* when it plays the whole history again and when it looks only at the     *)
(* rows that the record points to; were it not, the service would stop at  *)
(* the next observation, or not start (_read_heartbeat_snapshot,           *)
(* _heartbeat_records, compare_receipts).                                  *)
(***************************************************************************)
HistoryReads ==
    /\ EvidenceTypeOK
    /\ Audited /\ Comparable
    /\ history # <<>> => LatestReads /\ TailReads

(***************************************************************************)
(* WokenForNews: each input that goes out for evidence goes out for other  *)
(* evidence than the one before, collected later, by this very process and *)
(* from the source that is configured now, although the watcher collects   *)
(* while the input waits to be admitted, and the service is restarted with *)
(* other sources and other clocks (observe_heartbeat, dispatch, submit).   *)
(***************************************************************************)
WokenForNews ==
    [][woken' # woken =>
         LET r == Last(woken')
         IN  /\ r.state = "known" /\ r.scope = source /\ r.id > since
             /\ \A k \in DOMAIN woken : woken[k].at < r.at
             /\ woken # <<>> => <<Last(woken).scope, Last(woken).content>> # <<r.scope, r.content>>
      ]_evidenceVars
=============================================================================
