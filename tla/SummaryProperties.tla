------------------------- MODULE SummaryProperties -------------------------
(***************************************************************************)
(* What must hold of the events and summaries of a day.                    *)
(***************************************************************************)
EXTENDS SummaryStore

(* TypeOK: every variable has its type; one intent per batch, receipts     *)
(* only in published plans, and no receipt counts more than lies below it. *)
TypeOK ==
    /\ DOMAIN text = Files
    /\ trace \in [Events -> {"absent", "intact"} \cup Notes]
    /\ raw \subseteq Events /\ indexed \subseteq raw /\ acked \subseteq indexed
    /\ plans \cap prepared = {}
    /\ {i.batch : i \in intents} \subseteq Prepared
    /\ \A i \in intents : i.status \in {"partitioning", "pending", "committed"}
    /\ \A i, k \in intents : i.batch = k.batch => i = k
    /\ \A r \in receipts :
         /\ r.batch \in plans /\ r.node \in Units(r.batch)
         /\ Valid(r.batch, r.node, r.missing)
         /\ r.count \in 0..Cardinality(FragmentsBelow(Count(r.batch), r.node))

(***************************************************************************)
(* ImplementsLedger: through crashes, replays and edits of the files, each *)
(* batch is added to its file at most once, after all that the file holds, *)
(* and is committed only when it has been added (commit_summary,           *)
(* commit_node, _recover_commits).                                         *)
(***************************************************************************)
Promised == INSTANCE SummaryLedger WITH
    FileOf <- Target,
    batches <- Prepared,
    done <- {i.batch : i \in {i \in intents : i.status = "committed"}}

ImplementsLedger == Promised!LedgerSpec

(***************************************************************************)
(* RefusesOnlyChanges: a store refuses to start only for a pending commit  *)
(* whose file holds something that was added after its before image was    *)
(* taken: a note of an editor or, if the batch is partitioned, the text of *)
(* another batch, which NoFalseConflict shows to happen.  No crash or      *)
(* retry leaves evidence that disagrees: each record has its form, at most *)
(* one commit is in progress, and recover_plan finds the evidence of every *)
(* commit whole (_recover_commits, recover_plan).                          *)
(***************************************************************************)
EvidenceAgrees ==
    /\ TypeOK
    /\ Cardinality(Pending) <= 1
    /\ \A i \in intents :
         Partitioned(i.batch) /\ i.status # "partitioning" => EvidenceHolds(i)

Changed(i) ==
    \E x \in ToSet(text[Target(i.batch)]) \ ToSet(i.before) :
        x \in notes \/ (Partitioned(i.batch) /\ x \in written \ {i.batch})

RefusesOnlyChanges ==
    EvidenceAgrees /\ \A i \in intents : Refused(i) => i.status = "pending" /\ Changed(i)

(***************************************************************************)
(* NoGapLost: a summary made from others never hides what those left out:  *)
(* each partitioned summary in its frozen sources is listed upstream,      *)
(* although the sources are read, and the commits listed, outside the lock *)
(* while other processes commit (embedded_references, _upstream).          *)
(***************************************************************************)
NoGapLost == \A b \in Prepared : References(b.sources) \subseteq b.upstream

(***************************************************************************)
(* NothingOverlooked: a batch enters the store only with every source that *)
(* its window has at that moment, although a plan is built outside the     *)
(* lock (_prepare_legacy_summary, prepare).                                *)
(***************************************************************************)
NothingOverlooked ==
    [][\A b \in Prepared' \ Prepared : b.sources = SourcesOf(b.period)]_vars

(***************************************************************************)
(* AcknowledgedKept: what was acknowledged can be read again after any     *)
(* crash: an event has its original, its file and its index entry, and the *)
(* receipt of a unit has the text that it vouches for (append_event,       *)
(* commit_node).                                                           *)
(***************************************************************************)
AcknowledgedKept ==
    /\ \A e \in acked : e \in raw \cap indexed /\ trace[e] # "absent"
    /\ \A r \in receipts :
         [batch |-> r.batch, node |-> r.node, missing |-> r.missing] \in outputs

-----------------------------------------------------------------------------
(* The holder of the lock goes on, and somebody asks for the next units of *)
(* a plan that is not complete, and gets the lock in the end.              *)
HolderStep ==
    \/ WriteTrace \/ IndexEvent \/ AckEvent
    \/ RecoverPlan \/ RecoverTarget \/ StampIntent \/ EndRecovery
    \/ WriteIntent \/ RenamePlan
    \/ WriteReceipt \/ FinalizeAfterNode \/ WriteAnchor \/ WritePending

Unfinished(b) == HasReceipt(b, RootOf(b)) /\ ~Committed(b)

FairSpec ==
    /\ Spec
    /\ WF_vars(HolderStep)
    /\ SF_vars(Recover)
    /\ SF_vars(\E b \in plans : Unfinished(b) /\ NextNodes(b))

(***************************************************************************)
(* TreesComplete: a plan whose root is summarized gets committed, in       *)
(* whatever order its units were, wherever the process died, and with      *)
(* counts of missing fragments that a recount confirms, unless its sources *)
(* were changed or a pending commit that conflicts with its file stands in *)
(* the way of all commits: by an edit, or without one by another batch     *)
(* (commit_node, _coverage, next_nodes, _finalize, _recover_commits).      *)
(***************************************************************************)
TreesComplete ==
    []<>(\/ \E i \in intents : Refused(i)
         \/ \A b \in plans : Unfinished(b) => ~SourcesUnchanged(b))

(***************************************************************************)
(* NoFalseConflict: a commit conflicts with the file it belongs to only    *)
(* when somebody edited that file ("Interrupted summary commit conflicts   *)
(* with a later edit", _recover_commits).                                  *)
(***************************************************************************)
NoFalseConflict == notes = {} => ~\E i \in intents : Refused(i)
=============================================================================
